-------------------------- MODULE EditEntryProofs ---------------------------
(***************************************************************************)
(* Proofs about EditEntry, for any number of overlapping calls on any      *)
(* entries.                                                                *)
(*                                                                         *)
(* The argument: what a call writes has its list of nodes replaced by      *)
(* nothing, so it is never accepted by another one.  A call that writes    *)
(* has therefore read the entry of the start, and what it writes is made   *)
(* from that entry and its own arguments, whoever wrote in between.        *)
(***************************************************************************)
EXTENDS EditEntry, SequenceTheorems, TLAPS

\* An entry that is edited, and what a call makes of it.
Editable(d) == /\ d # NoVar /\ Parse(d) # Unparsed
               /\ EndsWithPath(Parse(d).nodes)

ListFrom(r, d) ==
    IF NewPath(r)
    THEN Slice(d, Parse(d).start, Parse(d).end - 2) \o <<FilePath(arg[r].path), EndNode>>
    ELSE Slice(d, Parse(d).start, Parse(d).end)
DescriptionFrom(r, d) ==
    Description(IF NewDescription(r) THEN arg[r].description
                ELSE Stripped[Parse(d).description])
OptFrom(r, d) ==
    IF NewMetadata(r) THEN arg[r].metadata
    ELSE Slice(d, OptDataFrom(Parse(d).end), Len(d))
Rebuilt(r, d) ==
    Slice(d, 0, 1) \o <<LengthCell(Len(ListFrom(r, d))), DescriptionFrom(r, d)>>
      \o OptFrom(r, d)

\* An entry is the one of the start or what its last writer made of that.
IsLastWriter(i, n) ==
    /\ i \in 1..Len(wrote) /\ arg[wrote[i]].target = n
    /\ \A j \in 1..Len(wrote) : arg[wrote[j]].target = n => j <= i
EntryKept(n) ==
    \/ entry[n] = before[n]
    \/ /\ Editable(before[n])
       /\ \E i \in 1..Len(wrote) :
            IsLastWriter(i, n) /\ entry[n] = Rebuilt(wrote[i], before[n])

\* So is what a call has read; and it goes on only with an entry it accepts.
ReadKept(r) ==
    LET n == arg[r].target
    IN  /\ data[r] # NoVar
        /\ \/ data[r] = before[n]
           \/ Editable(before[n]) /\ \E q \in Runs : data[r] = Rebuilt(q, before[n])

IInv ==
    /\ TypeOK
    /\ before \in InitEntries
    /\ \A n \in Names : EntryKept(n)
    /\ DOMAIN data = Runs
    /\ \A r \in Runs : /\ pc[r] \in {"parse", "write"} => ReadKept(r)
                       /\ pc[r] = "write" => Editable(data[r])
-----------------------------------------------------------------------------
\* Sequences of a larger set.
LEMMA Wider ==
  ASSUME NEW S, NEW T, S \subseteq T, NEW s \in Seq(S)
  PROVE  s \in Seq(T)
OBVIOUS

LEMMA Slices ==
  ASSUME NEW S, NEW s \in Seq(S), NEW a \in Nat, NEW b \in Int, b <= Len(s)
  PROVE  Slice(s, a, b) \in Seq(S) /\ Len(Slice(s, a, b)) \in Nat
BY DEF Slice

LEMMA Joined ==
  ASSUME NEW S, NEW r \in Seq(S), NEW s \in Seq(S)
  PROVE  /\ r \o s \in Seq(S) /\ Len(r \o s) = Len(r) + Len(s) /\ Len(s) \in Nat
         /\ \A j \in 1..Len(r) : (r \o s)[j] = r[j]
         /\ \A j \in 1..Len(s) : (r \o s)[Len(r) + j] = s[j]
         /\ SubSeq(r \o s, Len(r) + 1, Len(r) + Len(s)) = s
<1>1. /\ r \o s \in Seq(S) /\ Len(r \o s) = Len(r) + Len(s) /\ Len(s) \in Nat
      /\ \A j \in 1..Len(r) : (r \o s)[j] = r[j]
      /\ \A j \in 1..Len(s) : (r \o s)[Len(r) + j] = s[j]
  OBVIOUS
<1>2. SubSeq(r \o s, Len(r) + 1, Len(r) + Len(s)) = s
  OBVIOUS
<1> QED BY <1>1, <1>2

LEMMA FirstOf ==
  ASSUME NEW S, NEW s \in Seq(S), 1 <= Len(s)
  PROVE  SubSeq(s, 1, 1) = <<s[1]>>
<1> DEFINE t == SubSeq(s, 1, 1)
<1>1. t \in Seq(S) /\ Len(t) = Len(<<s[1]>>) /\ <<s[1]>> \in Seq(S)
      /\ \A j \in 1..Len(t) : t[j] = <<s[1]>>[j]
  OBVIOUS
<1> DEFINE u == <<s[1]>>
<1> HIDE DEF t, u
<1>2. t \in Seq(S) /\ u \in Seq(S) /\ Len(t) = Len(u)
      /\ \A j \in 1..Len(t) : t[j] = u[j]
  BY <1>1 DEF u
<1>3. t = u
  BY <1>2, SeqEqual
<1> QED BY <1>3 DEF t, u

\* Three cells in front of a sequence.
LEMMA Headed ==
  ASSUME NEW S, NEW a \in S, NEW b \in S, NEW c \in S, NEW s \in Seq(S),
         NEW w, w = <<a>> \o <<b, c>> \o s
  PROVE  /\ w \in Seq(S) /\ Len(w) = 3 + Len(s) /\ Len(s) \in Nat
         /\ w[1] = a /\ w[2] = b /\ w[3] = c
         /\ SubSeq(w, 4, Len(w)) = s
<1> DEFINE one == <<a>>
           two == <<b, c>>
           head == one \o two
<1>1. one \in Seq(S) /\ two \in Seq(S)
  OBVIOUS
<1>2. Len(one) = 1 /\ one[1] = a
  OBVIOUS
<1>3. Len(two) = 2 /\ two[1] = b /\ two[2] = c
  OBVIOUS
<1> HIDE DEF one, two
<1>4. /\ head \in Seq(S) /\ Len(head) = Len(one) + Len(two)
      /\ \A j \in 1..Len(one) : head[j] = one[j]
      /\ \A j \in 1..Len(two) : head[Len(one) + j] = two[j]
  BY <1>1, Joined
<1>12. w = head \o s
  BY DEF head, one, two
<1> HIDE DEF head
<1>5. /\ w \in Seq(S) /\ Len(w) = Len(head) + Len(s) /\ Len(s) \in Nat
      /\ \A j \in 1..Len(head) : w[j] = head[j]
      /\ SubSeq(w, Len(head) + 1, Len(head) + Len(s)) = s
  BY <1>4, <1>12, Joined
<1>6. Len(head) = 3
  BY <1>2, <1>3, <1>4
<1>7. 1 \in 1..Len(one) /\ 1 \in 1..Len(two) /\ 2 \in 1..Len(two)
  BY <1>2, <1>3
<1>8. head[1] = a /\ head[1 + 1] = b /\ head[1 + 2] = c
  BY Zenon, <1>2, <1>3, <1>4, <1>7
<1>9. w[1] = head[1] /\ w[2] = head[2] /\ w[3] = head[3]
  BY <1>5, <1>6
<1>10. Len(w) = 3 + Len(s) /\ SubSeq(w, 4, Len(w)) = s
  BY <1>5, <1>6
<1> QED BY <1>5, <1>8, <1>9, <1>10

\* What the parser makes of an entry that is edited.
LEMMA EditableParts ==
  ASSUME NEW d \in Seq(Cells), Editable(d)
  PROVE  /\ d[1] \in Cells /\ d[1].kind = "attr"
         /\ Parse(d).start = 3 /\ Parse(d).end \in Nat
         /\ 3 <= Parse(d).end /\ Parse(d).end <= Len(d)
         /\ Parse(d).optdata = Slice(d, Parse(d).end, Len(d))
<1>1. ~AttributesTwice(d)
  <2> SUFFICES ASSUME AttributesTwice(d) PROVE FALSE
    OBVIOUS
  <2>1. Parse(d).nodes = <<RawNode>>
    BY DEF Parse
  <2> QED BY <2>1 DEF Editable, EndsWithPath
<1>2. HeaderOk(d) /\ 3 + d[2].n <= Len(d)
  BY <1>1 DEF Editable, Parse
<1>3. d[1] \in Cells /\ d[2] \in Cells /\ d[1].kind = "attr" /\ d[2].kind = "len"
  BY <1>2 DEF HeaderOk
<1>4. d[2].n \in Nat
  BY <1>3, CellsAssumption
<1>5. /\ Parse(d).start = 3 /\ Parse(d).end = 3 + d[2].n
      /\ Parse(d).optdata = Slice(d, 3 + d[2].n, Len(d))
  BY <1>1, <1>2 DEF Parse
<1> QED BY <1>2, <1>3, <1>4, <1>5

\* Cells that are no nodes give at most one node.
LEMMA OptNodes ==
  ASSUME NEW f \in Seq(OptCells)
  PROVE  ~EndsWithPath(Nodes(f))
<1>1. CASE Len(f) = 0
  <2>1. Stops(f) = {}
    BY <1>1 DEF Stops
  <2> QED BY <1>1, <2>1 DEF Nodes, EndsWithPath
<1>2. CASE Len(f) # 0
  <2>1. 1 \in 1..Len(f) /\ f[1] \in OptCells
    BY <1>2
  <2>2. f[1].kind = "opt"
    BY <2>1 DEF OptCells
  <2>3. ~NodeOk(f[1]) /\ LastNode(f[1]) = <<RawNode>>
    BY <2>2 DEF NodeOk, LastNode, Known
  <2>4. 1 \in Stops(f) /\ \A j \in Stops(f) : 1 <= j /\ j \in Nat
    BY <2>1, <2>3 DEF Stops
  <2>5. FirstStop(f) = 1
    BY <2>4 DEF FirstStop
  <2>9. Stops(f) # {} /\ 1 - 1 = 0
    BY <2>4
  <2>6. Nodes(f) = SubSeq(f, 1, 0) \o <<RawNode>>
    BY Zenon, <2>3, <2>5, <2>9 DEF Nodes
  <2>7. SubSeq(f, 1, 0) = <<>>
    OBVIOUS
  <2>8. Len(Nodes(f)) = 1
    BY <2>6, <2>7
  <2> QED BY <2>8 DEF EndsWithPath
<1> QED BY <1>1, <1>2

\* The optional data of an entry of the start, or the new one, are no nodes.
LEMMA OptOfStart ==
  ASSUME NEW r \in Runs, arg[r] \in Edits, before \in InitEntries, NEW n \in Names,
         Editable(before[n])
  PROVE  /\ before[n] \in Seq(Cells)
         /\ OptFrom(r, before[n]) \in Seq(OptCells)
         /\ ~NewMetadata(r) => OptFrom(r, before[n]) = Parse(before[n]).optdata
<1>1. before[n] \in Seq(Cells) /\ Parse(before[n]).optdata \in Seq(OptCells)
  BY EntriesAssumption DEF Editable
<1>2. Parse(before[n]).optdata = Slice(before[n], Parse(before[n]).end, Len(before[n]))
  BY <1>1, EditableParts
<1>3. NewMetadata(r) => arg[r].metadata \in Seq(OptCells)
  BY EditsAssumption DEF NewMetadata
<1> QED BY <1>1, <1>2, <1>3 DEF OptFrom, OptDataFrom

\* What a call makes of an entry of the start: the same Attributes, no list, and
\* the optional data behind it.
LEMMA RebuiltParts ==
  ASSUME NEW r \in Runs, arg[r] \in Edits, before \in InitEntries, NEW n \in Names,
         Editable(before[n])
  PROVE  LET w == Rebuilt(r, before[n])
         IN  /\ w[1] = before[n][1] /\ w[2].kind = "len" /\ w[2].n \in Nat
             /\ \E S : w \in Seq(S)
             /\ Len(w) = 3 + Len(OptFrom(r, before[n]))
             /\ SubSeq(w, 4, Len(w)) = OptFrom(r, before[n])
<1> DEFINE d == before[n]
           o == OptFrom(r, d)
           b == LengthCell(Len(ListFrom(r, d)))
           c == DescriptionFrom(r, d)
           S == Cells \cup {b, c}
<1>1. d \in Seq(Cells) /\ o \in Seq(OptCells)
  BY OptOfStart
<1>2. d[1] \in Cells /\ Parse(d).end <= Len(d) /\ 3 <= Parse(d).end /\ Parse(d).end \in Nat /\ Parse(d).start = 3
  BY <1>1, EditableParts
<1>3. o \in Seq(S)
  BY <1>1, Wider DEF OptCells
<1>9. Len(d) \in Nat /\ 1 <= Len(d)
  BY <1>1, <1>2
<1>4. Slice(d, 0, 1) = <<d[1]>>
  <2> HIDE DEF d
  <2>1. SubSeq(d, 1, 1) = <<d[1]>>
    BY <1>1, <1>9, FirstOf
  <2> QED BY <2>1 DEF Slice
<1>5. Rebuilt(r, d) = <<d[1]>> \o <<b, c>> \o o
  BY <1>4 DEF Rebuilt
<1>6. b.kind = "len"
  BY DEF LengthCell
<1>7. d[1] \in S /\ b \in S /\ c \in S
  BY <1>2
<1> HIDE DEF d, o, b, c, S
<1> DEFINE w == Rebuilt(r, d)
<1> HIDE DEF w
<1>10. w = <<d[1]>> \o <<b, c>> \o o
  BY <1>5 DEF w
<1>8. /\ w \in Seq(S) /\ Len(w) = 3 + Len(o) /\ Len(o) \in Nat
      /\ w[1] = d[1] /\ w[2] = b
      /\ SubSeq(w, 4, Len(w)) = o
  BY <1>3, <1>7, <1>10, Headed
<1>11. b.n \in Nat
  <2>1. Slice(d, 3, Parse(d).end - 2) \in Seq(Cells) /\ Slice(d, 3, Parse(d).end) \in Seq(Cells)
    BY <1>1, <1>2, Slices
  <2> DEFINE tail == <<FilePath(arg[r].path), EndNode>>
             U == Cells \cup {FilePath(arg[r].path), EndNode}
  <2>3. tail \in Seq(U) /\ Slice(d, 3, Parse(d).end - 2) \in Seq(U)
    BY <2>1, Wider
  <2>4. Slice(d, 3, Parse(d).end) \in Seq(U)
    BY <2>1, Wider
  <2> HIDE DEF tail, U
  <2>5. Slice(d, 3, Parse(d).end - 2) \o tail \in Seq(U)
    BY <2>3, Joined
  <2>2. ListFrom(r, d) \in Seq(U)
    BY <1>2, <2>4, <2>5 DEF ListFrom, tail
  <2> QED BY <2>2 DEF b, LengthCell
<1> QED BY <1>6, <1>8, <1>11 DEF d, o, w

\* The start of what stands behind three cells.
LEMMA Behind ==
  ASSUME NEW S, NEW T, NEW w \in Seq(S), NEW o \in Seq(T), o = SubSeq(w, 4, Len(w)),
         Len(w) = 3 + Len(o), NEW n \in Nat, 3 + n <= Len(w)
  PROVE  SubSeq(w, 4, 3 + n) = SubSeq(o, 1, n) /\ SubSeq(o, 1, n) \in Seq(T)
<1>1. SubSeq(o, 1, n) \in Seq(T)
  OBVIOUS
<1>2. Len(SubSeq(o, 1, n)) = n /\ Len(SubSeq(w, 4, 3 + n)) = n
  OBVIOUS
<1>3. \A j \in 1..n : SubSeq(w, 4, 3 + n)[j] = w[3 + j] /\ SubSeq(o, 1, n)[j] = o[j]
  OBVIOUS
<1>4. \A j \in 1..n : o[j] = w[3 + j]
  OBVIOUS
<1>5. SubSeq(w, 4, 3 + n) \in Seq(S)
  OBVIOUS
<1> QED BY <1>1, <1>2, <1>3, <1>4, <1>5

\* ... and therefore no call accepts it.
LEMMA RebuiltIsRefused ==
  ASSUME NEW r \in Runs, arg[r] \in Edits, before \in InitEntries, NEW n \in Names,
         Editable(before[n])
  PROVE  ~Editable(Rebuilt(r, before[n]))
<1> DEFINE w == Rebuilt(r, before[n])
           o == OptFrom(r, before[n])
<1>1. /\ w[2].kind = "len" /\ w[2].n \in Nat
      /\ SubSeq(w, 4, Len(w)) = o /\ o \in Seq(OptCells)
      /\ Len(w) = 3 + Len(o) /\ \E S : w \in Seq(S)
  BY RebuiltParts, OptOfStart
<1> HIDE DEF w, o
<1> SUFFICES ASSUME Editable(w) PROVE FALSE
  BY DEF w
<1>2. ~AttributesTwice(w)
  BY <1>1 DEF AttributesTwice
<1>3. /\ 3 + w[2].n <= Len(w)
      /\ Parse(w).nodes = Nodes(SubSeq(w, 4, 3 + w[2].n))
  <2>1. Parse(w) # Unparsed
    BY DEF Editable
  <2>2. /\ 3 + w[2].n <= Len(w)
        /\ Parse(w).nodes = Nodes(Slice(w, 3, 3 + w[2].n))
    BY <1>2, <2>1 DEF Parse
  <2> QED BY <2>2 DEF Slice
<1>5. PICK S : w \in Seq(S)
  BY <1>1
<1>4. SubSeq(w, 4, 3 + w[2].n) = SubSeq(o, 1, w[2].n) /\ SubSeq(o, 1, w[2].n) \in Seq(OptCells)
  <2>1. Len(w) = 3 + Len(o) /\ 3 + w[2].n <= Len(w) /\ w[2].n \in Nat
    BY <1>1, <1>3
  <2>2. o = SubSeq(w, 4, Len(w)) /\ o \in Seq(OptCells)
    BY <1>1
  <2> DEFINE k == w[2].n
  <2> HIDE DEF k
  <2>3. k \in Nat /\ 3 + k <= Len(w)
    BY <2>1 DEF k
  <2>4. SubSeq(w, 4, 3 + k) = SubSeq(o, 1, k) /\ SubSeq(o, 1, k) \in Seq(OptCells)
    BY <2>1, <2>2, <2>3, <1>5, Behind
  <2> QED BY <2>4 DEF k
<1> QED BY <1>3, <1>4, OptNodes DEF Editable
-----------------------------------------------------------------------------
\* The first state.
LEMMA InitHolds == Init => IInv
<1> SUFFICES ASSUME Init PROVE IInv
  OBVIOUS
<1>1. /\ before \in InitEntries /\ entry = before /\ DOMAIN before = Names
  BY EntriesAssumption DEF Init
<1>2. TypeOK
  BY <1>1, OrdersAssumption DEF Init, TypeOK
<1>3. \A n \in Names : EntryKept(n)
  BY <1>1 DEF EntryKept
<1>4. DOMAIN data = Runs /\ \A r \in Runs : pc[r] = "args"
  BY DEF Init
<1> QED BY <1>1, <1>2, <1>3, <1>4 DEF IInv

\* What an entry keeps does not depend on the calls' places, nor what a call read.
LEMMA EntriesStay ==
  ASSUME UNCHANGED <<entry, arg, wrote, before>>, NEW n \in Names
  PROVE  EntryKept(n)' = EntryKept(n)
BY DEF EntryKept, IsLastWriter, Editable, Rebuilt, ListFrom, DescriptionFrom, OptFrom,
       NewPath, NewDescription, NewMetadata

LEMMA ReadStays ==
  ASSUME UNCHANGED <<arg, before>>, NEW r \in Runs, data'[r] = data[r]
  PROVE  ReadKept(r)' = ReadKept(r)
BY DEF ReadKept, Editable, Rebuilt, ListFrom, DescriptionFrom, OptFrom,
       NewPath, NewDescription, NewMetadata

\* A step of one call that leaves the entries alone keeps the invariant if the call
\* goes to an end, to a place where nothing is read yet, or to one that is earned.
LEMMA Quiet ==
  ASSUME IInv, NEW r \in Runs, UNCHANGED <<store, arg, wrote, before>>,
         NEW label, pc' = [pc EXCEPT ![r] = label],
         label \in {"args", "order", "read", "parse", "write", "ended"},
         outcome' \in [Runs -> {"running", "True", "False", "()", "raised"}],
         \A q \in Runs \ {r} : outcome'[q] = outcome[q],
         outcome'[r] = "running" <=> label # "ended",
         DOMAIN data' = Runs, \A q \in Runs \ {r} : data'[q] = data[q],
         label \in {"parse", "write"} => ReadKept(r)',
         label = "write" => Editable(data'[r])
  PROVE  IInv'
<1>1. TypeOK'
  BY DEF IInv, TypeOK, store
<1>2. before' \in InitEntries /\ \A n \in Names : EntryKept(n)'
  BY EntriesStay DEF IInv, store
<1>3. ASSUME NEW q \in Runs
      PROVE  /\ pc'[q] \in {"parse", "write"} => ReadKept(q)'
             /\ pc'[q] = "write" => Editable(data'[q])
  <2>1. CASE q = r
    BY <2>1 DEF IInv, TypeOK
  <2>2. CASE q # r
    <3>1. pc'[q] = pc[q] /\ data'[q] = data[q]
      BY <2>2 DEF IInv, TypeOK
    <3>2. ReadKept(q)' = ReadKept(q)
      BY <3>1, ReadStays
    <3> QED BY <3>1, <3>2 DEF IInv
  <2> QED BY <2>1, <2>2
<1> QED BY <1>1, <1>2, <1>3 DEF IInv

\* Goto and End as Quiet wants them.
LEMMA Moves ==
  ASSUME IInv, NEW r \in Runs, pc[r] # "ended", NEW label, Goto(r, label), label # "ended"
  PROVE  /\ pc' = [pc EXCEPT ![r] = label]
         /\ outcome' \in [Runs -> {"running", "True", "False", "()", "raised"}]
         /\ \A q \in Runs \ {r} : outcome'[q] = outcome[q]
         /\ outcome'[r] = "running" <=> label # "ended"
BY DEF IInv, TypeOK, Goto

LEMMA Ends ==
  ASSUME IInv, NEW r \in Runs, NEW what \in {"True", "False", "()", "raised"}, End(r, what)
  PROVE  /\ pc' = [pc EXCEPT ![r] = "ended"]
         /\ outcome' \in [Runs -> {"running", "True", "False", "()", "raised"}]
         /\ \A q \in Runs \ {r} : outcome'[q] = outcome[q]
         /\ outcome'[r] = "running" <=> "ended" # "ended"
BY DEF IInv, TypeOK, End

\* A call ends, and nothing else changes.
LEMMA EndKeeps ==
  ASSUME IInv, NEW r \in Runs, NEW what \in {"True", "False"},
         End(r, what) \/ Give(r, what) \/ End(r, "raised"),
         UNCHANGED <<store, arg, data, wrote, before>>
  PROVE  IInv'
<1>1. PICK w \in {"True", "False", "()", "raised"} : End(r, w)
  BY DEF Give
<1> QED BY <1>1, Ends, Quiet DEF IInv
-----------------------------------------------------------------------------
\* The steps of a call.
LEMMA EarlySteps ==
  ASSUME IInv, NEW r \in Runs,
         CheckArguments(r) \/ ReadOrder(r) \/ ReadEntryFails(r) \/ WriteEntryFails(r)
  PROVE  IInv'
<1>1. UNCHANGED <<store, arg, data, wrote, before>>
  BY DEF CheckArguments, ReadOrder, ReadEntryFails, WriteEntryFails
<1>2. CASE pc[r] = "args" /\ Goto(r, "order")
  BY <1>1, <1>2, Moves, Quiet DEF IInv
<1>3. CASE pc[r] = "order" /\ Goto(r, "read")
  BY <1>1, <1>3, Moves, Quiet DEF IInv
<1>4. CASE Give(r, "False") \/ End(r, "raised")
  BY <1>1, <1>4, EndKeeps
<1> QED BY <1>2, <1>3, <1>4 DEF CheckArguments, ReadOrder, ReadEntryFails, WriteEntryFails

LEMMA ReadStep ==
  ASSUME IInv, NEW r \in Runs, ReadEntry(r)
  PROVE  IInv'
<1> DEFINE n == arg[r].target
<1>1. /\ n \in Names /\ EntryKept(n)
      /\ wrote \in Seq(Runs)
  BY EditsAssumption DEF IInv, TypeOK
<1>2. /\ entry[n] # NoVar /\ Goto(r, "parse")
      /\ data' = [data EXCEPT ![r] = entry[n]]
      /\ UNCHANGED <<store, arg, wrote, before>> /\ pc[r] # "ended"
  BY DEF ReadEntry, Exists
<1>3. /\ DOMAIN data' = Runs /\ data'[r] = entry[n]
      /\ \A q \in Runs \ {r} : data'[q] = data[q]
  BY <1>2 DEF IInv
<1>4. ReadKept(r)'
  <2>1. CASE entry[n] = before[n]
    BY <1>2, <1>3, <2>1 DEF ReadKept
  <2>2. CASE /\ Editable(before[n])
             /\ \E q \in Runs : entry[n] = Rebuilt(q, before[n])
    <3>1. Editable(before'[arg'[r].target])
      BY <1>2, <2>2 DEF Editable
    <3>2. PICK q \in Runs : entry[n] = Rebuilt(q, before[n])
      BY <2>2
    <3>3. Rebuilt(q, before[n])' = Rebuilt(q, before[n])
      BY <1>2 DEF Rebuilt, ListFrom, DescriptionFrom, OptFrom,
                  NewPath, NewDescription, NewMetadata
    <3> QED BY <1>2, <1>3, <3>1, <3>2, <3>3 DEF ReadKept
  <2> QED BY <1>1, <2>1, <2>2 DEF EntryKept, IsLastWriter
<1> QED BY <1>2, <1>3, <1>4, Moves, Quiet

LEMMA CheckStep ==
  ASSUME IInv, NEW r \in Runs, CheckEntry(r)
  PROVE  IInv'
<1>1. UNCHANGED <<store, arg, data, wrote, before>> /\ pc[r] = "parse" /\ ReadKept(r)
  BY DEF CheckEntry, IInv
<1>2. CASE Give(r, "False") \/ End(r, "raised") \/ End(r, "False")
  BY <1>1, <1>2, EndKeeps
<1>3. CASE Goto(r, "write") /\ Parse(data[r]) # Unparsed /\ Accepts(Parse(data[r]))
  <2>1. ReadKept(r)'
    BY <1>1, ReadStays
  <2>2. Editable(data'[r])
    BY <1>1, <1>3 DEF Editable, Accepts, ReadKept
  <2> QED BY <1>1, <1>3, <2>1, <2>2, Moves, Quiet DEF IInv
<1> QED BY <1>2, <1>3 DEF CheckEntry

\* A write makes its entry from that of the start.
LEMMA WriteStep ==
  ASSUME IInv, NEW r \in Runs, WriteEntry(r)
  PROVE  IInv'
<1> DEFINE n == arg[r].target
           d == before[n]
<1>1. /\ n \in Names /\ arg[r] \in Edits /\ arg \in [Runs -> Edits]
      /\ before \in InitEntries /\ ReadKept(r) /\ Editable(data[r])
      /\ wrote \in Seq(Runs) /\ DOMAIN entry = Names
  BY EditsAssumption DEF IInv, TypeOK, WriteEntry
<1>2. data[r] = d /\ Editable(d)
  BY <1>1, RebuiltIsRefused DEF ReadKept
<1>3. NewData(r) = Rebuilt(r, d)
  BY <1>2 DEF NewData, Rebuilt, NewList, ListFrom, DescriptionFrom, OptFrom
<1>4. /\ entry' = [entry EXCEPT ![n] = Rebuilt(r, d)]
      /\ wrote' = Append(wrote, r)
      /\ UNCHANGED <<arg, data, before, bootOrder, bootNext>>
  BY <1>3 DEF WriteEntry, PutEntry
<1>5. PICK w \in {"True", "()"} : End(r, w)
  BY DEF WriteEntry, Give
<1>6. TypeOK'
  <2>1. /\ pc' = [pc EXCEPT ![r] = "ended"]
        /\ outcome' \in [Runs -> {"running", "True", "False", "()", "raised"}]
        /\ \A q \in Runs \ {r} : outcome'[q] = outcome[q]
        /\ outcome'[r] # "running"
    BY <1>5, Ends
  <2>2. wrote' \in Seq(Runs) /\ DOMAIN entry' = Names
    BY <1>1, <1>4
  <2>3. \A q \in Runs : outcome'[q] = "running" <=> pc'[q] # "ended"
    BY <2>1 DEF IInv, TypeOK
  <2>4. pc' \in [Runs -> {"args", "order", "read", "parse", "write", "ended"}]
    BY <2>1 DEF IInv, TypeOK
  <2> QED BY <1>4, <2>1, <2>2, <2>3, <2>4 DEF IInv, TypeOK
<1>7. ASSUME NEW m \in Names PROVE EntryKept(m)'
  <2>0. /\ Len(wrote) \in Nat /\ Len(wrote') = Len(wrote) + 1 /\ wrote'[Len(wrote')] = r
        /\ \A i \in 1..Len(wrote) : wrote'[i] = wrote[i]
        /\ \A i \in 1..Len(wrote') : i \in 1..Len(wrote) \/ i = Len(wrote')
    BY <1>1, <1>4
  <2>1. CASE m = n
    <3>0. PICK k \in Nat : k = Len(wrote')
      BY <2>0
    <3>1. IsLastWriter(k, n)'
      BY <1>4, <2>0, <3>0 DEF IsLastWriter
    <3>2. Rebuilt(r, d)' = Rebuilt(r, d) /\ Editable(d)'
      BY <1>2, <1>4 DEF Rebuilt, ListFrom, DescriptionFrom, OptFrom, Editable,
                        NewPath, NewDescription, NewMetadata
    <3>3. entry'[n] = Rebuilt(r, d)
      BY <1>1, <1>4
    <3>4. k \in 1..Len(wrote') /\ wrote'[k] = r
      BY <2>0, <3>0
    <3>5. entry'[n] = Rebuilt(wrote[k], before[n])'
      <4>1. Rebuilt(wrote[k], before[n])' = Rebuilt(r, d)'
        BY <3>4
      <4> QED BY <3>2, <3>3, <4>1
    <3> QED BY <1>4, <2>1, <3>1, <3>2, <3>4, <3>5 DEF EntryKept
  <2>2. CASE m # n
    <3>1. entry'[m] = entry[m] /\ before'[m] = before[m] /\ EntryKept(m)
      BY <1>1, <1>4, <2>2 DEF IInv
    <3>2. CASE entry[m] = before[m]
      BY <3>1, <3>2 DEF EntryKept
    <3>3. CASE /\ Editable(before[m])
               /\ \E i \in 1..Len(wrote) :
                    IsLastWriter(i, m) /\ entry[m] = Rebuilt(wrote[i], before[m])
      <4>1. PICK i \in 1..Len(wrote) :
              IsLastWriter(i, m) /\ entry[m] = Rebuilt(wrote[i], before[m])
        BY <3>3
      <4>2. i \in 1..Len(wrote') /\ wrote'[i] = wrote[i]
        BY <2>0
      <4>3. IsLastWriter(i, m)'
        BY <1>4, <2>0, <2>2, <4>1, <4>2 DEF IsLastWriter
      <4>4. Editable(before[m])' /\ Rebuilt(wrote[i], before[m])' = Rebuilt(wrote[i], before[m])
        BY <1>4, <3>3, <4>2 DEF Rebuilt, ListFrom, DescriptionFrom, OptFrom, Editable,
                          NewPath, NewDescription, NewMetadata
      <4> QED BY <3>1, <4>1, <4>2, <4>3, <4>4 DEF EntryKept
    <3> QED BY <3>1, <3>2, <3>3 DEF EntryKept
  <2> QED BY <2>1, <2>2
<1>8. ASSUME NEW q \in Runs
      PROVE  /\ pc'[q] \in {"parse", "write"} => ReadKept(q)'
             /\ pc'[q] = "write" => Editable(data'[q])
  <2>1. pc' = [pc EXCEPT ![r] = "ended"]
    BY <1>5, Ends
  <2>2. ReadKept(q)' = ReadKept(q)
    BY <1>4, ReadStays
  <2> QED BY <1>4, <2>1, <2>2 DEF IInv, TypeOK
<1> QED BY <1>1, <1>4, <1>6, <1>7, <1>8 DEF IInv

LEMMA Inductive == IInv /\ [Next]_vars => IInv'
<1> SUFFICES ASSUME IInv, [Next]_vars PROVE IInv'
  OBVIOUS
<1>1. CASE UNCHANGED vars
  <2>1. /\ UNCHANGED <<arg, data, wrote, before, entry, pc, outcome, bootOrder, bootNext>>
    BY <1>1 DEF vars, local
  <2>2. \A n \in Names : EntryKept(n)'
    BY <2>1, EntriesStay DEF IInv
  <2>3. \A r \in Runs : ReadKept(r)' = ReadKept(r)
    BY <2>1, ReadStays
  <2>4. TypeOK'
    BY <2>1 DEF IInv, TypeOK
  <2> QED BY <2>1, <2>2, <2>3, <2>4 DEF IInv, Editable
<1>2. CASE Next
  BY <1>2, EarlySteps, ReadStep, CheckStep, WriteStep DEF Next, Step
<1> QED BY <1>1, <1>2

\* The invariant of EditEntry.
THEOREM EditInvariant == Spec => []IInv
<1> QED BY InitHolds, Inductive, PTL DEF Spec

\* The variables keep their types, whatever the entries and the calls are.
THEOREM EditTyped == Spec => []TypeOK
<1>1. IInv => TypeOK
  BY DEF IInv
<1> QED BY <1>1, EditInvariant, PTL

\* Any number of overlapping calls leave an entry that does not end with a file
\* path as it was.
THEOREM ChangesPathEntriesOnly == Spec => []OnlyPathEntriesChange
<1>1. IInv => OnlyPathEntriesChange
  <2> SUFFICES ASSUME IInv, NEW n \in Names, entry[n] # before[n]
               PROVE  /\ \E i \in 1..Len(wrote) : arg[wrote[i]].target = n
                      /\ before[n] # NoVar
                      /\ Parse(before[n]) # Unparsed
                      /\ EndsWithPath(Parse(before[n]).nodes)
    BY DEF OnlyPathEntriesChange
  <2> QED BY DEF IInv, EntryKept, IsLastWriter, Editable
<1> QED BY <1>1, EditInvariant, PTL

\* The Attributes and the optional data of an edited entry are those of the start,
\* or the ones its last writer was given.
THEOREM KeepsOptData == Spec => []OptDataKept
<1>1. IInv => OptDataKept
  <2> SUFFICES ASSUME IInv, NEW n \in Names, entry[n] # before[n]
               PROVE  LET r == LastWriterOf(n)
                      IN  /\ entry[n][1] = before[n][1]
                          /\ Tail3(entry[n]) =
                               IF NewMetadata(r) THEN arg[r].metadata
                               ELSE Parse(before[n]).optdata
    BY DEF OptDataKept
  <2>1. PICK i \in 1..Len(wrote) :
          IsLastWriter(i, n) /\ entry[n] = Rebuilt(wrote[i], before[n])
    BY DEF IInv, EntryKept
  <2>2. wrote[i] \in Runs /\ arg[wrote[i]] \in Edits /\ Editable(before[n])
        /\ before \in InitEntries
    BY DEF IInv, EntryKept, TypeOK
  <2>3. LastWriterOf(n) = wrote[i]
    <3> DEFINE mine == {j \in 1..Len(wrote) : arg[wrote[j]].target = n}
    <3>1. i \in mine /\ \A j \in mine : j <= i
      BY <2>1 DEF IsLastWriter
    <3>2. \A k \in mine : (\A j \in mine : j <= k) => k = i
      BY <3>1, <2>2
    <3>3. (CHOOSE k \in mine : \A j \in mine : j <= k) = i
      BY <3>1, <3>2
    <3> QED BY <3>3 DEF LastWriterOf
  <2>4. /\ entry[n][1] = before[n][1]
        /\ SubSeq(entry[n], 4, Len(entry[n])) = OptFrom(wrote[i], before[n])
    BY <2>1, <2>2, RebuiltParts
  <2>5. OptFrom(wrote[i], before[n]) =
          IF NewMetadata(wrote[i]) THEN arg[wrote[i]].metadata ELSE Parse(before[n]).optdata
    BY <2>2, OptOfStart DEF OptFrom
  <2> QED BY <2>3, <2>4, <2>5 DEF Tail3
<1> QED BY <1>1, EditInvariant, PTL
=============================================================================
