------------------------- MODULE CreateEntryProofs --------------------------
(***************************************************************************)
(* Proofs about CreateEntry, for any number of runs, names and requests    *)
(* and any steps of other programs: the variables keep their types; a run  *)
(* finds, and rewrites, no entry but the one bcdedit made for it; that     *)
(* entry is listed when the call succeeds; then, in Windows API mode, what *)
(* it leaves behind: an entry that BootNext points at, and the entry of a  *)
(* call that succeeded, decodes to what its request asked for.             *)
(*                                                                         *)
(* The argument: a temporary description is drawn by one run, put into one *)
(* entry, and copied by nothing but that run into that entry; so the scan  *)
(* cannot find it elsewhere, however stale the boot order it walks over.   *)
(***************************************************************************)
EXTENDS CreateEntry, SequenceTheorems, WellFoundedInduction, TLAPS

\* The cells that may stand in the entry n when the runs own the entries o: a
\* temporary description only in the entry of its run.
CellsOf(o, n) == {c \in Cells : \A q \in Runs : c = Description(q) => o[q] = n}

AfterName == {"setpath", "setdesc", "read", "parse", "write",
              "next", "first", "finish"}
AfterGuid == AfterName \cup {"order", "scan"}

EntriesMarked == \A n \in Names : Exists(n) => entry[n] \in Seq(CellsOf(own, n))
OwnExists == \A r \in Runs : own[r] # None => Exists(own[r])
OwnDistinct == \A q, r \in Runs : own[q] # None /\ own[q] = own[r] => q = r
GuidIsOwn == \A r \in Runs : guid[r] # None => guid[r] = own[r]
DataMarked == \A r \in Runs : /\ data[r] \in Seq(CellsOf(own, own[r]))
                              /\ own[r] = None => data[r] = <<>>
FoundIsOwn == \A r \in Runs : \A i \in 1..Len(found[r]) : found[r][i] = own[r]
Progress ==
    \A r \in Runs :
        /\ pc[r] = "copy" => /\ own[r] = None /\ guid[r] = None /\ name[r] = None
                             /\ found[r] = <<>>
        /\ pc[r] \in {"copy", "order"} => idx[r] = 1
        /\ pc[r] \in AfterGuid => guid[r] # None
        /\ pc[r] \in AfterName => name[r] # None
        /\ pc[r] = "write" => Parse(data[r]) # Unparsed

IInv == /\ TypeOK
        /\ EntriesMarked /\ OwnExists /\ OwnDistinct
        /\ GuidIsOwn /\ DataMarked /\ FoundIsOwn /\ NameIsOwn
        /\ Progress
-----------------------------------------------------------------------------
\* Short sequences are sequences.
LEMMA ShortSeqs ==
  ASSUME NEW S
  PROVE  /\ <<>> \in Seq(S)
         /\ \A a \in S : <<a>> \in Seq(S)
         /\ \A a, b \in S : <<a, b>> \in Seq(S)
         /\ \A a, b, c \in S : <<a, b, c>> \in Seq(S)
OBVIOUS

\* The ends of a call.
LEMMA FailEnds ==
  ASSUME NEW r \in Runs, NEW step, NEW payload, Fail(r, step, payload)
  PROVE  \E l \in Ended : pc' = [pc EXCEPT ![r] = l]
BY DEF Fail, Raise, Return, Goto, Ended

\* Nothing the program puts into a variable, apart from its own token, can be
\* taken for a temporary description.
LEMMA CellIsCell ==
  ASSUME NEW k \in NodeKinds \cup {"attr", "desc", "opt"}, NEW v \in Texts \cup Runs \cup {TooLong}
  PROVE  Cell(k, v) \in Cells
BY DEF Cell, Cells

\* A cell that is no description may stand anywhere.
LEMMA OtherKind ==
  ASSUME NEW o, NEW n, NEW c \in Cells, c.kind # "desc"
  PROVE  c \in CellsOf(o, n)
<1>1. \A q : Description(q).kind = "desc"
  BY DEF Description, Cell
<1> QED BY <1>1 DEF CellsOf

\* So may the description of a request, which is nobody's token,
LEMMA PlainDescription ==
  ASSUME NEW o, NEW n, NEW d \in Texts
  PROVE  Description(d) \in CellsOf(o, n)
<1>1. Description(d) \in Cells
  BY CellIsCell DEF Description, NodeKinds, Known
<1>2. ASSUME NEW q \in Runs, Description(d) = Description(q) PROVE FALSE
  <2>1. Description(d).val = d /\ Description(q).val = q
    BY DEF Description, Cell
  <2> QED BY <2>1, <1>2, TextsAssumption
<1> QED BY <1>1, <1>2 DEF CellsOf

\* optional data and device-path nodes,
LEMMA OptCellsArePlain ==
  ASSUME NEW o, NEW n
  PROVE  OptCells \subseteq CellsOf(o, n) /\ NodeCells \subseteq CellsOf(o, n)
<1>1. ASSUME NEW c \in OptCells PROVE c \in CellsOf(o, n)
  <2>1. c \in Cells /\ c.kind # "desc"
    BY DEF OptCells, Cells
  <2> QED BY <2>1, OtherKind
<1>2. ASSUME NEW c \in NodeCells PROVE c \in CellsOf(o, n)
  <2>1. c \in Cells /\ c.kind # "desc"
    BY DEF NodeCells, Cells, NodeKinds, Known
  <2> QED BY <2>1, OtherKind
<1> QED BY <1>1, <1>2

\* a length,
LEMMA LengthsArePlain ==
  ASSUME NEW o, NEW n, NEW k \in Nat
  PROVE  LengthCell(k) \in CellsOf(o, n)
<1>1. LengthCell(k) \in Cells /\ LengthCell(k).kind = "len"
  BY DEF LengthCell, Cells
<1> QED BY <1>1, OtherKind

\* the attributes and the end node,
LEMMA FixedCellsArePlain ==
  ASSUME NEW o, NEW n
  PROVE  Attributes \in CellsOf(o, n) /\ EndNode \in CellsOf(o, n)
<1>1. Attributes \in Cells /\ EndNode \in Cells
  BY CellIsCell, TextsAssumption DEF Attributes, EndNode, NodeKinds, Known
<1>2. Attributes.kind = "attr" /\ EndNode.kind = "end"
  BY DEF Attributes, EndNode, Cell
<1> QED BY <1>1, <1>2, OtherKind

\* and a path.
LEMMA PathsArePlain ==
  ASSUME NEW o, NEW n, NEW p \in Texts \cup {TooLong}
  PROVE  FilePath(p) \in CellsOf(o, n)
<1>1. FilePath(p) \in Cells
  BY CellIsCell DEF FilePath, NodeKinds, Known
<1>2. FilePath(p).kind = "path"
  BY DEF FilePath, Cell
<1> QED BY <1>1, <1>2, OtherKind
-----------------------------------------------------------------------------
\* Nobody has an entry or a token in the store yet.
LEMMA InitIInv == Init => IInv
<1> SUFFICES ASSUME Init PROVE IInv
  OBVIOUS
<1>a. /\ \A r \in Runs : /\ pc[r] = "copy" /\ guid[r] = None /\ name[r] = None
                         /\ own[r] = None /\ order[r] = <<>> /\ found[r] = <<>>
                         /\ data[r] = <<>> /\ idx[r] = 1
      /\ env = 0 /\ bootOrder \in InitOrders /\ bootNext = NoVar
      /\ DOMAIN entry = Names /\ arg \in [Runs -> Requests]
      /\ order = [r \in Runs |-> <<>>] /\ found = order
      /\ idx \in [Runs -> Nat] /\ DOMAIN data = Runs
  BY DEF Init
<1>b. /\ pc = [r \in Runs |-> "copy"] /\ guid = [r \in Runs |-> None]
      /\ name = guid /\ own = guid
  BY DEF Init
<1>1. TypeOK
  <2>1. pc \in [Runs -> Steps \cup Ended] /\ guid \in [Runs -> NamesOrNone]
    BY <1>b DEF Steps, NamesOrNone
  <2>2. <<>> \in Seq(Names) /\ Len(<<>>) = 0
    OBVIOUS
  <2>3. order \in [Runs -> Seq(Names)]
    BY <1>a, <2>2
  <2>4. \A r \in Runs : idx[r] \in 1..(Len(order[r]) + 1)
    BY <1>a, <2>2
  <2>5. env \in 0..EnvBudget
    BY <1>a, BudgetAssumption
  <2>6. bootOrder = NoVar \/ bootOrder \in Seq(Names) \ {<<>>}
    BY <1>a, StoreAssumption
  <2> QED BY <1>a, <1>b, <2>1, <2>3, <2>4, <2>5, <2>6 DEF TypeOK
<1>2. EntriesMarked
  <2> SUFFICES ASSUME NEW n \in Names, Exists(n)
               PROVE  entry[n] \in Seq(CellsOf(own, n))
    BY DEF EntriesMarked
  <2> DEFINE nodes == <<Cell("hd", ""), FilePath("foreign")>>
             S == CellsOf(own, n)
  <2>1. entry[n] = BuildLoadOption("Foreign", nodes, <<>>)
    BY DEF Init, Exists
  <2>2. Cell("hd", "") \in S /\ FilePath("foreign") \in S /\ Description("Foreign") \in S
    <3>1. Cell("hd", "") \in Cells
      BY CellIsCell, TextsAssumption DEF NodeKinds, Known
    <3>2. Cell("hd", "").kind = "hd"
      BY DEF Cell
    <3> QED BY <3>1, <3>2, OtherKind, PathsArePlain, PlainDescription, TextsAssumption
  <2>3. LengthCell(Len(nodes) + 1) \in S
    <3>1. Len(nodes) + 1 \in Nat
      OBVIOUS
    <3> QED BY <3>1, LengthsArePlain
  <2>4. Attributes \in S /\ EndNode \in S
    BY FixedCellsArePlain
  <2> HIDE DEF S
  <2>5. nodes \in Seq(S)
    BY <2>2, ShortSeqs
  <2> HIDE DEF nodes
  <2>6. Append(nodes, EndNode) \in Seq(S)
    BY <2>4, <2>5
  <2>7. <<Attributes, LengthCell(Len(nodes) + 1), Description("Foreign")>> \in Seq(S)
    BY <2>2, <2>3, <2>4, ShortSeqs
  <2>8. BuildLoadOption("Foreign", nodes, <<>>) \in Seq(S)
    BY <2>6, <2>7 DEF BuildLoadOption
  <2> QED BY <2>1, <2>8 DEF S
<1>3. OwnExists /\ OwnDistinct /\ GuidIsOwn /\ NameIsOwn
  BY <1>a DEF OwnExists, OwnDistinct, GuidIsOwn, NameIsOwn
<1>4. DataMarked /\ FoundIsOwn
  <2>1. DataMarked
    BY <1>a, ShortSeqs DEF DataMarked
  <2>2. Len(<<>>) = 0
    OBVIOUS
  <2>3. FoundIsOwn
    BY <1>a, <2>2 DEF FoundIsOwn
  <2> QED BY <2>1, <2>3
<1>5. Progress
  BY <1>a DEF Progress, AfterName, AfterGuid
<1> QED BY <1>1, <1>2, <1>3, <1>4, <1>5 DEF IInv
-----------------------------------------------------------------------------
\* Most steps move one run on or end it, and change the store at most by what
\* belongs into an entry; the invariant is preserved by all of them for the same
\* reasons.
MovesOn == /\ pc' \in [Runs -> Steps \cup Ended]
           /\ \A r \in Runs : \/ pc'[r] = pc[r]
                             \/ pc'[r] \in Ended
                             \/ (pc[r] \in AfterName /\ pc'[r] \in AfterName \ {"write"})
                             \/ (pc[r] \in AfterName /\ pc'[r] = "write"
                                   /\ Parse(data[r]) # Unparsed)

StoreKept == /\ bootOrder' = NoVar \/ bootOrder' \in Seq(Names) \ {<<>>}
             /\ bootNext' \in Names \cup {NoVar}
             /\ DOMAIN entry' = Names
             /\ \A n \in Names : \/ entry'[n] = entry[n]
                                \/ entry'[n] \in Seq(CellsOf(own, n))
                                \/ (entry'[n] = NoVar /\ NotOurs(n))

\* Such a step preserves the invariant.
LEMMA PlainStep ==
  ASSUME IInv, MovesOn, StoreKept,
         UNCHANGED <<arg, guid, order, idx, found, name, data, own>>,
         env' \in 0..EnvBudget
  PROVE  IInv'
<1>1. TypeOK'
  BY DEF IInv, TypeOK, MovesOn, StoreKept
<1>2. EntriesMarked'
  BY DEF IInv, EntriesMarked, StoreKept, Exists
<1>3. OwnExists'
  <2> SUFFICES ASSUME NEW r \in Runs, own[r] # None PROVE entry'[own[r]] # NoVar
    BY DEF OwnExists, Exists
  <2>1. own[r] \in Names /\ entry[own[r]] # NoVar
    BY DEF IInv, TypeOK, OwnExists, Exists, NamesOrNone
  <2>2. NoVar \notin Seq(CellsOf(own, own[r]))
    BY SentinelAssumption DEF CellsOf
  <2> QED BY <2>1, <2>2 DEF StoreKept, NotOurs
<1>4. OwnDistinct' /\ GuidIsOwn' /\ DataMarked' /\ FoundIsOwn' /\ NameIsOwn'
  BY DEF IInv, OwnDistinct, GuidIsOwn, DataMarked, FoundIsOwn, NameIsOwn
<1>5. Progress'
  <2> SUFFICES ASSUME NEW r \in Runs
               PROVE  /\ pc'[r] = "copy" => /\ own[r] = None /\ guid[r] = None
                                            /\ name[r] = None /\ found[r] = <<>>
                      /\ pc'[r] \in {"copy", "order"} => idx[r] = 1
                      /\ pc'[r] \in AfterGuid => guid[r] # None
                      /\ pc'[r] \in AfterName => name[r] # None
                      /\ pc'[r] = "write" => Parse(data[r]) # Unparsed
    BY DEF Progress
  <2>1. CASE pc'[r] = pc[r]
    BY <2>1 DEF IInv, Progress
  <2>2. CASE pc'[r] \in Ended
    BY <2>2 DEF Ended, AfterGuid, AfterName
  <2>3. CASE pc[r] \in AfterName /\ pc'[r] \in AfterName \ {"write"}
    <3>1. guid[r] # None /\ name[r] # None
      BY <2>3 DEF IInv, Progress, AfterGuid
    <3> QED BY <2>3, <3>1 DEF AfterName
  <2>4. CASE pc[r] \in AfterName /\ pc'[r] = "write" /\ Parse(data[r]) # Unparsed
    <3>1. guid[r] # None /\ name[r] # None
      BY <2>4 DEF IInv, Progress, AfterGuid
    <3> QED BY <2>4, <3>1
  <2> QED BY <2>1, <2>2, <2>3, <2>4 DEF MovesOn
<1> QED BY <1>1, <1>2, <1>3, <1>4, <1>5 DEF IInv

\* One run moved on, or ended.
LEMMA Moves ==
  ASSUME IInv, NEW r \in Runs, NEW l, pc' = [pc EXCEPT ![r] = l],
         \/ l \in Ended
         \/ (pc[r] \in AfterName /\ l \in AfterName \ {"write"})
         \/ (pc[r] \in AfterName /\ l = "write" /\ Parse(data[r]) # Unparsed)
  PROVE  MovesOn
<1>1. l \in Steps \cup Ended
  BY DEF AfterName, Steps
<1>2. pc \in [Runs -> Steps \cup Ended]
  BY DEF IInv, TypeOK
<1> QED BY <1>1, <1>2 DEF MovesOn

\* An untouched store is kept.
LEMMA SameStore ==
  ASSUME IInv, UNCHANGED store
  PROVE  StoreKept
BY DEF IInv, TypeOK, StoreKept, store

\* A step of one run that leaves the store alone.
LEMMA QuietStep ==
  ASSUME IInv, NEW r \in Runs, NEW l, pc' = [pc EXCEPT ![r] = l],
         \/ l \in Ended
         \/ (pc[r] \in AfterName /\ l \in AfterName \ {"write"})
         \/ (pc[r] \in AfterName /\ l = "write" /\ Parse(data[r]) # Unparsed),
         UNCHANGED <<store, arg, guid, order, idx, found, name, data, own, env>>
  PROVE  IInv'
<1>1. MovesOn /\ StoreKept
  BY Moves, SameStore
<1>2. env' \in 0..EnvBudget
  BY DEF IInv, TypeOK
<1> QED BY <1>1, <1>2, PlainStep

\* A step that ends the run and leaves the store alone.
LEMMA FailingStep ==
  ASSUME IInv, NEW r \in Runs, NEW step, NEW payload,
         Fail(r, step, payload) \/ Raise(r, step) \/ Return(r, step, payload)
           \/ Goto(r, "killed"),
         UNCHANGED <<store, arg, guid, order, idx, found, name, data, own, env>>
  PROVE  IInv'
<1>1. PICK l \in Ended : pc' = [pc EXCEPT ![r] = l]
  <2>1. CASE Fail(r, step, payload)
    BY <2>1, FailEnds
  <2>2. CASE ~Fail(r, step, payload)
    BY <2>2 DEF Raise, Return, Goto, Ended
  <2> QED BY <2>1, <2>2
<1> QED BY <1>1, QuietStep

\* The steps that do nothing else.
LEMMA OneRunEnds ==
  ASSUME IInv, NEW r \in Runs,
         \/ CopyFails(r) \/ ReadOrderFails(r) \/ ScanRaises(r) \/ ReadEntryRaises(r)
         \/ AddFirstRaises(r) \/ Finish(r) \/ Kill(r)
  PROVE  IInv'
<1>1. CASE CopyFails(r)
  BY <1>1, FailingStep DEF CopyFails
<1>2. CASE ReadOrderFails(r)
  BY <1>2, FailingStep DEF ReadOrderFails
<1>3. CASE ScanRaises(r)
  BY <1>3, FailingStep DEF ScanRaises
<1>4. CASE ReadEntryRaises(r)
  BY <1>4, FailingStep DEF ReadEntryRaises
<1>5. CASE AddFirstRaises(r)
  BY <1>5, FailingStep DEF AddFirstRaises
<1>6. CASE Finish(r)
  BY <1>6, FailingStep DEF Finish
<1>7. CASE Kill(r)
  BY <1>7, FailingStep DEF Kill, local
<1> QED BY <1>1, <1>2, <1>3, <1>4, <1>5, <1>6, <1>7

\* The steps that only decide where the run goes on.
LEMMA OneRunGoesOn ==
  ASSUME IInv, NEW r \in Runs,
         \/ WriteEntryFails(r) \/ SkipNext(r) \/ SetNextFails(r)
         \/ SkipFirst(r)
  PROVE  IInv'
<1>2. CASE WriteEntryFails(r)
  BY <1>2, FailingStep DEF WriteEntryFails, AfterRefusedWrite
<1>3. CASE SkipNext(r)
  BY <1>3, QuietStep DEF SkipNext, Continue, Goto, AfterName
<1>4. CASE SetNextFails(r)
  <2>1. CASE Raise(r, 14)
    BY <1>4, <2>1, FailingStep DEF SetNextFails
  <2>2. CASE Continue(r, "first")
    BY <1>4, <2>2, QuietStep DEF SetNextFails, Continue, Goto, AfterName
  <2> QED BY <1>4, <2>1, <2>2 DEF SetNextFails
<1>5. CASE SkipFirst(r)
  BY <1>5, QuietStep DEF SkipFirst, Continue, Goto, AfterName
<1> QED BY <1>2, <1>3, <1>4, <1>5
-----------------------------------------------------------------------------
\* What is put into an entry: cells of the old one, and plain ones.
LEMMA SliceIn ==
  ASSUME NEW S, NEW s \in Seq(S), NEW a \in Nat, NEW b \in Int, b <= Len(s)
  PROVE  Slice(s, a, b) \in Seq(S)
<1>1. \A i \in (a + 1)..b : s[i] \in S
  BY ElementOfSeq
<1> QED BY <1>1, SubSeqProperties DEF Slice

\* The places Parse returns lie within the data.
LEMMA ParseBounds ==
  ASSUME NEW s \in Seq(Cells), Parse(s) # Unparsed
  PROVE  /\ Parse(s).start \in Nat /\ Parse(s).end \in Nat
         /\ Parse(s).end <= Len(s) /\ Len(s) >= 3
<1>1. CASE AttributesTwice(s)
  <2>1. Len(s) >= 4
    BY <1>1 DEF AttributesTwice
  <2>2. Parse(s).start = 2 /\ Parse(s).end = 3
    BY <1>1 DEF Parse
  <2> QED BY <2>1, <2>2
<1>2. CASE ~AttributesTwice(s)
  <2>1. HeaderOk(s) /\ 3 + s[2].n <= Len(s)
    BY <1>2 DEF Parse
  <2>2. s[2] \in Cells /\ s[2].kind = "len" /\ Len(s) >= 3
    BY <2>1 DEF HeaderOk
  <2>3. s[2].n \in Nat
    BY <2>2 DEF Cells, NodeKinds, Known
  <2>4. Parse(s).start = 3 /\ Parse(s).end = 3 + s[2].n
    BY <1>2, <2>1 DEF Parse
  <2> QED BY <2>1, <2>2, <2>3, <2>4
<1> QED BY <1>1, <1>2

\* The new payload is made of the cells of the old one and of plain ones.
LEMMA NewDataMarked ==
  ASSUME IInv, NEW r \in Runs, pc[r] = "write"
  PROVE  NewData(r) \in Seq(CellsOf(own, own[r]))
<1> DEFINE S == CellsOf(own, own[r])
           old == data[r]
           start == Parse(old).start
           end == Parse(old).end
           kept == CutOff(Slice(old, start, end))
           fpl == kept \o <<FilePath(arg[r].path), EndNode>>
<1>1. old \in Seq(S) /\ arg[r] \in Requests /\ Parse(old) # Unparsed
  BY DEF IInv, TypeOK, DataMarked, Progress
<1>2. S \subseteq Cells
  BY DEF CellsOf
<1> HIDE DEF S
<1>3. start \in Nat /\ end \in Nat /\ end <= Len(old) /\ Len(old) >= 3
  <2>1. old \in Seq(Cells)
    BY <1>1, <1>2
  <2> QED BY <2>1, <1>1, ParseBounds
<1>4. /\ arg[r].path \in Texts \cup {TooLong} /\ arg[r].description \in Texts
      /\ arg[r].metadata \in Seq(OptCells)
  BY <1>1, RequestsAssumption
<1>5. /\ FilePath(arg[r].path) \in S /\ Description(arg[r].description) \in S
      /\ EndNode \in S /\ arg[r].metadata \in Seq(S)
  BY <1>4, PathsArePlain, PlainDescription, FixedCellsArePlain, OptCellsArePlain DEF S
<1> HIDE DEF old, start, end
<1>6. Slice(old, 0, 1) \in Seq(S)
  <2>1. 1 <= Len(old) /\ 0 \in Nat /\ 1 \in Int
    BY <1>3
  <2>2. old \in Seq(S)
    BY <1>1
  <2> HIDE DEF old
  <2> QED BY <2>1, <2>2, SliceIn
<1>7. Slice(old, 0, end) \in Seq(S) /\ Slice(old, start, end) \in Seq(S)
  <2>1. 0 \in Nat /\ end \in Int
    BY <1>3
  <2>2. Slice(old, 0, end) \in Seq(S)
    BY <2>1, <1>1, <1>3, SliceIn
  <2>3. Slice(old, start, end) \in Seq(S)
    BY <2>1, <1>1, <1>3, SliceIn
  <2> QED BY <2>2, <2>3
<1>8. kept \in Seq(S)
  <2> DEFINE list == Slice(old, start, end)
  <2>1. list \in Seq(S) /\ Len(list) \in Nat
    BY <1>7
  <2> HIDE DEF list
  <2>2. Slice(list, 0, Len(list) - 2) \in Seq(S)
    BY <2>1, SliceIn
  <2> QED BY <2>2 DEF CutOff, list
<1> HIDE DEF kept
<1>9. fpl \in Seq(S) /\ Len(fpl) \in Nat
  BY <1>5, <1>8, ShortSeqs
<1> HIDE DEF fpl
<1>10. LengthCell(Len(fpl)) \in S
  BY <1>9, LengthsArePlain DEF S
<1>11. <<LengthCell(Len(fpl)), Description(arg[r].description)>> \in Seq(S)
  BY <1>5, <1>10, ShortSeqs
<1>12. NewData(r) = IF arg[r].pathByBcd
                    THEN Slice(old, 0, 1) \o Slice(old, 0, end) \o arg[r].metadata
                    ELSE Slice(old, 0, 1)
                           \o <<LengthCell(Len(fpl)), Description(arg[r].description)>>
                           \o fpl \o arg[r].metadata
  BY DEF NewData, fpl, kept, old, start, end
<1> DEFINE head == Slice(old, 0, 1)
           upToEnd == Slice(old, 0, end)
           meta == arg[r].metadata
           new == <<LengthCell(Len(fpl)), Description(arg[r].description)>>
<1> HIDE DEF head, upToEnd, meta, new
<1>13. /\ head \in Seq(S) /\ upToEnd \in Seq(S) /\ meta \in Seq(S)
       /\ new \in Seq(S) /\ fpl \in Seq(S)
  BY <1>5, <1>6, <1>7, <1>9, <1>11 DEF head, upToEnd, meta, new
<1>14. head \o upToEnd \o meta \in Seq(S) /\ head \o new \o fpl \o meta \in Seq(S)
  BY <1>13
<1> QED BY <1>12, <1>14 DEF S, head, upToEnd, meta, new

\* A name taken out of a boot order leaves a boot order.
LEMMA WithoutIsOrder ==
  ASSUME NEW s \in Seq(Names), NEW n
  PROVE  /\ Without(s, n) \in Seq(Names)
         /\ \A m \in Listed(s) \ {n} : Without(s, n) # <<>>
<1>1. CASE n \notin {s[i] : i \in 1..Len(s)}
  <2>1. Without(s, n) = s
    BY <1>1 DEF Without
  <2>2. \A m \in Listed(s) \ {n} : s # <<>>
    BY DEF Listed
  <2> QED BY <2>1, <2>2
<1>2. CASE n \in {s[i] : i \in 1..Len(s)}
  <2> DEFINE k == CHOOSE i \in 1..Len(s) : s[i] = n
             before == SubSeq(s, 1, k - 1)
             after == SubSeq(s, k + 1, Len(s))
  <2>1. k \in 1..Len(s) /\ Len(s) \in Nat /\ s[k] = n
    BY <1>2
  <2>2. Without(s, n) = before \o after
    BY <1>2 DEF Without
  <2> HIDE DEF k
  <2>3. \A i \in 1..Len(s) : s[i] \in Names
    BY ElementOfSeq
  <2>4. before \in Seq(Names) /\ Len(before) = k - 1
    BY <2>1, <2>3, SubSeqProperties
  <2>5. after \in Seq(Names) /\ Len(after) = Len(s) - k
    BY <2>1, <2>3, SubSeqProperties
  <2> HIDE DEF before, after
  <2>6. before \o after \in Seq(Names) /\ Len(before \o after) = Len(s) - 1
    BY <2>1, <2>4, <2>5
  <2>7. ASSUME NEW m \in Listed(s) \ {n} PROVE before \o after # <<>>
    <3>1. PICK i \in 1..Len(s) : s[i] = m
      BY DEF Listed
    <3>2. i # k
      BY <2>1, <3>1
    <3>3. Len(s) - 1 > 0
      BY <2>1, <3>2
    <3> QED BY <2>6, <3>3
  <2> QED BY <2>2, <2>6, <2>7
<1> QED BY <1>1, <1>2

\* A name put in front of a boot order makes a boot order.
LEMMA InFrontIsOrder ==
  ASSUME NEW n \in Names, NEW s \in Seq(Names)
  PROVE  <<n>> \o s \in Seq(Names) \ {<<>>}
<1>1. <<n>> \in Seq(Names)
  BY ShortSeqs
<1>2. <<n>> \o s \in Seq(Names) /\ Len(<<n>> \o s) = 1 + Len(s)
  BY <1>1
<1> QED BY <1>2

\* Other programs delete entries that are of no run, and reorder.
LEMMA OthersIInv == IInv /\ (DeleteForeign \/ Reorder) => IInv'
<1> SUFFICES ASSUME IInv, DeleteForeign \/ Reorder PROVE IInv'
  OBVIOUS
<1>1. /\ UNCHANGED <<pc, local, own>> /\ env' = env + 1 /\ env < EnvBudget
      /\ UNCHANGED bootNext
  BY DEF DeleteForeign, Reorder
<1>2. env' \in 0..EnvBudget
  <2>1. env \in 0..EnvBudget /\ EnvBudget \in Nat
    BY BudgetAssumption DEF IInv, TypeOK
  <2> QED BY <1>1, <2>1
<1>3. MovesOn /\ bootNext' \in Names \cup {NoVar}
  BY <1>1 DEF IInv, TypeOK, MovesOn, local
<1>4. bootOrder = NoVar \/ bootOrder \in Seq(Names) \ {<<>>}
  BY DEF IInv, TypeOK
<1>5. StoreKept
  <2>1. CASE DeleteForeign
    <3>1. PICK n \in Names :
            /\ NotOurs(n)
            /\ entry' = [entry EXCEPT ![n] = NoVar]
            /\ \/ UNCHANGED bootOrder
               \/ /\ Listed(bootOrder) \ {n} # {}
                  /\ bootOrder' = Without(bootOrder, n)
      BY <2>1 DEF DeleteForeign
    <3>2. bootOrder' = NoVar \/ bootOrder' \in Seq(Names) \ {<<>>}
      <4>1. CASE UNCHANGED bootOrder
        BY <4>1, <1>4
      <4>2. CASE /\ Listed(bootOrder) \ {n} # {}
                 /\ bootOrder' = Without(bootOrder, n)
        <5>1. bootOrder \in Seq(Names)
          BY <4>2, <1>4 DEF Listed
        <5> QED BY <4>2, <5>1, WithoutIsOrder
      <4> QED BY <3>1, <4>1, <4>2
    <3>3. DOMAIN entry = Names
      BY DEF IInv, TypeOK
    <3> QED BY <1>3, <3>1, <3>2, <3>3 DEF StoreKept
  <2>2. CASE Reorder
    <3>1. PICK n \in Listed(bootOrder) :
            bootOrder' = <<n>> \o Without(bootOrder, n) /\ UNCHANGED entry
      BY <2>2 DEF Reorder
    <3>2. bootOrder \in Seq(Names) /\ n \in Names
      BY <1>4, <3>1 DEF Listed
    <3>3. bootOrder' \in Seq(Names) \ {<<>>}
      BY <3>1, <3>2, WithoutIsOrder, InFrontIsOrder
    <3>4. DOMAIN entry = Names
      BY DEF IInv, TypeOK
    <3> QED BY <1>3, <3>1, <3>3, <3>4 DEF StoreKept
  <2> QED BY <2>1, <2>2
<1> QED BY <1>1, <1>2, <1>3, <1>5, PlainStep DEF local
-----------------------------------------------------------------------------
\* The steps that write.  After the copy the GUID, and after the scan the name,
\* are those of the run's own entry.
LEMMA OwnKnown ==
  ASSUME IInv, NEW r \in Runs, pc[r] \in AfterName
  PROVE  own[r] \in Names /\ guid[r] = own[r] /\ name[r] = own[r]
<1>1. guid[r] # None /\ name[r] # None
  BY DEF IInv, Progress, AfterGuid
<1>2. guid[r] = own[r] /\ name[r] = own[r]
  BY <1>1 DEF IInv, GuidIsOwn, NameIsOwn
<1> QED BY <1>1, <1>2 DEF IInv, TypeOK, NamesOrNone

\* A write of cells that may stand in the own entry.
LEMMA OwnWrite ==
  ASSUME IInv, NEW r \in Runs, pc[r] \in AfterName, NEW cells, NEW l,
         cells \in Seq(CellsOf(own, own[r])),
         PutEntry(own[r], cells),
         pc' = [pc EXCEPT ![r] = l], l \in AfterName \ {"write"},
         UNCHANGED <<arg, guid, order, idx, found, name, data, notes, own, env>>
  PROVE  IInv'
<1>1. own[r] \in Names
  BY OwnKnown
<1>2. StoreKept
  BY <1>1 DEF IInv, TypeOK, StoreKept, PutEntry
<1>3. MovesOn
  BY Moves
<1> QED BY <1>2, <1>3, PlainStep DEF IInv, TypeOK

\* bcdedit puts the requested path into the own entry.
LEMMA SetPathIInv == ASSUME IInv, NEW r \in Runs, SetPath(r) PROVE IInv'
<1>1. pc[r] \in AfterName
  BY DEF SetPath, AfterName
<1>2. own[r] \in Names /\ guid[r] = own[r]
  BY <1>1, OwnKnown
<1>3. CASE /\ Exists(own[r])
           /\ PutEntry(own[r], WithPath(entry[own[r]], arg[r].path))
           /\ Continue(r, "setdesc")
  <2> DEFINE S == CellsOf(own, own[r])
  <2>1. entry[own[r]] \in Seq(S)
    BY <1>2, <1>3 DEF IInv, EntriesMarked
  <2>2. FilePath(arg[r].path) \in S
    BY RequestsAssumption, PathsArePlain DEF IInv, TypeOK
  <2> HIDE DEF S
  <2>3. WithPath(entry[own[r]], arg[r].path) \in Seq(S)
    BY <2>1, <2>2 DEF WithPath
  <2> QED BY <1>1, <1>3, <2>3, OwnWrite DEF S, SetPath, Continue, Goto, AfterName
<1>4. CASE UNCHANGED store /\ Fail(r, 4, <<GuidOf(r)>>)
  BY <1>4, FailingStep DEF SetPath
<1> QED BY <1>2, <1>3, <1>4 DEF SetPath

\* bcdedit puts the requested description into the own entry.
LEMMA SetDescriptionIInv == ASSUME IInv, NEW r \in Runs, SetDescription(r) PROVE IInv'
<1>1. pc[r] \in AfterName
  BY DEF SetDescription, AfterName
<1>2. own[r] \in Names /\ guid[r] = own[r]
  BY <1>1, OwnKnown
<1>3. CASE /\ Exists(own[r])
           /\ PutEntry(own[r], WithDescription(entry[own[r]], arg[r].description))
           /\ Continue(r, "read")
  <2> DEFINE S == CellsOf(own, own[r])
  <2>1. entry[own[r]] \in Seq(S)
    BY <1>2, <1>3 DEF IInv, EntriesMarked
  <2>2. Description(arg[r].description) \in S
    BY RequestsAssumption, PlainDescription DEF IInv, TypeOK
  <2> HIDE DEF S
  <2>3. WithDescription(entry[own[r]], arg[r].description) \in Seq(S)
    BY <2>1, <2>2 DEF WithDescription
  <2> QED BY <1>1, <1>3, <2>3, OwnWrite DEF S, SetDescription, Continue, Goto, AfterName
<1>4. CASE UNCHANGED store /\ Fail(r, 5, <<GuidOf(r), NameOf(r)>>)
  BY <1>4, FailingStep DEF SetDescription
<1> QED BY <1>2, <1>3, <1>4 DEF SetDescription

\* The new payload goes into the own entry.
LEMMA WriteEntryIInv == ASSUME IInv, NEW r \in Runs, WriteEntry(r) PROVE IInv'
<1>1. pc[r] = "write" /\ pc[r] \in AfterName
  BY DEF WriteEntry, AfterName
<1>2. name[r] = own[r]
  BY <1>1, OwnKnown
<1>3. NewData(r) \in Seq(CellsOf(own, own[r]))
  BY <1>1, NewDataMarked
<1>4. PutEntry(own[r], NewData(r)) /\ pc' = [pc EXCEPT ![r] = "next"]
  BY <1>2 DEF WriteEntry, Continue, Goto
<1>5. "next" \in AfterName \ {"write"}
  BY DEF AfterName
<1> QED BY <1>1, <1>3, <1>4, <1>5, OwnWrite DEF WriteEntry

\* BootNext gets the name of the own entry.
LEMMA ArmingIInv == ASSUME IInv, NEW r \in Runs, SetNext(r) PROVE IInv'
<1>1. pc[r] \in AfterName
  BY DEF SetNext, AfterName
<1>2. own[r] \in Names /\ guid[r] = own[r] /\ name[r] = own[r]
  BY <1>1, OwnKnown
<1>3. PICK l \in AfterName \ {"write"} : pc' = [pc EXCEPT ![r] = l]
  BY DEF SetNext, Continue, Goto, AfterName
<1>4. MovesOn
  BY <1>1, <1>3, Moves
<1>5. StoreKept
  <2>1. bootNext' \in Names /\ UNCHANGED <<bootOrder, entry>>
    BY <1>2 DEF SetNext, PutNext, NextTarget
  <2> QED BY <2>1 DEF IInv, TypeOK, StoreKept
<1>6. UNCHANGED <<arg, guid, order, idx, found, name, data, own>> /\ env' \in 0..EnvBudget
  BY DEF SetNext, IInv, TypeOK
<1> QED BY <1>4, <1>5, <1>6, PlainStep

\* The parsed entry is what the write starts from: it did parse.
LEMMA CheckEntryIInv == ASSUME IInv, NEW r \in Runs, CheckEntry(r) PROVE IInv'
<1>1. CASE Raise(r, 7) \/ Raise(r, 12)
  BY <1>1, FailingStep DEF CheckEntry
<1>2. CASE Fail(r, Refused(Parse(data[r])), <<GuidOf(r), NameOf(r)>>)
  BY <1>2, FailingStep DEF CheckEntry
<1>3. CASE Refused(Parse(data[r])) = 0 /\ Continue(r, "write")
  <2>1. Parse(data[r]) # Unparsed
    BY <1>3 DEF Refused
  <2>2. pc[r] \in AfterName
    BY DEF CheckEntry, AfterName
  <2>3. pc' = [pc EXCEPT ![r] = "write"]
    BY <1>3 DEF Continue, Goto
  <2> QED BY <2>1, <2>2, <2>3, QuietStep DEF CheckEntry
<1> QED BY <1>1, <1>2, <1>3 DEF CheckEntry
-----------------------------------------------------------------------------
\* The steps up to the name.  They leave the store, what was read of it and
\* what is known of the own entry as they are, up to the variables of one run.
LEMMA ReadOrderIInv == ASSUME IInv, NEW r \in Runs, ReadOrder(r) PROVE IInv'
<1>1. /\ pc[r] = "order" /\ pc' = [pc EXCEPT ![r] = "scan"]
      /\ order' = [order EXCEPT ![r] = bootOrder] /\ bootOrder # NoVar
      /\ UNCHANGED <<bootOrder, bootNext, entry, arg, guid, idx, found, name, data, own, env>>
  BY DEF ReadOrder, ListToScan, Continue, Goto, store
<1>2. bootOrder \in Seq(Names)
  BY <1>1 DEF IInv, TypeOK
<1>3. TypeOK'
  <2>1. pc' \in [Runs -> Steps \cup Ended] /\ order' \in [Runs -> Seq(Names)]
    BY <1>1, <1>2 DEF IInv, TypeOK, Steps
  <2>2. ASSUME NEW q \in Runs PROVE idx[q] \in 1..(Len(order'[q]) + 1)
    <3>1. CASE q = r
      <4>1. idx[r] = 1 /\ Len(order'[r]) \in Nat
        BY <1>1, <2>1 DEF IInv, Progress
      <4> QED BY <3>1, <4>1
    <3>2. CASE q # r
      BY <1>1, <3>2 DEF IInv, TypeOK
    <3> QED BY <3>1, <3>2
  <2> QED BY <1>1, <2>1, <2>2 DEF IInv, TypeOK
<1>4. /\ EntriesMarked' /\ OwnExists' /\ OwnDistinct' /\ GuidIsOwn' /\ DataMarked'
      /\ FoundIsOwn' /\ NameIsOwn'
  BY <1>1 DEF IInv, EntriesMarked, OwnExists, OwnDistinct, GuidIsOwn, DataMarked,
              FoundIsOwn, NameIsOwn, Exists
<1>5. Progress'
  <2>1. guid[r] # None
    BY <1>1 DEF IInv, Progress, AfterGuid
  <2> QED BY <1>1, <2>1 DEF IInv, TypeOK, Progress, AfterName, AfterGuid
<1> QED BY <1>3, <1>4, <1>5 DEF IInv

\* The scan finds nothing but the own entry: an entry that holds the temporary
\* description of the run is the one the run owns.
LEMMA FoundMeansOwn ==
  ASSUME IInv, NEW r \in Runs, NEW n \in Names, Exists(n), Matches(entry[n], r)
  PROVE  n = own[r]
<1>1. PICK i \in 1..Len(entry[n]) : entry[n][i] = Description(r)
  BY DEF Matches, HasTemporary, TmpDescription
<1>2. entry[n] \in Seq(CellsOf(own, n))
  BY DEF IInv, EntriesMarked
<1>3. entry[n][i] \in CellsOf(own, n)
  BY <1>1, <1>2, ElementOfSeq
<1> QED BY <1>1, <1>3 DEF CellsOf

\* One round of the scan.
LEMMA ScanNameIInv == ASSUME IInv, NEW r \in Runs, ScanName(r) PROVE IInv'
<1> DEFINE n == order[r][idx[r]]
<1>1. /\ pc[r] = "scan" /\ idx[r] <= Len(order[r]) /\ Exists(n)
      /\ found' = [found EXCEPT ![r] = IF Matches(entry[n], r) THEN Append(@, n) ELSE @]
      /\ idx' = [idx EXCEPT ![r] = @ + 1]
      /\ UNCHANGED <<bootOrder, bootNext, entry, pc, arg, guid, order, name, data, own, env>>
  BY DEF ScanName, Scanning, store
<1>2. order[r] \in Seq(Names) /\ found[r] \in Seq(Names) /\ idx[r] \in 1..(Len(order[r]) + 1)
  BY DEF IInv, TypeOK
<1>3. idx[r] \in 1..Len(order[r])
  BY <1>1, <1>2
<1>4. n \in Names
  BY <1>2, <1>3, ElementOfSeq
<1> HIDE DEF n
<1>5. Matches(entry[n], r) => n = own[r]
  BY <1>1, <1>4, FoundMeansOwn
<1>6. TypeOK'
  <2>1. found' \in [Runs -> Seq(Names)]
    <3>1. Append(found[r], n) \in Seq(Names)
      BY <1>2, <1>4
    <3> QED BY <1>1, <3>1 DEF IInv, TypeOK
  <2>2. ASSUME NEW q \in Runs PROVE idx'[q] \in 1..(Len(order[q]) + 1)
    <3>1. idx[q] \in 1..(Len(order[q]) + 1) /\ Len(order[q]) \in Nat
      BY DEF IInv, TypeOK
    <3>2. CASE q = r
      <4>1. idx'[q] = idx[r] + 1
        BY <1>1, <3>2 DEF IInv, TypeOK
      <4> QED BY <1>3, <3>2, <3>1, <4>1
    <3>3. CASE q # r
      <4>1. idx'[q] = idx[q]
        BY <1>1, <3>3 DEF IInv, TypeOK
      <4> QED BY <3>1, <4>1
    <3> QED BY <3>2, <3>3
  <2>3. idx' \in [Runs -> Nat]
    <3>1. idx[r] + 1 \in Nat
      BY <1>3
    <3> QED BY <1>1, <3>1 DEF IInv, TypeOK
  <2> QED BY <1>1, <2>1, <2>2, <2>3 DEF IInv, TypeOK
<1>7. FoundIsOwn'
  <2> SUFFICES ASSUME NEW q \in Runs, NEW i \in 1..Len(found'[q])
               PROVE  found'[q][i] = own[q]
    BY <1>1 DEF FoundIsOwn
  <2>1. CASE found'[q] = found[q]
    BY <2>1 DEF IInv, FoundIsOwn
  <2>2. CASE q = r /\ Matches(entry[n], r)
    <3>1. found'[q] = Append(found[r], n)
      BY <1>1, <2>2 DEF IInv, TypeOK
    <3>2. CASE i \in 1..Len(found[r])
      <4>1. found'[q][i] = found[r][i]
        BY <1>2, <3>1, <3>2
      <4> QED BY <2>2, <3>2, <4>1 DEF IInv, FoundIsOwn
    <3>3. CASE i \notin 1..Len(found[r])
      <4>1. found'[q][i] = n
        BY <1>2, <3>1, <3>3
      <4> QED BY <1>5, <2>2, <4>1
    <3> QED BY <3>2, <3>3
  <2> QED BY <1>1, <2>1, <2>2 DEF IInv, TypeOK
<1>8. /\ EntriesMarked' /\ OwnExists' /\ OwnDistinct' /\ GuidIsOwn' /\ DataMarked'
      /\ NameIsOwn'
  BY <1>1 DEF IInv, EntriesMarked, OwnExists, OwnDistinct, GuidIsOwn, DataMarked,
              NameIsOwn, Exists
<1>9. Progress'
  <2> SUFFICES ASSUME NEW q \in Runs
               PROVE  /\ pc[q] = "copy" => found'[q] = <<>>
                      /\ pc[q] \in {"copy", "order"} => idx'[q] = 1
    BY <1>1 DEF IInv, Progress
  <2>1. CASE q = r
    BY <1>1, <2>1
  <2>2. CASE q # r
    <3>1. found'[q] = found[q]
      BY <1>1, <2>2 DEF IInv, TypeOK
    <3>2. idx'[q] = idx[q]
      BY <1>1, <2>2 DEF IInv, TypeOK
    <3> QED BY <3>1, <3>2 DEF IInv, Progress
  <2> QED BY <2>1, <2>2
<1> QED BY <1>6, <1>7, <1>8, <1>9 DEF IInv

\* The name the scan ends with.
LEMMA ScanEndIInv == ASSUME IInv, NEW r \in Runs, ScanEnd(r) PROVE IInv'
<1>1. CASE Fail(r, 3, <<GuidOf(r), <<"tmp", r>>>>) /\ UNCHANGED name
  BY <1>1, FailingStep DEF ScanEnd
<1>2. CASE /\ FoundOne(found[r])
           /\ name' = [name EXCEPT ![r] = found[r][1]]
           /\ Continue(r, AfterScan(r))
  <2>1. /\ pc[r] = "scan"
        /\ UNCHANGED <<bootOrder, bootNext, entry, arg, guid, order, idx, found, data, own, env>>
    BY DEF ScanEnd, store
  <2>2. PICK l \in {"setpath", "read"} : pc' = [pc EXCEPT ![r] = l]
    BY <1>2 DEF Continue, Goto, AfterScan
  <2>3. found[r] \in Seq(Names) /\ Len(found[r]) = 1
    BY <1>2 DEF FoundOne, IInv, TypeOK
  <2>4. found[r][1] \in Names /\ found[r][1] = own[r]
    BY <2>3, ElementOfSeq DEF IInv, FoundIsOwn
  <2>5. guid[r] = own[r] /\ guid[r] # None
    BY <2>1 DEF IInv, Progress, AfterGuid, GuidIsOwn
  <2>6. /\ name' \in [Runs -> NamesOrNone]
        /\ \A q \in Runs : name'[q] = IF q = r THEN own[r] ELSE name[q]
    BY <1>2, <2>4 DEF IInv, TypeOK, NamesOrNone
  <2>7. pc' \in [Runs -> Steps \cup Ended]
    BY <2>2 DEF IInv, TypeOK, Steps
  <2>8. TypeOK'
    BY <2>1, <2>6, <2>7 DEF IInv, TypeOK
  <2>9. NameIsOwn'
    BY <2>1, <2>5, <2>6 DEF IInv, NameIsOwn
  <2>10. /\ EntriesMarked' /\ OwnExists' /\ OwnDistinct' /\ GuidIsOwn' /\ DataMarked'
         /\ FoundIsOwn'
    BY <2>1 DEF IInv, EntriesMarked, OwnExists, OwnDistinct, GuidIsOwn, DataMarked,
                FoundIsOwn, Exists
  <2>11. Progress'
    <3> SUFFICES ASSUME NEW q \in Runs
                 PROVE  /\ pc'[q] = "copy" => /\ own[q] = None /\ guid[q] = None
                                              /\ name'[q] = None /\ found[q] = <<>>
                        /\ pc'[q] \in {"copy", "order"} => idx[q] = 1
                        /\ pc'[q] \in AfterGuid => guid[q] # None
                        /\ pc'[q] \in AfterName => name'[q] # None
                        /\ pc'[q] = "write" => Parse(data[q]) # Unparsed
      BY <2>1 DEF Progress
    <3>1. CASE q = r
      <4>1. pc'[q] = l
        BY <2>2, <3>1 DEF IInv, TypeOK
      <4>2. name'[q] # None /\ guid[q] # None
        BY <2>5, <2>6, <3>1
      <4> QED BY <4>1, <4>2
    <3>2. CASE q # r
      <4>1. pc'[q] = pc[q] /\ name'[q] = name[q]
        BY <2>2, <2>6, <3>2 DEF IInv, TypeOK
      <4> QED BY <4>1 DEF IInv, Progress
    <3> QED BY <3>1, <3>2
  <2> QED BY <2>8, <2>9, <2>10, <2>11 DEF IInv
<1> QED BY <1>1, <1>2 DEF ScanEnd

\* What is read of the own entry is what may stand in it.
LEMMA ReadEntryIInv == ASSUME IInv, NEW r \in Runs, ReadEntry(r) PROVE IInv'
<1>1. /\ pc[r] = "read" /\ pc' = [pc EXCEPT ![r] = "parse"] /\ Exists(name[r])
      /\ data' = [data EXCEPT ![r] = entry[name[r]]]
      /\ UNCHANGED <<bootOrder, bootNext, entry, arg, guid, order, idx, found, name, own, env>>
  BY DEF ReadEntry, Continue, Goto, store
<1>2. own[r] \in Names /\ guid[r] = own[r] /\ name[r] = own[r] /\ pc[r] \in AfterName
  BY <1>1, OwnKnown DEF AfterName
<1>3. entry[own[r]] \in Seq(CellsOf(own, own[r]))
  BY <1>1, <1>2 DEF IInv, EntriesMarked
<1>4. TypeOK'
  BY <1>1 DEF IInv, TypeOK, Steps
<1>5. DataMarked'
  BY <1>1, <1>2, <1>3, SentinelAssumption DEF IInv, DataMarked
<1>6. /\ EntriesMarked' /\ OwnExists' /\ OwnDistinct' /\ GuidIsOwn'
      /\ FoundIsOwn' /\ NameIsOwn'
  BY <1>1 DEF IInv, EntriesMarked, OwnExists, OwnDistinct, GuidIsOwn,
              FoundIsOwn, NameIsOwn, Exists
<1>7. Progress'
  <2> SUFFICES ASSUME NEW q \in Runs
               PROVE  /\ pc'[q] = "copy" => /\ own[q] = None /\ guid[q] = None
                                            /\ name[q] = None /\ found[q] = <<>>
                      /\ pc'[q] \in {"copy", "order"} => idx[q] = 1
                      /\ pc'[q] \in AfterGuid => guid[q] # None
                      /\ pc'[q] \in AfterName => name[q] # None
                      /\ pc'[q] = "write" => Parse(data'[q]) # Unparsed
    BY <1>1 DEF Progress
  <2>1. CASE q = r
    <3>1. pc'[q] = "parse" /\ guid[q] # None /\ name[q] # None
      BY <1>1, <1>2, <2>1 DEF IInv, TypeOK, Progress, AfterGuid
    <3> QED BY <3>1
  <2>2. CASE q # r
    <3>1. pc'[q] = pc[q] /\ data'[q] = data[q]
      BY <1>1, <2>2 DEF IInv, TypeOK
    <3> QED BY <3>1 DEF IInv, Progress
  <2> QED BY <2>1, <2>2
<1> QED BY <1>4, <1>5, <1>6, <1>7 DEF IInv
-----------------------------------------------------------------------------
\* The copy: a free name becomes the run's own, and the token enters the store.
LEMMA MarksGrow ==
  ASSUME IInv, NEW r \in Runs, own[r] = None, NEW n \in Names,
         own' = [own EXCEPT ![r] = n], NEW m \in NamesOrNone, m # None
  PROVE  CellsOf(own, m) \subseteq CellsOf(own', m)
<1> SUFFICES ASSUME NEW c \in CellsOf(own, m), NEW q \in Runs, c = Description(q)
             PROVE  own'[q] = m
  BY DEF CellsOf
<1>1. own[q] = m
  BY DEF CellsOf
<1>2. q # r
  BY <1>1
<1> QED BY <1>1, <1>2 DEF IInv, TypeOK

\* What bcdedit copies may stand in the entry of the run.
LEMMA CopyIsMarked ==
  ASSUME NEW r \in Runs, NEW o, NEW n, o[r] = n, NEW fpl \in Templates
  PROVE  <<Attributes, LengthCell(Len(fpl)), Description(TmpDescription(r))>>
            \o fpl \o WinOptData \in Seq(CellsOf(o, n))
<1> DEFINE S == CellsOf(o, n)
<1>1. Description(r) \in S
  <2>1. Description(r) \in Cells
    BY CellIsCell DEF Description, NodeKinds, Known
  <2>2. ASSUME NEW q \in Runs, Description(r) = Description(q) PROVE q = r
    <3>1. Description(r).val = r /\ Description(q).val = q
      BY DEF Description, Cell
    <3> QED BY <3>1, <2>2
  <2> QED BY <2>1, <2>2 DEF CellsOf
<1>2. fpl \in Seq(NodeCells) /\ WinOptData \in Seq(OptCells)
  BY BcdAssumption
<1>3. Attributes \in S /\ LengthCell(Len(fpl)) \in S
  BY <1>2, FixedCellsArePlain, LengthsArePlain
<1>4. NodeCells \subseteq S /\ OptCells \subseteq S
  BY OptCellsArePlain
<1> HIDE DEF S
<1>5. <<Attributes, LengthCell(Len(fpl)), Description(TmpDescription(r))>> \in Seq(S)
  BY <1>1, <1>3, ShortSeqs DEF TmpDescription
<1>6. fpl \in Seq(S) /\ WinOptData \in Seq(S)
  BY <1>2, <1>4
<1>7. <<Attributes, LengthCell(Len(fpl)), Description(TmpDescription(r))>> \o fpl
        \o WinOptData \in Seq(S)
  BY <1>5, <1>6
<1> QED BY <1>7 DEF S

\* The copy, with or without its GUID.
LEMMA CopyEntryIInv == ASSUME IInv, NEW r \in Runs, CopyEntry(r) PROVE IInv'
<1>1. PICK n \in Names, fpl \in Templates, listed \in BOOLEAN :
        /\ FreeName(n)
        /\ BcdCopy(n, TmpDescription(r), fpl, WinOptData, listed)
        /\ own' = [own EXCEPT ![r] = n]
        /\ \/ guid' = [guid EXCEPT ![r] = n] /\ Continue(r, "order")
           \/ UNCHANGED guid /\ (Fail(r, 1, <<>>) \/ Raise(r, 1))
  BY DEF CopyEntry
<1>2. /\ pc[r] = "copy"
      /\ UNCHANGED <<arg, order, idx, found, name, data, env>>
  BY DEF CopyEntry
<1>3. own[r] = None /\ guid[r] = None /\ name[r] = None /\ found[r] = <<>> /\ idx[r] = 1
  BY <1>2 DEF IInv, Progress
<1>4. n # None /\ \A q \in Runs : own[q] # n
  BY <1>1, SentinelAssumption DEF IInv, OwnExists, FreeName
<1>5. \A q \in Runs : own'[q] = IF q = r THEN n ELSE own[q]
  BY <1>1 DEF IInv, TypeOK
<1>6. PICK l \in {"order"} \cup Ended :
        /\ pc' = [pc EXCEPT ![r] = l]
        /\ (l = "order" /\ guid' = [guid EXCEPT ![r] = n]) \/ (l # "order" /\ guid' = guid)
  <2>1. CASE guid' = [guid EXCEPT ![r] = n] /\ Continue(r, "order")
    BY <2>1 DEF Continue, Goto
  <2>2. CASE UNCHANGED guid /\ Fail(r, 1, <<>>)
    BY <2>2, FailEnds DEF Ended
  <2>3. CASE UNCHANGED guid /\ Raise(r, 1)
    BY <2>3 DEF Raise, Goto, Ended
  <2> QED BY <1>1, <2>1, <2>2, <2>3
<1>7. \A q \in Runs : pc'[q] = IF q = r THEN l ELSE pc[q]
  BY <1>6 DEF IInv, TypeOK
<1>8. \A q \in Runs : guid'[q] = guid[q] \/ (q = r /\ guid'[q] = n)
  BY <1>6 DEF IInv, TypeOK
<1> DEFINE copied == <<Attributes, LengthCell(Len(fpl)), Description(TmpDescription(r))>>
                        \o fpl \o WinOptData
<1>9. copied \in Seq(CellsOf(own', n))
  BY <1>5, CopyIsMarked
<1>10. entry' = [entry EXCEPT ![n] = copied]
  BY <1>1 DEF BcdCopy
<1> HIDE DEF copied
<1>11. \A m \in Names : entry'[m] = IF m = n THEN copied ELSE entry[m]
  BY <1>10 DEF IInv, TypeOK
<1>12. copied # NoVar
  BY <1>9, SentinelAssumption DEF CellsOf
<1>13. TypeOK'
  <2>1. bootOrder' = NoVar \/ bootOrder' \in Seq(Names) \ {<<>>}
    <3>1. CASE bootOrder = NoVar
      BY <1>1, <3>1 DEF BcdCopy
    <3>2. CASE bootOrder \in Seq(Names) \ {<<>>}
      <4>1. Append(bootOrder, n) \in Seq(Names) \ {<<>>}
        <5>1. Append(bootOrder, n) \in Seq(Names) /\ Len(Append(bootOrder, n)) = Len(bootOrder) + 1
          BY <3>2
        <5>2. Len(bootOrder) \in Nat /\ Len(<<>>) = 0
          BY <3>2
        <5> QED BY <5>1, <5>2
      <4> QED BY <1>1, <3>2, <4>1 DEF BcdCopy
    <3> QED BY <3>1, <3>2 DEF IInv, TypeOK
  <2>2. bootNext' = bootNext
    BY <1>1 DEF BcdCopy
  <2>3. DOMAIN entry' = Names
    BY <1>10 DEF IInv, TypeOK
  <2>4. pc' \in [Runs -> Steps \cup Ended]
    BY <1>6 DEF IInv, TypeOK, Steps
  <2>5. guid' \in [Runs -> NamesOrNone] /\ own' \in [Runs -> NamesOrNone]
    <3>1. n \in NamesOrNone
      BY DEF NamesOrNone
    <3>2. guid \in [Runs -> NamesOrNone] /\ own \in [Runs -> NamesOrNone]
      BY DEF IInv, TypeOK
    <3>3. guid' = guid \/ guid' = [guid EXCEPT ![r] = n]
      BY <1>6
    <3> QED BY <1>1, <3>1, <3>2, <3>3
  <2>6. /\ bootNext' \in Names \cup {NoVar} /\ arg' \in [Runs -> Requests]
        /\ name' \in [Runs -> NamesOrNone] /\ order' \in [Runs -> Seq(Names)]
        /\ found' \in [Runs -> Seq(Names)] /\ env' \in 0..EnvBudget
        /\ DOMAIN data' = Runs
    BY <1>2, <2>2 DEF IInv, TypeOK
  <2>7. /\ idx' \in [Runs -> Nat]
        /\ \A q \in Runs : idx'[q] \in 1..(Len(order'[q]) + 1)
    BY <1>2 DEF IInv, TypeOK
  <2> QED BY <2>1, <2>3, <2>4, <2>5, <2>6, <2>7 DEF TypeOK
<1>14. EntriesMarked'
  <2> SUFFICES ASSUME NEW m \in Names, entry'[m] # NoVar
               PROVE  entry'[m] \in Seq(CellsOf(own', m))
    BY DEF EntriesMarked, Exists
  <2>1. CASE m = n
    BY <1>9, <1>11, <2>1
  <2>2. CASE m # n
    <3>1. entry[m] \in Seq(CellsOf(own, m))
      BY <1>11, <2>2 DEF IInv, EntriesMarked, Exists
    <3>2. CellsOf(own, m) \subseteq CellsOf(own', m)
      BY <1>1, <1>3, MarksGrow, SentinelAssumption DEF NamesOrNone
    <3> QED BY <1>11, <2>2, <3>1, <3>2
  <2> QED BY <2>1, <2>2
<1>15. DataMarked'
  <2> SUFFICES ASSUME NEW q \in Runs
               PROVE  /\ data[q] \in Seq(CellsOf(own', own'[q]))
                      /\ own'[q] = None => data[q] = <<>>
    BY <1>2 DEF DataMarked
  <2>1. CASE own[q] = None
    <3>1. data[q] = <<>>
      BY <2>1 DEF IInv, DataMarked
    <3> QED BY <3>1, ShortSeqs
  <2>2. CASE own[q] # None
    <3>1. own'[q] = own[q] /\ own[q] \in NamesOrNone
      BY <1>3, <1>5, <2>2 DEF IInv, TypeOK
    <3>2. CellsOf(own, own[q]) \subseteq CellsOf(own', own[q])
      BY <1>1, <1>3, <2>2, <3>1, MarksGrow
    <3>3. data[q] \in Seq(CellsOf(own, own[q]))
      BY DEF IInv, DataMarked
    <3> QED BY <2>2, <3>1, <3>2, <3>3
  <2> QED BY <2>1, <2>2
<1>16. OwnExists' /\ OwnDistinct'
  <2>1. OwnExists'
    <3> SUFFICES ASSUME NEW q \in Runs, own'[q] # None PROVE entry'[own'[q]] # NoVar
      BY DEF OwnExists, Exists
    <3>1. CASE own'[q] = n
      BY <1>11, <1>12, <3>1
    <3>2. CASE own'[q] # n
      <4>1. own'[q] = own[q] /\ own[q] \in Names /\ entry[own[q]] # NoVar
        BY <1>5, <3>2 DEF IInv, TypeOK, OwnExists, Exists, NamesOrNone
      <4> QED BY <1>11, <3>2, <4>1
    <3> QED BY <3>1, <3>2
  <2>2. OwnDistinct'
    BY <1>4, <1>5 DEF IInv, OwnDistinct
  <2> QED BY <2>1, <2>2
<1>17. GuidIsOwn' /\ FoundIsOwn' /\ NameIsOwn'
  <2>1. GuidIsOwn'
    BY <1>3, <1>5, <1>8 DEF IInv, GuidIsOwn
  <2>2. FoundIsOwn'
    <3>1. Len(<<>>) = 0
      OBVIOUS
    <3> QED BY <1>2, <1>3, <1>5, <3>1 DEF IInv, FoundIsOwn
  <2>3. NameIsOwn'
    BY <1>2, <1>3, <1>5, <1>8 DEF IInv, NameIsOwn
  <2> QED BY <2>1, <2>2, <2>3
<1>18. Progress'
  <2> SUFFICES ASSUME NEW q \in Runs
               PROVE  /\ pc'[q] = "copy" => /\ own'[q] = None /\ guid'[q] = None
                                            /\ name[q] = None /\ found[q] = <<>>
                      /\ pc'[q] \in {"copy", "order"} => idx[q] = 1
                      /\ pc'[q] \in AfterGuid => guid'[q] # None
                      /\ pc'[q] \in AfterName => name[q] # None
                      /\ pc'[q] = "write" => Parse(data[q]) # Unparsed
    BY <1>2 DEF Progress
  <2>1. CASE q = r
    <3>1. CASE l = "order"
      <4>1. pc'[q] = "order" /\ guid'[q] = n
        BY <1>6, <1>7, <2>1, <3>1 DEF IInv, TypeOK
      <4> QED BY <1>3, <1>4, <2>1, <4>1 DEF AfterName
    <3>2. CASE l \in Ended
      BY <1>7, <2>1, <3>2 DEF Ended, AfterGuid, AfterName
    <3> QED BY <3>1, <3>2
  <2>2. CASE q # r
    <3>1. pc'[q] = pc[q] /\ own'[q] = own[q] /\ guid'[q] = guid[q]
      BY <1>5, <1>7, <1>8, <2>2
    <3> QED BY <3>1 DEF IInv, Progress
  <2> QED BY <2>1, <2>2
<1> QED BY <1>13, <1>14, <1>15, <1>16, <1>17, <1>18 DEF IInv
-----------------------------------------------------------------------------
\* One step of one run.
LEMMA StepIInv == ASSUME IInv, NEW r \in Runs, Step(r) PROVE IInv'
<1>1. CASE \/ CopyFails(r) \/ ReadOrderFails(r) \/ ScanRaises(r) \/ ReadEntryRaises(r)
           \/ AddFirstRaises(r) \/ Finish(r)
  BY <1>1, OneRunEnds
<1>2. CASE \/ WriteEntryFails(r) \/ SkipNext(r) \/ SetNextFails(r)
           \/ SkipFirst(r)
  BY <1>2, OneRunGoesOn
<1>3. CASE SetNext(r)
  BY <1>3, ArmingIInv
<1>4. CASE CopyEntry(r)
  BY <1>4, CopyEntryIInv
<1>5. CASE ReadOrder(r)
  BY <1>5, ReadOrderIInv
<1>6. CASE ScanName(r)
  BY <1>6, ScanNameIInv
<1>7. CASE ScanEnd(r)
  BY <1>7, ScanEndIInv
<1>8. CASE SetPath(r)
  BY <1>8, SetPathIInv
<1>9. CASE SetDescription(r)
  BY <1>9, SetDescriptionIInv
<1>10. CASE ReadEntry(r)
  BY <1>10, ReadEntryIInv
<1>11. CASE CheckEntry(r)
  BY <1>11, CheckEntryIInv
<1>12. CASE WriteEntry(r)
  BY <1>12, WriteEntryIInv
<1> QED BY <1>1, <1>2, <1>3, <1>4, <1>5, <1>6, <1>7, <1>8, <1>9, <1>10, <1>11, <1>12
           DEF Step

\* The inductive invariant: where a temporary description may stand, and what a
\* run knows of its entry, in every reachable state.
THEOREM EntryInvariant == Spec => []IInv
<1>1. ASSUME IInv, [Next]_vars PROVE IInv'
  <2>1. CASE UNCHANGED vars
    <3>1. UNCHANGED <<store, pc, arg, guid, order, idx, found, name, data, own, env>>
      BY <2>1 DEF vars, local, store
    <3>2. MovesOn /\ env' \in 0..EnvBudget
      BY <1>1, <3>1 DEF IInv, TypeOK, MovesOn
    <3> QED BY <1>1, <3>1, <3>2, SameStore, PlainStep
  <2>2. ASSUME NEW r \in Runs, Step(r) \/ Kill(r) PROVE IInv'
    BY <1>1, <2>2, StepIInv, OneRunEnds
  <2>3. CASE DeleteForeign \/ Reorder
    BY <1>1, <2>3, OthersIInv
  <2> QED BY <1>1, <2>1, <2>2, <2>3 DEF Next
<1> QED BY <1>1, InitIInv, PTL DEF Spec

\* Type correctness, for any runs, names and requests.
THEOREM Typed == Spec => []TypeOK
<1>1. IInv => TypeOK
  BY DEF IInv
<1> QED BY <1>1, EntryInvariant, PTL

\* The variable a run rewrites is the one bcdedit made for it: the scan of step
\* 3 takes no other for it, and finds it under no other name.
THEOREM FindsItsOwn == Spec => []NameIsOwn
<1>1. IInv => NameIsOwn
  BY DEF IInv
<1> QED BY <1>1, EntryInvariant, PTL

\* A step of a run moves only that run on, and changes only its own entry.
LEMMA OwnWritesOnly ==
  ASSUME IInv, NEW r \in Runs, Step(r) \/ Kill(r)
  PROVE  /\ \A q \in Runs : q # r => pc'[q] = pc[q]
         /\ \A n \in Names : entry'[n] # entry[n] => n = own'[r]
<1>1. \A q \in Runs : q # r => pc'[q] = pc[q]
  <2>1. \/ UNCHANGED pc
        \/ \E l : pc' = [pc EXCEPT ![r] = l]
    BY DEF Step, Kill, CopyFails, CopyEntry, ReadOrder, ReadOrderFails, ScanName, ScanRaises,
           ScanEnd, SetPath, SetDescription, ReadEntry, ReadEntryRaises, CheckEntry,
           WriteEntry, WriteEntryFails, SkipNext, SetNext, SetNextFails, SkipFirst,
           AddFirstRaises, Finish, Fail, Raise, Return, Continue,
           Goto, AfterRefusedWrite
  <2> QED BY <2>1 DEF IInv, TypeOK
<1>2. \/ UNCHANGED entry
      \/ CopyEntry(r)
      \/ SetPath(r) \/ SetDescription(r) \/ WriteEntry(r)
  BY DEF Step, Kill, CopyFails, ReadOrder, ReadOrderFails, ScanName, ScanRaises,
         ScanEnd, ReadEntry, ReadEntryRaises, CheckEntry,
         WriteEntryFails, SkipNext, SetNext, SetNextFails, SkipFirst,
         AddFirstRaises, Finish, PutNext, PutOrder, store
<1>3. CASE CopyEntry(r)
  <2>1. PICK n \in Names : own' = [own EXCEPT ![r] = n]
                           /\ \A m \in Names : m # n => entry'[m] = entry[m]
    BY <1>3 DEF CopyEntry, BcdCopy, IInv, TypeOK
  <2>2. own'[r] = n
    BY <2>1 DEF IInv, TypeOK
  <2> QED BY <1>1, <2>1, <2>2
<1>4. CASE SetPath(r) \/ SetDescription(r) \/ WriteEntry(r)
  <2>1. pc[r] \in AfterName /\ own' = own
    BY <1>4 DEF SetPath, SetDescription, WriteEntry, AfterName
  <2>2. guid[r] = own[r] /\ name[r] = own[r]
    BY <2>1, OwnKnown
  <2>3. \/ UNCHANGED entry
        \/ \E cells : entry' = [entry EXCEPT ![own[r]] = cells]
    BY <1>4, <2>2 DEF SetPath, SetDescription, WriteEntry, PutEntry, store
  <2> QED BY <1>1, <2>1, <2>3 DEF IInv, TypeOK
<1> QED BY <1>1, <1>2, <1>3, <1>4

\* No step of a run touches an entry of Windows, of another program or of
\* another run.
THEOREM TouchesItsOwn == Spec => OthersUntouched
<1>1. ASSUME IInv, [Next]_vars
      PROVE  [\A r \in Runs : pc'[r] # pc[r] =>
                \A n \in Names : entry'[n] # entry[n] => n = own'[r]]_vars
  <2> SUFFICES ASSUME Next, NEW r \in Runs, pc'[r] # pc[r],
                      NEW n \in Names, entry'[n] # entry[n]
               PROVE  n = own'[r]
    BY <1>1
  <2>1. ASSUME NEW q \in Runs, Step(q) \/ Kill(q) PROVE n = own'[r]
    BY <1>1, <2>1, OwnWritesOnly
  <2>2. CASE DeleteForeign \/ Reorder
    BY <2>2 DEF DeleteForeign, Reorder
  <2> QED BY <2>1, <2>2 DEF Next
<1> QED BY <1>1, EntryInvariant, PTL DEF Spec, OthersUntouched
-----------------------------------------------------------------------------
(***************************************************************************)
(* The entry of a successful call is listed.  The scan finds only what was *)
(* listed when BootOrder was read, and that is listed still: copies are    *)
(* appended, other programs move entries or delete those of nobody, and no *)
(* run takes a name out.                                                   *)
(***************************************************************************)
In(n, s) == \E i \in 1..Len(s) : s[i] = n

ListedFor(r) ==
    /\ pc[r] \in {"copy", "order"} => found[r] = <<>>
    /\ pc[r] = "scan" /\ (found[r] # <<>> \/ In(own[r], order[r]))
         => own[r] \in Listed(bootOrder)
    /\ name[r] # None => own[r] \in Listed(bootOrder)

StillListed == \A r \in Runs : ListedFor(r)

\* No call succeeds without the name of its entry.
SuccessIsNamed ==
    /\ DOMAIN outcome = Runs /\ DOMAIN pc = Runs
    /\ \A r \in Runs : Succeeded(r) => name[r] # None

LEMMA ListedMeans ==
  ASSUME NEW s \in Seq(Names), NEW n
  PROVE  n \in Listed(s) <=> In(n, s)
BY SentinelAssumption DEF Listed, In

LEMMA WithoutKeeps ==
  ASSUME NEW s \in Seq(Names), NEW n \in Names, NEW m, m # n, In(m, s)
  PROVE  In(m, Without(s, n))
<1>1. CASE n \notin {s[i] : i \in 1..Len(s)}
  BY <1>1 DEF Without
<1>2. CASE n \in {s[i] : i \in 1..Len(s)}
  <2> DEFINE k == CHOOSE i \in 1..Len(s) : s[i] = n
  <2>1. k \in 1..Len(s) /\ s[k] = n
    BY <1>2
  <2>2. Without(s, n) = SubSeq(s, 1, k - 1) \o SubSeq(s, k + 1, Len(s))
    BY <1>2 DEF Without
  <2> HIDE DEF k
  <2> DEFINE a == SubSeq(s, 1, k - 1)
             b == SubSeq(s, k + 1, Len(s))
  <2>3. /\ a \in Seq(Names) /\ Len(a) = k - 1 /\ \A i \in 1..(k - 1) : a[i] = s[i]
        /\ b \in Seq(Names) /\ Len(b) = Len(s) - k
        /\ \A i \in 1..(Len(s) - k) : b[i] = s[k + i]
    BY <2>1
  <2> HIDE DEF a, b
  <2>4. Len(a \o b) = Len(a) + Len(b) /\ Len(a) \in Nat /\ Len(b) \in Nat
    BY <2>3
  <2>5. PICK j \in 1..Len(s) : s[j] = m
    BY DEF In
  <2>6. CASE j < k
    <3>1. j \in 1..Len(a) /\ j \in 1..(Len(a) + Len(b)) /\ a[j] = m
      BY <2>1, <2>3, <2>4, <2>5, <2>6
    <3>2. (a \o b)[j] = m
      BY <2>3, <3>1
    <3> QED BY <2>2, <2>4, <3>1, <3>2 DEF In, a, b
  <2>7. CASE j > k
    <3>1. /\ j - k \in 1..Len(b) /\ b[j - k] = m
          /\ (j - 1) \in 1..(Len(a) + Len(b)) /\ j - 1 > Len(a) /\ (j - 1) - Len(a) = j - k
      <4>1. j - k \in 1..(Len(s) - k) /\ k + (j - k) = j
        BY <2>1, <2>7
      <4> QED BY <4>1, <2>1, <2>3, <2>5, <2>7
    <3>2. (a \o b)[j - 1] = m
      <4>1. (a \o b)[j - 1] = b[(j - 1) - Len(a)]
        BY <2>3, <3>1
      <4> QED BY <3>1, <4>1
    <3> QED BY <2>2, <2>4, <3>1, <3>2 DEF In, a, b
  <2> QED BY <2>1, <2>5, <2>6, <2>7
<1> QED BY <1>1, <1>2

LEMMA FrontKeeps ==
  ASSUME NEW w \in Seq(Names), NEW n \in Names, NEW m, m = n \/ In(m, w)
  PROVE  In(m, <<n>> \o w) /\ <<n>> \o w \in Seq(Names)
<1>1. /\ Len(<<n>> \o w) = Len(w) + 1 /\ Len(w) \in Nat /\ (<<n>> \o w)[1] = n
      /\ \A i \in 1..Len(w) : (<<n>> \o w)[i + 1] = w[i]
      /\ <<n>> \o w \in Seq(Names)
  OBVIOUS
<1> DEFINE f == <<n>> \o w
<1>2. /\ Len(f) = Len(w) + 1 /\ Len(w) \in Nat /\ f[1] = n
      /\ \A i \in 1..Len(w) : f[i + 1] = w[i]
  BY <1>1
<1> HIDE DEF f
<1>3. In(m, f)
  <2>1. 1 \in 1..Len(f) /\ \A i \in 1..Len(w) : i + 1 \in 1..Len(f)
    BY <1>2
  <2>2. CASE m = n
    BY <1>2, <2>1, <2>2 DEF In
  <2>3. CASE In(m, w)
    <3>1. PICK i \in 1..Len(w) : w[i] = m
      BY <2>3 DEF In
    <3>2. i + 1 \in 1..Len(f) /\ f[i + 1] = m
      BY <1>2, <2>1, <3>1
    <3> QED BY <3>2 DEF In
  <2> QED BY <2>2, <2>3
<1> QED BY <1>1, <1>3 DEF f

\* What was listed is listed, whoever moves or deletes other entries.
LEMMA OthersKeepListed ==
  ASSUME IInv, DeleteForeign \/ Reorder, NEW r \in Runs, own[r] \in Listed(bootOrder)
  PROVE  own[r] \in Listed(bootOrder')
<1>1. bootOrder \in Seq(Names)
  BY DEF IInv, TypeOK, Listed
<1>2. In(own[r], bootOrder)
  BY <1>1, ListedMeans
<1>3. CASE DeleteForeign
  <2>1. PICK n \in Names : own[r] # n /\ (bootOrder' = bootOrder \/ bootOrder' = Without(bootOrder, n))
    BY <1>3 DEF DeleteForeign, NotOurs
  <2>2. In(own[r], Without(bootOrder, n)) /\ Without(bootOrder, n) \in Seq(Names)
    BY <1>1, <1>2, <2>1, WithoutKeeps, WithoutIsOrder
  <2>3. own[r] \in Listed(Without(bootOrder, n))
    BY <2>2, ListedMeans
  <2> QED BY <2>1, <2>3
<1>4. CASE Reorder
  <2>1. PICK n \in Listed(bootOrder) : bootOrder' = <<n>> \o Without(bootOrder, n)
    BY <1>4 DEF Reorder
  <2>2. n \in Names
    BY <1>1 DEF Listed
  <2>3. Without(bootOrder, n) \in Seq(Names)
    BY <1>1, <2>2, WithoutIsOrder
  <2>4. own[r] = n \/ In(own[r], Without(bootOrder, n))
    BY <1>1, <1>2, <2>2, WithoutKeeps
  <2>5. In(own[r], <<n>> \o Without(bootOrder, n)) /\ <<n>> \o Without(bootOrder, n) \in Seq(Names)
    BY <2>2, <2>3, <2>4, FrontKeeps
  <2> QED BY <2>1, <2>5, ListedMeans
<1> QED BY <1>3, <1>4

\* A run takes no name out of BootOrder either.
LEMMA RunsKeepListed ==
  ASSUME IInv, NEW r \in Runs, Step(r) \/ Kill(r), NEW m \in Listed(bootOrder)
  PROVE  m \in Listed(bootOrder')
<1>1. CASE CopyEntry(r)
  <2>1. bootOrder \in Seq(Names) /\ bootOrder # NoVar /\ In(m, bootOrder)
    BY ListedMeans DEF IInv, TypeOK, Listed
  <2>2. PICK n \in Names : bootOrder' = bootOrder \/ bootOrder' = Append(bootOrder, n)
    BY <1>1, <2>1 DEF CopyEntry, BcdCopy
  <2>3. /\ Append(bootOrder, n) \in Seq(Names)
        /\ Len(Append(bootOrder, n)) = Len(bootOrder) + 1 /\ Len(bootOrder) \in Nat
        /\ \A i \in 1..Len(bootOrder) : Append(bootOrder, n)[i] = bootOrder[i]
    BY <2>1
  <2>4. In(m, Append(bootOrder, n))
    BY <2>1, <2>3 DEF In
  <2> QED BY <2>2, <2>3, <2>4, ListedMeans
<1>2. CASE ~CopyEntry(r)
  <2>1. UNCHANGED bootOrder
    BY <1>2 DEF Step, Kill, CopyFails, ReadOrder, ReadOrderFails, ScanName, ScanRaises, ScanEnd,
           SetPath, SetDescription, ReadEntry, ReadEntryRaises, CheckEntry, WriteEntry,
           WriteEntryFails, SkipNext, SetNext, SetNextFails, SkipFirst, AddFirstRaises,
           Finish, local, store, PutEntry, PutNext
  <2> QED BY <2>1
<1> QED BY <1>1, <1>2

\* ... and leaves the others' progress alone.
LEMMA OthersStayPut ==
  ASSUME IInv, NEW r \in Runs, Step(r) \/ Kill(r), NEW q \in Runs, q # r
  PROVE  /\ pc'[q] = pc[q] /\ found'[q] = found[q] /\ order'[q] = order[q]
         /\ name'[q] = name[q] /\ own'[q] = own[q]
<1>0. /\ DOMAIN pc = Runs /\ DOMAIN found = Runs /\ DOMAIN order = Runs
      /\ DOMAIN name = Runs /\ DOMAIN own = Runs
  BY DEF IInv, TypeOK
<1>1. pc'[q] = pc[q]
  BY <1>0 DEF Step, Kill, CopyFails, CopyEntry, ReadOrder, ReadOrderFails, ScanName, ScanRaises,
         ScanEnd, SetPath, SetDescription, ReadEntry, ReadEntryRaises, CheckEntry,
         WriteEntry, WriteEntryFails, SkipNext, SetNext, SetNextFails, SkipFirst,
         AddFirstRaises, Finish, Fail, Raise, Return, Continue, Goto, AfterRefusedWrite
<1>2. found'[q] = found[q] /\ order'[q] = order[q]
  BY <1>0 DEF Step, Kill, CopyFails, CopyEntry, ReadOrder, ReadOrderFails, ScanName, ScanRaises,
         ScanEnd, SetPath, SetDescription, ReadEntry, ReadEntryRaises, CheckEntry,
         WriteEntry, WriteEntryFails, SkipNext, SetNext, SetNextFails, SkipFirst,
         AddFirstRaises, Finish, local
<1>3. name'[q] = name[q] /\ own'[q] = own[q]
  BY <1>0 DEF Step, Kill, CopyFails, CopyEntry, ReadOrder, ReadOrderFails, ScanName, ScanRaises,
         ScanEnd, SetPath, SetDescription, ReadEntry, ReadEntryRaises, CheckEntry,
         WriteEntry, WriteEntryFails, SkipNext, SetNext, SetNextFails, SkipFirst,
         AddFirstRaises, Finish, local
<1> QED BY <1>1, <1>2, <1>3

\* The steps that neither read a list nor name the entry.
LEMMA RestKeepsListed ==
  ASSUME IInv, NEW r \in Runs, ListedFor(r),
         UNCHANGED <<bootOrder, own, order, found, name>>,
         pc'[r] = pc[r] \/ pc'[r] \notin {"copy", "order", "scan"}
  PROVE  ListedFor(r)'
BY DEF ListedFor

LEMMA RunKeepsListed ==
  ASSUME IInv, IInv', NEW r \in Runs, ListedFor(r), Step(r) \/ Kill(r)
  PROVE  ListedFor(r)'
<1>0. /\ DOMAIN pc = Runs /\ DOMAIN found = Runs /\ DOMAIN order = Runs
      /\ DOMAIN name = Runs /\ own \in [Runs -> NamesOrNone]
  BY DEF IInv, TypeOK
<1>1. CASE CopyEntry(r)
  <2>1. /\ found' = found /\ name' = name
        /\ pc[r] = "copy"
        /\ pc'[r] # "scan" /\ pc'[r] # "copy"
    BY <1>0, <1>1 DEF CopyEntry, Continue, Fail, Raise, Return, Goto
  <2>2. found[r] = <<>> /\ name[r] = None
    BY <2>1 DEF IInv, Progress
  <2> QED BY <2>1, <2>2 DEF ListedFor
<1>2. CASE ReadOrder(r)
  <2>1. /\ found[r] = <<>> /\ UNCHANGED <<bootOrder, own, found, name>>
        /\ order'[r] = bootOrder /\ pc'[r] = "scan" /\ bootOrder # NoVar
    BY <1>0, <1>2 DEF ReadOrder, ListToScan, ListedFor, Continue, Goto, store
  <2>2. bootOrder \in Seq(Names)
    BY <2>1 DEF IInv, TypeOK
  <2>3. In(own[r], bootOrder) => own[r] \in Listed(bootOrder)
    BY <2>2, ListedMeans
  <2> QED BY <2>1, <2>3 DEF ListedFor
<1>3. CASE ScanName(r)
  <2>1. /\ UNCHANGED <<bootOrder, own, order, name, pc>> /\ pc[r] = "scan"
        /\ idx[r] <= Len(order[r])
        /\ \/ found'[r] = found[r]
           \/ found'[r] = Append(found[r], order[r][idx[r]])
    BY <1>0, <1>3 DEF ScanName, Scanning, store
  <2>2. /\ found[r] \in Seq(Names) /\ order[r] \in Seq(Names) /\ idx[r] \in 1..Len(order[r])
    BY <2>1 DEF IInv, TypeOK
  <2>3. CASE found'[r] = found[r]
    BY <2>1, <2>3 DEF ListedFor
  <2>4. CASE found'[r] = Append(found[r], order[r][idx[r]])
    <3>1. /\ Len(found'[r]) = Len(found[r]) + 1 /\ Len(found[r]) \in Nat
          /\ found'[r][Len(found[r]) + 1] = order[r][idx[r]]
      BY <2>2, <2>4
    <3>2. found'[r][Len(found[r]) + 1] = own'[r]
      BY <3>1 DEF IInv, FoundIsOwn
    <3>3. In(own[r], order[r])
      BY <2>1, <2>2, <3>1, <3>2 DEF In
    <3>4. own[r] \in Listed(bootOrder)
      BY <2>1, <3>3 DEF ListedFor
    <3> QED BY <2>1, <3>4 DEF ListedFor
  <2> QED BY <2>1, <2>3, <2>4
<1>4. CASE ScanEnd(r)
  <2>1. /\ UNCHANGED <<bootOrder, own, order, found>> /\ pc[r] = "scan"
        /\ \/ UNCHANGED name
           \/ Len(found[r]) = 1
        /\ pc'[r] \notin {"copy", "order", "scan"}
    BY <1>0, <1>4 DEF ScanEnd, FoundOne, Continue, Fail, Raise, Return, Goto, AfterScan, store
  <2>2. CASE UNCHANGED name
    BY <2>1, <2>2, RestKeepsListed
  <2>3. CASE Len(found[r]) = 1
    <3>1. found[r] # <<>>
      BY <2>3
    <3> QED BY <2>1, <3>1 DEF ListedFor
  <2> QED BY <2>1, <2>2, <2>3
<1>5. CASE ~CopyEntry(r) /\ ~ReadOrder(r) /\ ~ScanName(r) /\ ~ScanEnd(r)
  <2>1. UNCHANGED <<bootOrder, own, order, found, name>>
    BY <1>5 DEF Step, Kill, CopyFails, ReadOrderFails, ScanRaises, SetPath, SetDescription,
           ReadEntry, ReadEntryRaises, CheckEntry, WriteEntry, WriteEntryFails, SkipNext,
           SetNext, SetNextFails, SkipFirst, AddFirstRaises, Finish, local,
           store, PutEntry, PutNext
  <2>2. pc'[r] \notin {"copy", "order", "scan"}
    BY <1>0, <1>5 DEF Step, Kill, CopyFails, ReadOrderFails, ScanRaises, SetPath, SetDescription,
           ReadEntry, ReadEntryRaises, CheckEntry, WriteEntry, WriteEntryFails, SkipNext,
           SetNext, SetNextFails, SkipFirst, AddFirstRaises, Finish,
           AfterRefusedWrite, Continue, Fail, Raise, Return, Goto
  <2> QED BY <2>1, <2>2, RestKeepsListed
<1> QED BY <1>1, <1>2, <1>3, <1>4, <1>5

LEMMA StepStaysListed ==
  ASSUME IInv, IInv', StillListed, [Next]_vars
  PROVE  StillListed'
<1>1. ASSUME NEW r \in Runs, Step(r) \/ Kill(r) PROVE StillListed'
  <2>1. ListedFor(r)'
    BY <1>1, RunKeepsListed DEF StillListed
  <2>2. ASSUME NEW q \in Runs, q # r PROVE ListedFor(q)'
    BY <1>1, <2>2, OthersStayPut, RunsKeepListed DEF StillListed, ListedFor
  <2> QED BY <2>1, <2>2 DEF StillListed
<1>2. CASE DeleteForeign \/ Reorder
  <2>1. UNCHANGED <<pc, local, own>>
    BY <1>2 DEF DeleteForeign, Reorder
  <2>2. \A r \in Runs : own[r] \in Listed(bootOrder) => own[r] \in Listed(bootOrder')
    BY <1>2, OthersKeepListed
  <2> QED BY <2>1, <2>2 DEF StillListed, ListedFor, local
<1>3. CASE UNCHANGED vars
  BY <1>3 DEF vars, local, StillListed, ListedFor
<1> QED BY <1>1, <1>2, <1>3 DEF Next

LEMMA InitListed == Init => StillListed /\ SuccessIsNamed
BY DEF Init, StillListed, ListedFor, SuccessIsNamed, Succeeded

LEMMA FailedStep ==
  ASSUME SuccessIsNamed, NEW r \in Runs, NEW step, step # 0, NEW payload, Fail(r, step, payload)
  PROVE  ~(pc'[r] = "returned" /\ outcome'[r].step = 0)
BY DEF Fail, Raise, Return, Goto, SuccessIsNamed

LEMMA StepStaysNamed ==
  ASSUME IInv, IInv', SuccessIsNamed, [Next]_vars
  PROVE  SuccessIsNamed'
<1>0. pc \in [Runs -> Steps \cup Ended] /\ name \in [Runs -> NamesOrNone] /\ DOMAIN pc' = Runs
  BY DEF IInv, TypeOK
<1>1. ASSUME NEW r \in Runs, Step(r) PROVE SuccessIsNamed'
  <2>1. outcome' = outcome \/ \E o : outcome' = [outcome EXCEPT ![r] = o]
    BY <1>1 DEF Step, CopyFails, CopyEntry, ReadOrder, ReadOrderFails, ScanName, ScanRaises,
           ScanEnd, SetPath, SetDescription, ReadEntry, ReadEntryRaises, CheckEntry,
           WriteEntry, WriteEntryFails, SkipNext, SetNext, SetNextFails, SkipFirst,
           AddFirstRaises, Finish, Fail, Raise, Return, Continue,
           AfterRefusedWrite
  <2>2. DOMAIN outcome' = Runs /\ \A q \in Runs : q # r => outcome'[q] = outcome[q]
    BY <2>1 DEF SuccessIsNamed
  <2>3. pc' = pc \/ \E l : pc' = [pc EXCEPT ![r] = l]
    BY <1>1 DEF Step, CopyFails, CopyEntry, ReadOrder, ReadOrderFails, ScanName, ScanRaises,
           ScanEnd, SetPath, SetDescription, ReadEntry, ReadEntryRaises, CheckEntry,
           WriteEntry, WriteEntryFails, SkipNext, SetNext, SetNextFails, SkipFirst,
           AddFirstRaises, Finish, Fail, Raise, Return, Continue,
           Goto, AfterRefusedWrite
  <2>4. \A q \in Runs : q # r => pc'[q] = pc[q]
    BY <1>0, <2>3
  <2>5. name' = name \/ \E v : name' = [name EXCEPT ![r] = v]
    BY <1>1 DEF Step, CopyFails, CopyEntry, ReadOrder, ReadOrderFails, ScanName, ScanRaises,
           ScanEnd, SetPath, SetDescription, ReadEntry, ReadEntryRaises, CheckEntry,
           WriteEntry, WriteEntryFails, SkipNext, SetNext, SetNextFails, SkipFirst,
           AddFirstRaises, Finish
  <2>6. \A q \in Runs : q # r => name'[q] = name[q]
    BY <1>0, <2>5
  <2>7. Finish(r) \/ ~(pc'[r] = "returned" /\ outcome'[r].step = 0)
    BY <1>0, <1>1, FailedStep DEF SuccessIsNamed, Step, CopyFails, CopyEntry, ReadOrder,
           ReadOrderFails, ScanName, ScanRaises, Scanning,
           ScanEnd, SetPath, SetDescription, ReadEntry, ReadEntryRaises, CheckEntry,
           WriteEntry, WriteEntryFails, SkipNext, SetNext, SetNextFails, SkipFirst,
           AddFirstRaises, Raise, Continue, Goto, AfterScan, AfterRefusedWrite
  <2>8. Finish(r) => name'[r] # None
    BY DEF Finish, IInv, Progress, AfterName
  <2> QED BY <1>0, <2>2, <2>4, <2>6, <2>7, <2>8 DEF SuccessIsNamed, Succeeded
<1>2. ASSUME NEW r \in Runs, Kill(r) PROVE SuccessIsNamed'
  BY <1>0, <1>2 DEF SuccessIsNamed, Kill, Goto, local, Succeeded
<1>3. CASE DeleteForeign \/ Reorder
  BY <1>3 DEF DeleteForeign, Reorder, SuccessIsNamed, local, Succeeded
<1>4. CASE UNCHANGED vars
  BY <1>4 DEF vars, SuccessIsNamed, local, Succeeded
<1> QED BY <1>1, <1>2, <1>3, <1>4 DEF Next

\* The entry of a successful call is one the firmware will offer, in every mode and
\* whatever other runs of the program and other programs do to BootOrder.
THEOREM SuccessIsListed == Spec => []ListedAtEnd
<1>1. StillListed /\ SuccessIsNamed => ListedAtEnd
  BY DEF StillListed, ListedFor, SuccessIsNamed, ListedAtEnd
<1>2. IInv /\ IInv' /\ StillListed /\ [Next]_vars => StillListed'
  BY StepStaysListed
<1>3. IInv /\ IInv' /\ SuccessIsNamed /\ [Next]_vars => SuccessIsNamed'
  BY StepStaysNamed
<1> QED BY <1>1, <1>2, <1>3, InitListed, EntryInvariant, PTL DEF Spec
-----------------------------------------------------------------------------
(***************************************************************************)
(* What CreateEntry leaves behind in Windows API mode, for copied device   *)
(* paths of any length.                                                    *)
(*                                                                         *)
(* The argument: until its run writes it, the own entry is what bcdedit    *)
(* copied; steps 7 to 11 let only a copy pass whose device path ends with  *)
(* a file path and the end node, in front of which every node is good; so  *)
(* what the run writes is parsed back node by node.                        *)
(***************************************************************************)

\* A set of natural numbers has a least element.
LEMMA HasLeast ==
  ASSUME NEW T, T \subseteq Nat, T # {}
  PROVE  \E x \in T : \A y \in T : x <= y
<1> DEFINE R == OpToRel(<, Nat)
<1>1. IsWellFoundedOn(R, Nat)
  BY Zenon, NatLessThanWellFounded
<1>2. \A x, y \in Nat : <<y, x>> \in R <=> y < x
  BY DEF OpToRel
<1> HIDE DEF R
<1>3. PICK x \in T : \A y \in T : ~(<<y, x>> \in R)
  BY <1>1, WFMin
<1>4. ASSUME NEW y \in T PROVE x <= y
  <2>1. x \in Nat /\ y \in Nat /\ ~(y < x)
    BY <1>2, <1>3
  <2> QED BY <2>1
<1> QED BY <1>4
-----------------------------------------------------------------------------
\* The list of nodes.
LEMMA NodesAreKnown ==
  ASSUME NEW c, NodeOk(c)
  PROVE  c.kind \in Known /\ c.kind # "end"
BY DEF NodeOk, Known

LEMMA EndStops ==
  /\ ~NodeOk(EndNode)
  /\ EndNode.kind = "end"
  /\ \A c : c.kind = "end" => LastNode(c) = <<EndNode>>
<1>1. EndNode.kind = "end"
  BY DEF EndNode, Cell
<1>2. \A c : c.kind = "end" => LastNode(c) = <<EndNode>>
  BY DEF LastNode, Known
<1> QED BY <1>1, <1>2, NodesAreKnown

LEMMA PathsAreGood ==
  ASSUME NEW p
  PROVE  NodeOk(FilePath(p)) /\ FilePath(p).kind = "path"
BY DEF NodeOk, FilePathOk, FilePath, Cell

\* Where the parser stops.
LEMMA FirstStopIs ==
  ASSUME NEW fpl, Len(fpl) \in Nat, NEW i \in 1..Len(fpl), ~NodeOk(fpl[i]),
         \A j \in 1..(i - 1) : NodeOk(fpl[j])
  PROVE  FirstStop(fpl) = i /\ Stops(fpl) # {}
<1>1. i \in Stops(fpl) /\ \A j \in Stops(fpl) : i <= j
  BY DEF Stops
<1>2. \A k \in Stops(fpl) : (\A j \in Stops(fpl) : k <= j) => k = i
  BY <1>1 DEF Stops
<1> QED BY <1>1, <1>2 DEF FirstStop

LEMMA StopsSomewhere ==
  ASSUME NEW fpl, Len(fpl) \in Nat, Stops(fpl) # {}
  PROVE  /\ FirstStop(fpl) \in 1..Len(fpl)
         /\ ~NodeOk(fpl[FirstStop(fpl)])
         /\ \A j \in 1..(FirstStop(fpl) - 1) : NodeOk(fpl[j])
<1>1. \E i \in Stops(fpl) : \A j \in Stops(fpl) : i <= j
  <2>1. Stops(fpl) \subseteq Nat
    BY DEF Stops
  <2> QED BY <2>1, HasLeast
<1>2. FirstStop(fpl) \in Stops(fpl) /\ \A j \in Stops(fpl) : FirstStop(fpl) <= j
  BY <1>1 DEF FirstStop
<1> QED BY <1>2 DEF Stops

\* A list that passes the conditions of steps 7 to 11 has an end node, and good
\* nodes in front of it.
LEMMA AcceptedList ==
  ASSUME NEW fpl \in Seq(NodeCells), EndsWithPath(Nodes(fpl)),
         \A i \in 1..(Len(fpl) - 1) : fpl[i].kind # "end"
  PROVE  Len(fpl) >= 2 /\ \A i \in 1..(Len(fpl) - 1) : NodeOk(fpl[i])
<1> DEFINE nodes == Nodes(fpl)
           s == FirstStop(fpl)
<1>0. Len(fpl) \in Nat
  OBVIOUS
<1>1. Len(nodes) > 1 /\ nodes[Len(nodes)].kind = "end"
  BY DEF EndsWithPath
<1>2. Stops(fpl) # {}
  <2> SUFFICES ASSUME Stops(fpl) = {} PROVE FALSE
    OBVIOUS
  <2>1. nodes = fpl
    BY DEF Nodes
  <2>2. Len(fpl) \in 1..Len(fpl) /\ fpl[Len(fpl)].kind = "end"
    BY <1>0, <1>1, <2>1
  <2>3. NodeOk(fpl[Len(fpl)])
    BY <2>2 DEF Stops
  <2> QED BY <2>2, <2>3, NodesAreKnown
<1>3. s \in 1..Len(fpl) /\ ~NodeOk(fpl[s]) /\ \A j \in 1..(s - 1) : NodeOk(fpl[j])
  BY <1>0, <1>2, StopsSomewhere
<1>4. nodes = SubSeq(fpl, 1, s - 1) \o LastNode(fpl[s])
  BY <1>2 DEF Nodes
<1> HIDE DEF nodes, s
<1> DEFINE good == SubSeq(fpl, 1, s - 1)
<1>5. /\ good \in Seq(NodeCells) /\ Len(good) = s - 1
      /\ \A i \in 1..(s - 1) : good[i] = fpl[i]
  BY <1>3
<1> HIDE DEF good
<1>6. fpl[s].kind = "end"
  <2> SUFFICES ASSUME fpl[s].kind # "end" PROVE FALSE
    OBVIOUS
  <2>1. LastNode(fpl[s]) = <<>> \/ LastNode(fpl[s]) = <<RawNode>>
    BY DEF LastNode
  <2>2. CASE LastNode(fpl[s]) = <<>>
    <3>1. nodes = good
      BY <2>2, <1>4, <1>5 DEF good
    <3>2. s - 1 \in 1..(s - 1) /\ good[s - 1].kind = "end"
      BY <3>1, <1>1, <1>3, <1>5
    <3>3. NodeOk(good[s - 1])
      BY <3>2, <1>3, <1>5
    <3> QED BY <3>2, <3>3, NodesAreKnown
  <2>3. CASE LastNode(fpl[s]) = <<RawNode>>
    <3>1. nodes = good \o <<RawNode>>
      BY <2>3, <1>4 DEF good
    <3>2. Len(good \o <<RawNode>>) = Len(good) + 1
      BY <1>5
    <3>3. (good \o <<RawNode>>)[Len(good) + 1] = RawNode
      <4>1. RawNode \in Cells /\ good \in Seq(Cells)
        <5>1. RawNode \in Cells
          BY CellIsCell, TextsAssumption DEF RawNode, NodeKinds
        <5>2. NodeCells \subseteq Cells
          BY OptCellsArePlain DEF CellsOf
        <5> QED BY <5>1, <5>2, <1>5
      <4> QED BY <4>1
    <3>4. nodes[Len(nodes)] = RawNode
      BY <3>1, <3>2, <3>3
    <3>5. RawNode.kind = "raw"
      BY DEF RawNode, Cell
    <3> QED BY <3>4, <3>5, <1>1
  <2> QED BY <2>1, <2>2, <2>3
<1>7. s = Len(fpl)
  BY <1>0, <1>3, <1>6
<1>8. Len(fpl) >= 2
  <2>1. LastNode(fpl[s]) = <<EndNode>>
    BY <1>6, EndStops
  <2>2. nodes = good \o <<EndNode>>
    BY <2>1, <1>4 DEF good
  <2>3. Len(nodes) = s
    BY <2>2, <1>3, <1>5
  <2> QED BY <2>3, <1>1, <1>7
<1> QED BY <1>3, <1>7, <1>8

\* With another file path, it is parsed back as it is.
Repathed(fpl, p) == DeviceOf(fpl) \o <<FilePath(p), EndNode>>

LEMMA RepathedParses ==
  ASSUME NEW fpl \in Seq(NodeCells), Len(fpl) >= 2, NEW p \in Texts \cup {TooLong},
         \A i \in 1..(Len(fpl) - 1) : NodeOk(fpl[i])
  PROVE  /\ Repathed(fpl, p) \in Seq(Cells)
         /\ Len(Repathed(fpl, p)) = Len(fpl)
         /\ Nodes(Repathed(fpl, p)) = Repathed(fpl, p)
         /\ EndsWithPath(Repathed(fpl, p))
<1>1. PICK n \in Nat : n = Len(fpl) /\ n >= 2
  OBVIOUS
<1>2. PICK device \in Seq(NodeCells) :
         /\ device = DeviceOf(fpl) /\ Len(device) = n - 2
         /\ \A i \in 1..(n - 2) : device[i] = fpl[i]
  <2>1. /\ DeviceOf(fpl) \in Seq(NodeCells) /\ Len(DeviceOf(fpl)) = n - 2
        /\ \A i \in 1..(n - 2) : DeviceOf(fpl)[i] = fpl[i]
    BY <1>1 DEF DeviceOf
  <2> QED BY <2>1
<1>3. FilePath(p) \in Cells /\ EndNode \in Cells /\ NodeCells \subseteq Cells
  BY PathsArePlain, FixedCellsArePlain, OptCellsArePlain DEF CellsOf
<1>4. device \in Seq(Cells) /\ <<FilePath(p), EndNode>> \in Seq(Cells)
  BY <1>3, ShortSeqs
<1>5. PICK list \in Seq(Cells) :
         /\ list = Repathed(fpl, p) /\ Len(list) = n
         /\ \A i \in 1..(n - 2) : list[i] = fpl[i]
         /\ list[n - 1] = FilePath(p) /\ list[n] = EndNode
  <2>1. /\ device \o <<FilePath(p), EndNode>> \in Seq(Cells)
        /\ Len(device \o <<FilePath(p), EndNode>>) = n
        /\ \A i \in 1..(n - 2) : (device \o <<FilePath(p), EndNode>>)[i] = fpl[i]
        /\ (device \o <<FilePath(p), EndNode>>)[n - 1] = FilePath(p)
        /\ (device \o <<FilePath(p), EndNode>>)[n] = EndNode
    BY <1>1, <1>2, <1>4
  <2>2. device \o <<FilePath(p), EndNode>> = Repathed(fpl, p)
    BY <1>2 DEF Repathed
  <2> QED BY <2>1, <2>2
<1>6. \A j \in 1..(n - 1) : NodeOk(list[j])
  BY <1>1, <1>5, PathsAreGood
<1>7. FirstStop(list) = n /\ Stops(list) # {}
  <2>1. n \in 1..Len(list) /\ ~NodeOk(list[n])
    BY <1>1, <1>5, EndStops
  <2> QED BY <2>1, <1>5, <1>6, FirstStopIs
<1>8. Nodes(list) = list
  <2>1. Nodes(list) = SubSeq(list, 1, n - 1) \o <<EndNode>>
    BY <1>5, <1>7, EndStops DEF Nodes
  <2>2. SubSeq(list, 1, n - 1) \o <<EndNode>> = list
    <3>1. /\ SubSeq(list, 1, n - 1) \in Seq(Cells) /\ Len(SubSeq(list, 1, n - 1)) = n - 1
          /\ \A i \in 1..(n - 1) : SubSeq(list, 1, n - 1)[i] = list[i]
      BY <1>1, <1>5
    <3>2. /\ SubSeq(list, 1, n - 1) \o <<EndNode>> \in Seq(Cells)
          /\ Len(SubSeq(list, 1, n - 1) \o <<EndNode>>) = n
          /\ \A i \in 1..n : (SubSeq(list, 1, n - 1) \o <<EndNode>>)[i] = list[i]
      BY <3>1, <1>1, <1>3, <1>5
    <3> QED BY <3>2, <1>5, SeqEqual
  <2> QED BY <2>1, <2>2
<1>9. EndsWithPath(list)
  BY <1>1, <1>5, EndStops, PathsAreGood DEF EndsWithPath
<1> QED BY <1>1, <1>5, <1>8, <1>9
-----------------------------------------------------------------------------
\* The payload of an entry, and what the parser makes of it.
Payload(d, fpl, opt) ==
    <<Attributes, LengthCell(Len(fpl)), Description(d)>> \o fpl \o opt

LEMMA PieceFound ==
  ASSUME NEW S, NEW s \in Seq(S), NEW a \in Nat, NEW piece \in Seq(S),
         a + Len(piece) <= Len(s), \A k \in 1..Len(piece) : s[a + k] = piece[k]
  PROVE  SubSeq(s, a + 1, a + Len(piece)) = piece
OBVIOUS

LEMMA PayloadParts ==
  ASSUME NEW d \in Texts \cup Runs, NEW fpl \in Seq(Cells), NEW opt \in Seq(Cells)
  PROVE  /\ Payload(d, fpl, opt) \in Seq(Cells)
         /\ Len(Payload(d, fpl, opt)) = 3 + Len(fpl) + Len(opt)
         /\ Payload(d, fpl, opt)[1] = Attributes
         /\ Payload(d, fpl, opt)[2] = LengthCell(Len(fpl))
         /\ Payload(d, fpl, opt)[3] = Description(d)
         /\ Slice(Payload(d, fpl, opt), 0, 1) = <<Attributes>>
         /\ Slice(Payload(d, fpl, opt), 3, 3 + Len(fpl)) = fpl
         /\ Slice(Payload(d, fpl, opt), 3 + Len(fpl), Len(Payload(d, fpl, opt))) = opt
<1>1. PICK a \in Cells, b \in Cells, c \in Cells :
         a = Attributes /\ b = LengthCell(Len(fpl)) /\ c = Description(d)
  <2>1. Attributes \in Cells /\ Description(d) \in Cells
    BY CellIsCell, TextsAssumption DEF Attributes, Description
  <2>2. LengthCell(Len(fpl)) \in Cells
    <3>1. Len(fpl) \in Nat
      OBVIOUS
    <3> QED BY <3>1 DEF LengthCell, Cells
  <2> QED BY <2>1, <2>2
<1>2. PICK head \in Seq(Cells) :
         head = <<a, b, c>> /\ Len(head) = 3 /\ head[1] = a /\ head[2] = b /\ head[3] = c
  <2>1. <<a, b, c>> \in Seq(Cells)
    BY ShortSeqs
  <2> QED BY <2>1
<1>3. Payload(d, fpl, opt) = head \o fpl \o opt
  BY <1>1, <1>2 DEF Payload
<1>4. PICK n \in Nat, k \in Nat : n = Len(fpl) /\ k = Len(opt)
  OBVIOUS
<1>5. PICK cells \in Seq(Cells) :
         /\ cells = Payload(d, fpl, opt) /\ Len(cells) = 3 + n + k
         /\ \A i \in 1..3 : cells[i] = head[i]
         /\ \A i \in 1..n : cells[3 + i] = fpl[i]
         /\ \A i \in 1..k : cells[3 + n + i] = opt[i]
  <2>1. /\ head \o fpl \in Seq(Cells) /\ Len(head \o fpl) = 3 + n
        /\ \A i \in 1..3 : (head \o fpl)[i] = head[i]
        /\ \A i \in 1..n : (head \o fpl)[3 + i] = fpl[i]
    BY <1>2, <1>4
  <2>2. PICK front \in Seq(Cells) :
           /\ front = head \o fpl /\ Len(front) = 3 + n
           /\ \A i \in 1..3 : front[i] = head[i]
           /\ \A i \in 1..n : front[3 + i] = fpl[i]
    BY <2>1
  <2>3. /\ front \o opt \in Seq(Cells) /\ Len(front \o opt) = 3 + n + k
        /\ \A i \in 1..3 : (front \o opt)[i] = head[i]
        /\ \A i \in 1..n : (front \o opt)[3 + i] = fpl[i]
        /\ \A i \in 1..k : (front \o opt)[3 + n + i] = opt[i]
    <3>1. /\ front \o opt \in Seq(Cells) /\ Len(front \o opt) = Len(front) + Len(opt)
          /\ \A i \in 1..Len(front) : (front \o opt)[i] = front[i]
          /\ \A i \in 1..Len(opt) : (front \o opt)[Len(front) + i] = opt[i]
      OBVIOUS
    <3>2. Len(front) = 3 + n /\ Len(opt) = k
      BY <2>2, <1>4
    <3>3. \A i \in 1..3 : i \in 1..(3 + n)
      OBVIOUS
    <3>4. \A i \in 1..n : 3 + i \in 1..(3 + n)
      OBVIOUS
    <3>5. \A i \in 1..3 : (front \o opt)[i] = head[i]
      BY <2>2, <3>1, <3>2, <3>3
    <3>6. \A i \in 1..n : (front \o opt)[3 + i] = fpl[i]
      BY <2>2, <3>1, <3>2, <3>4
    <3> QED BY <3>1, <3>2, <3>5, <3>6
  <2>4. front \o opt = Payload(d, fpl, opt)
    BY <1>3, <2>2
  <2> QED BY <2>3, <2>4
<1>6. cells[1] = a /\ cells[2] = b /\ cells[3] = c
  BY <1>2, <1>5
<1>7. Slice(cells, 0, 1) = <<Attributes>>
  <2>1. /\ Slice(cells, 0, 1) \in Seq(Cells) /\ Len(Slice(cells, 0, 1)) = 1
        /\ Slice(cells, 0, 1)[1] = a
    BY <1>4, <1>5, <1>6 DEF Slice
  <2> QED BY <2>1, <1>1
<1>8. Slice(cells, 3, 3 + n) = fpl
  <2>1. Slice(cells, 3, 3 + n) = SubSeq(cells, 3 + 1, 3 + n)
    BY DEF Slice
  <2>2. SubSeq(cells, 3 + 1, 3 + n) = fpl
    BY <1>4, <1>5
  <2> QED BY <2>1, <2>2
<1>9. Slice(cells, 3 + n, 3 + n + k) = opt
  <2>1. Slice(cells, 3 + n, 3 + n + k) = SubSeq(cells, (3 + n) + 1, (3 + n) + k)
    BY DEF Slice
  <2>2. SubSeq(cells, (3 + n) + 1, (3 + n) + k) = opt
    <3>1. /\ 3 + n \in Nat /\ (3 + n) + Len(opt) <= Len(cells)
          /\ \A i \in 1..Len(opt) : cells[(3 + n) + i] = opt[i]
      BY <1>4, <1>5
    <3>2. SubSeq(cells, (3 + n) + 1, (3 + n) + Len(opt)) = opt
      BY <3>1, PieceFound
    <3> QED BY <3>2, <1>4
  <2> QED BY <2>1, <2>2
<1> QED BY <1>1, <1>4, <1>5, <1>6, <1>7, <1>8, <1>9

LEMMA PayloadParses ==
  ASSUME NEW d \in Texts \cup Runs, NEW fpl \in Seq(Cells), NEW opt \in Seq(Cells)
  PROVE  Parse(Payload(d, fpl, opt)) =
           [description |-> d, nodes |-> Nodes(fpl), start |-> 3, end |-> 3 + Len(fpl),
            optdata |-> opt]
<1>1. PICK n \in Nat, k \in Nat : n = Len(fpl) /\ k = Len(opt)
  OBVIOUS
<1>2. PICK cells \in Seq(Cells) :
         /\ cells = Payload(d, fpl, opt) /\ Len(cells) = 3 + n + k
         /\ cells[1] = Attributes /\ cells[2] = LengthCell(n) /\ cells[3] = Description(d)
         /\ Slice(cells, 3, 3 + n) = fpl /\ Slice(cells, 3 + n, Len(cells)) = opt
  BY <1>1, PayloadParts
<1>3. /\ Attributes.kind = "attr" /\ Description(d).kind = "desc" /\ Description(d).val = d
      /\ LengthCell(n).kind = "len" /\ LengthCell(n).n = n
  BY DEF Attributes, Description, LengthCell, Cell
<1>4. ~AttributesTwice(cells)
  BY <1>2, <1>3 DEF AttributesTwice
<1>5. HeaderOk(cells) /\ cells[2].n = n /\ cells[3].val = d
  BY <1>1, <1>2, <1>3 DEF HeaderOk
<1>6. 3 + cells[2].n <= Len(cells)
  BY <1>1, <1>2, <1>5
<1>7. Parse(cells) = [description |-> cells[3].val,
                      nodes |-> Nodes(Slice(cells, 3, 3 + cells[2].n)),
                      start |-> 3, end |-> 3 + cells[2].n,
                      optdata |-> Slice(cells, 3 + cells[2].n, Len(cells))]
  BY <1>4, <1>5, <1>6 DEF Parse
<1> QED BY <1>1, <1>2, <1>5, <1>7
-----------------------------------------------------------------------------
\* Until the write the own entry is what bcdedit copied.
Copied(r, fpl) == Payload(TmpDescription(r), fpl, WinOptData)

LEMMA CellsEverywhere ==
  /\ NodeCells \subseteq Cells /\ OptCells \subseteq Cells
  /\ WinOptData \in Seq(Cells)
  /\ \A fpl \in Templates : fpl \in Seq(NodeCells) /\ fpl \in Seq(Cells)
<1>1. NodeCells \subseteq Cells /\ OptCells \subseteq Cells
  BY OptCellsArePlain DEF CellsOf
<1>2. WinOptData \in Seq(OptCells) /\ \A fpl \in Templates : fpl \in Seq(NodeCells)
  BY BcdAssumption
<1> QED BY <1>1, <1>2

\* A copy that steps 7 to 11 accept,
LEMMA AcceptedCopy ==
  ASSUME NEW r \in Runs, NEW fpl \in Templates, Refused(Parse(Copied(r, fpl))) = 0
  PROVE  Len(fpl) >= 2 /\ \A i \in 1..(Len(fpl) - 1) : NodeOk(fpl[i])
<1>1. fpl \in Seq(NodeCells) /\ fpl \in Seq(Cells) /\ WinOptData \in Seq(Cells)
  BY CellsEverywhere
<1>2. Parse(Copied(r, fpl)).nodes = Nodes(fpl)
  BY <1>1, PayloadParses DEF Copied, TmpDescription
<1>3. EndsWithPath(Nodes(fpl))
  BY <1>2 DEF Refused
<1> QED BY <1>1, <1>3, TemplatesAssumption, AcceptedList

\* rewritten as step 12 does,
LEMMA RewrittenCopy ==
  ASSUME NEW r \in Runs, NEW fpl \in Templates, NEW q \in Requests,
         Len(fpl) >= 2, \A i \in 1..(Len(fpl) - 1) : NodeOk(fpl[i])
  PROVE  AsRequested(Payload(q.description, Repathed(fpl, q.path), q.metadata), q)
<1>1. /\ q.path \in Texts \cup {TooLong} /\ q.description \in Texts
      /\ q.metadata \in Seq(Cells)
  BY RequestsAssumption, CellsEverywhere
<1>2. fpl \in Seq(NodeCells)
  BY CellsEverywhere
<1>3. PICK list \in Seq(Cells) : /\ list = Repathed(fpl, q.path)
                                 /\ Nodes(list) = list /\ EndsWithPath(list)
  BY <1>1, <1>2, RepathedParses
<1>4. PICK parsed : parsed = Parse(Payload(q.description, list, q.metadata))
  OBVIOUS
<1>5. parsed = [description |-> q.description, nodes |-> list, start |-> 3,
                end |-> 3 + Len(list), optdata |-> q.metadata]
  BY <1>1, <1>3, <1>4, PayloadParses
<1>6. parsed # Unparsed
  <2>1. 3 + Len(list) \in Nat
    OBVIOUS
  <2>2. parsed \in ParsedEntries
    BY <1>1, <1>5, <2>1 DEF ParsedEntries
  <2> QED BY <2>2, ParserAssumption
<1>7. Payload(q.description, list, q.metadata) # NoVar
  <2>1. Payload(q.description, list, q.metadata) \in Seq(Cells)
    BY <1>1, PayloadParts
  <2> QED BY <2>1, SentinelAssumption
<1>8. list = DeviceOf(fpl) \o <<FilePath(q.path), EndNode>>
  BY <1>3 DEF Repathed
<1>9. /\ parsed.description = q.description /\ EndsWithPath(parsed.nodes)
      /\ parsed.optdata = q.metadata
      /\ \E f \in Templates : parsed.nodes = DeviceOf(f) \o <<FilePath(q.path), EndNode>>
  BY <1>3, <1>5, <1>8
<1> QED BY <1>3, <1>4, <1>6, <1>7, <1>9 DEF AsRequested

\* is what step 12 computes from it.
LEMMA NewDataIs ==
  ASSUME NEW r \in Runs, NEW fpl \in Templates, data[r] = Copied(r, fpl),
         arg[r] \in Requests, ~arg[r].pathByBcd, Len(fpl) >= 2,
         \A i \in 1..(Len(fpl) - 1) : NodeOk(fpl[i])
  PROVE  NewData(r) = Payload(arg[r].description, Repathed(fpl, arg[r].path), arg[r].metadata)
<1>1. fpl \in Seq(NodeCells) /\ fpl \in Seq(Cells) /\ WinOptData \in Seq(Cells)
  BY CellsEverywhere
<1>2. /\ Slice(data[r], 0, 1) = <<Attributes>>
      /\ Slice(data[r], 3, 3 + Len(fpl)) = fpl
  BY <1>1, PayloadParts DEF Copied, TmpDescription
<1>3. Parse(data[r]).start = 3 /\ Parse(data[r]).end = 3 + Len(fpl)
  BY <1>1, PayloadParses DEF Copied, TmpDescription
<1>4. CutOff(fpl) = DeviceOf(fpl)
  BY DEF CutOff, DeviceOf, Slice
<1>5. CutOff(Slice(data[r], Parse(data[r]).start, Parse(data[r]).end))
        \o <<FilePath(arg[r].path), EndNode>> = Repathed(fpl, arg[r].path)
  BY <1>2, <1>3, <1>4 DEF Repathed
<1>6. NewData(r) = <<Attributes>>
                     \o <<LengthCell(Len(Repathed(fpl, arg[r].path))),
                          Description(arg[r].description)>>
                     \o Repathed(fpl, arg[r].path) \o arg[r].metadata
  BY <1>2, <1>5 DEF NewData
<1>7. \A a, b, c \in Cells : <<a>> \o <<b, c>> = <<a, b, c>>
  <2>1. ASSUME NEW a \in Cells, NEW b \in Cells, NEW c \in Cells
        PROVE  <<a>> \o <<b, c>> = <<a, b, c>>
    <3>1. <<a>> \o <<b, c>> \in Seq(Cells) /\ <<a, b, c>> \in Seq(Cells)
      OBVIOUS
    <3>2. Len(<<a>> \o <<b, c>>) = 3 /\ Len(<<a, b, c>>) = 3
      OBVIOUS
    <3>3. \A i \in 1..3 : (<<a>> \o <<b, c>>)[i] = <<a, b, c>>[i]
      OBVIOUS
    <3> QED BY <3>1, <3>2, <3>3, SeqEqual
  <2> QED BY <2>1
<1>8. /\ Attributes \in Cells /\ Description(arg[r].description) \in Cells
      /\ LengthCell(Len(Repathed(fpl, arg[r].path))) \in Cells
  <2>1. arg[r].description \in Texts /\ arg[r].path \in Texts \cup {TooLong}
    BY RequestsAssumption
  <2>2. Attributes \in Cells /\ Description(arg[r].description) \in Cells
    BY <2>1, CellIsCell, TextsAssumption DEF Attributes, Description
  <2>3. Repathed(fpl, arg[r].path) \in Seq(Cells)
    BY <1>1, <2>1, RepathedParses
  <2>4. Len(Repathed(fpl, arg[r].path)) \in Nat
    BY <2>3
  <2> QED BY <2>2, <2>4 DEF LengthCell, Cells
<1>9. <<Attributes>> \o <<LengthCell(Len(Repathed(fpl, arg[r].path))),
                          Description(arg[r].description)>>
        = <<Attributes, LengthCell(Len(Repathed(fpl, arg[r].path))),
            Description(arg[r].description)>>
  BY <1>7, <1>8
<1> QED BY <1>6, <1>9 DEF Payload
-----------------------------------------------------------------------------
ByApi(r) == ~arg[r].pathByBcd
Draft(r, cells) == \E fpl \in Templates : cells = Copied(r, fpl)

BeforeWrite == {"order", "scan", "read", "parse", "write"}
Written == {"next", "first", "finish"}

\* What holds of the entry of one run: a draft until the write and complete
\* afterwards, in any case when BootNext points at it.
OwnEntry(r) ==
    /\ ByApi(r) /\ pc[r] \in BeforeWrite => Draft(r, entry[own[r]])
    /\ ByApi(r) /\ pc[r] \in {"parse", "write"} => Draft(r, data[r])
    /\ pc[r] = "write" => Refused(Parse(data[r])) = 0
    /\ pc[r] \in {"setpath", "setdesc"} => ~ByApi(r)
    /\ ByApi(r) /\ (pc[r] \in Written \/ Succeeded(r)) => Complete(r)
    /\ ByApi(r) /\ own[r] # None /\ bootNext = own[r] => Complete(r)

ArmedIsOwn == bootNext # NoVar => \E r \in Runs : own[r] = bootNext

CInv == /\ DOMAIN outcome = Runs
        /\ ArmedIsOwn
        /\ \A r \in Runs : OwnEntry(r)

LEMMA InitCInv == Init => CInv
<1> SUFFICES ASSUME Init PROVE CInv
  OBVIOUS
<1>1. /\ \A r \in Runs : pc[r] = "copy" /\ own[r] = None
      /\ bootNext = NoVar /\ DOMAIN outcome = Runs
  BY DEF Init
<1>2. \A r \in Runs : OwnEntry(r)
  BY <1>1 DEF OwnEntry, BeforeWrite, Written, Succeeded
<1> QED BY <1>1, <1>2 DEF CInv, ArmedIsOwn
-----------------------------------------------------------------------------
\* A run moves only itself.
LEMMA StepFrame ==
  ASSUME IInv, CInv, NEW q \in Runs, Step(q) \/ Kill(q)
  PROVE  /\ UNCHANGED arg /\ DOMAIN outcome' = Runs
         /\ \A r \in Runs : r # q => /\ data'[r] = data[r] /\ outcome'[r] = outcome[r]
                                     /\ own'[r] = own[r]
         /\ own[q] # None => own'[q] = own[q]
<1>1. UNCHANGED arg
  BY DEF Step, Kill, CopyFails, CopyEntry, ReadOrder, ReadOrderFails, ScanName, ScanRaises,
         ScanEnd, SetPath, SetDescription, ReadEntry, ReadEntryRaises, CheckEntry,
         WriteEntry, WriteEntryFails, SkipNext, SetNext, SetNextFails, SkipFirst,
         AddFirstRaises, Finish, local
<1>2. UNCHANGED data \/ \E v : data' = [data EXCEPT ![q] = v]
  BY DEF Step, Kill, CopyFails, CopyEntry, ReadOrder, ReadOrderFails, ScanName, ScanRaises,
         ScanEnd, SetPath, SetDescription, ReadEntry, ReadEntryRaises, CheckEntry,
         WriteEntry, WriteEntryFails, SkipNext, SetNext, SetNextFails, SkipFirst,
         AddFirstRaises, Finish, local
<1>3. UNCHANGED outcome \/ \E v : outcome' = [outcome EXCEPT ![q] = v]
  BY DEF Step, Kill, CopyFails, CopyEntry, ReadOrder, ReadOrderFails, ScanName, ScanRaises,
         ScanEnd, SetPath, SetDescription, ReadEntry, ReadEntryRaises, CheckEntry,
         WriteEntry, WriteEntryFails, SkipNext, SetNext, SetNextFails, SkipFirst,
         AddFirstRaises, Finish, local,
         Fail, Raise, Return, Continue, AfterRefusedWrite
<1>4. UNCHANGED own \/ (pc[q] = "copy" /\ \E v : own' = [own EXCEPT ![q] = v])
  BY DEF Step, Kill, CopyFails, CopyEntry, ReadOrder, ReadOrderFails, ScanName, ScanRaises,
         ScanEnd, SetPath, SetDescription, ReadEntry, ReadEntryRaises, CheckEntry,
         WriteEntry, WriteEntryFails, SkipNext, SetNext, SetNextFails, SkipFirst,
         AddFirstRaises, Finish, local
<1>5. DOMAIN data = Runs /\ DOMAIN outcome = Runs /\ own \in [Runs -> NamesOrNone]
  BY DEF IInv, TypeOK, CInv
<1>6. pc[q] = "copy" => own[q] = None
  BY DEF IInv, Progress
<1> QED BY <1>1, <1>2, <1>3, <1>4, <1>5, <1>6

LEMMA ArmingFrame ==
  ASSUME IInv, NEW q \in Runs, Step(q) \/ Kill(q)
  PROVE  \/ UNCHANGED bootNext
         \/ pc[q] = "next" /\ bootNext' = own[q] /\ own[q] \in Names /\ UNCHANGED <<own, entry>>
<1>1. CASE SetNext(q)
  <2>1. pc[q] \in AfterName
    BY <1>1 DEF SetNext, AfterName
  <2>2. own[q] \in Names /\ guid[q] = own[q] /\ name[q] = own[q]
    BY <2>1, OwnKnown
  <2> QED BY <1>1, <2>2 DEF SetNext, PutNext, NextTarget
<1>2. CASE ~SetNext(q)
  BY <1>2 DEF Step, Kill, CopyFails, CopyEntry, ReadOrder, ReadOrderFails, ScanName, ScanRaises,
         ScanEnd, SetPath, SetDescription, ReadEntry, ReadEntryRaises, CheckEntry,
         WriteEntry, WriteEntryFails, SkipNext, SetNextFails, SkipFirst,
         AddFirstRaises, Finish, store, BcdCopy, PutEntry, PutOrder
<1> QED BY <1>1, <1>2

\* BootNext keeps pointing at an entry of a run.
LEMMA ArmedIsOwnStep ==
  ASSUME IInv, CInv, NEW q \in Runs, Step(q) \/ Kill(q)
  PROVE  ArmedIsOwn'
<1>1. CASE UNCHANGED bootNext
  <2> SUFFICES ASSUME bootNext # NoVar PROVE \E r \in Runs : own'[r] = bootNext
    BY <1>1 DEF ArmedIsOwn
  <2>1. PICK r \in Runs : own[r] = bootNext
    BY DEF CInv, ArmedIsOwn
  <2>2. own[r] # None
    BY <2>1, SentinelAssumption DEF IInv, TypeOK
  <2>3. own'[r] = own[r]
    BY <2>2, StepFrame
  <2> QED BY <2>1, <2>3
<1>2. CASE bootNext' = own[q] /\ UNCHANGED own
  BY <1>2 DEF ArmedIsOwn
<1> QED BY <1>1, <1>2, ArmingFrame

\* What holds of the entry of one run is not touched by another one,
LEMMA OtherRunStep ==
  ASSUME IInv, IInv', CInv, NEW q \in Runs, Step(q) \/ Kill(q), NEW r \in Runs, r # q
  PROVE  OwnEntry(r)'
<1>1. /\ UNCHANGED arg /\ pc'[r] = pc[r] /\ data'[r] = data[r] /\ outcome'[r] = outcome[r]
      /\ own'[r] = own[r]
  BY StepFrame, OwnWritesOnly
<1>2. own[r] # None => entry'[own[r]] = entry[own[r]]
  <2> SUFFICES ASSUME own[r] # None, entry'[own[r]] # entry[own[r]] PROVE FALSE
    OBVIOUS
  <2>1. own[r] \in Names
    BY DEF IInv, TypeOK, NamesOrNone
  <2>2. own'[r] = own'[q] /\ own'[r] # None
    BY <1>1, <2>1, OwnWritesOnly
  <2> QED BY <2>2 DEF IInv, OwnDistinct
<1>3. bootNext' = own[r] /\ own[r] # None => bootNext = own[r]
  <2>1. own[q] = own[r] /\ own[r] # None => FALSE
    BY DEF IInv, OwnDistinct
  <2> QED BY <2>1, ArmingFrame
<1>4. OwnEntry(r)
  BY DEF CInv
<1>5. pc[r] \in BeforeWrite => own[r] # None
  BY DEF IInv, Progress, GuidIsOwn, AfterGuid, AfterName, BeforeWrite
<1>6. Complete(r) => Complete(r)'
  BY <1>1, <1>2 DEF Complete
<1>7. Succeeded(r)' <=> Succeeded(r)
  BY <1>1 DEF Succeeded
<1>8. ByApi(r)' <=> ByApi(r)
  BY <1>1 DEF ByApi
<1> QED BY <1>1, <1>2, <1>3, <1>4, <1>5, <1>6, <1>7, <1>8 DEF OwnEntry

\* nor by other programs.
LEMMA OthersStep ==
  ASSUME IInv, CInv, DeleteForeign \/ Reorder
  PROVE  CInv'
<1>1. UNCHANGED <<bootNext, pc, arg, own, data, outcome>>
  BY DEF DeleteForeign, Reorder, local
<1>2. ASSUME NEW r \in Runs, own[r] # None PROVE entry'[own[r]] = entry[own[r]]
  <2>1. CASE Reorder
    BY <2>1 DEF Reorder
  <2>2. CASE DeleteForeign
    <3>1. PICK n \in Names : NotOurs(n) /\ entry' = [entry EXCEPT ![n] = NoVar]
      BY <2>2 DEF DeleteForeign
    <3>2. own[r] \in Names /\ own[r] # n
      BY <1>2, <3>1 DEF IInv, TypeOK, NamesOrNone, NotOurs
    <3> QED BY <3>1, <3>2 DEF IInv, TypeOK
  <2> QED BY <2>1, <2>2
<1>3. ASSUME NEW r \in Runs PROVE OwnEntry(r)'
  <2>1. OwnEntry(r)
    BY DEF CInv
  <2>2. pc[r] \in BeforeWrite => own[r] # None
    BY DEF IInv, Progress, GuidIsOwn, AfterGuid, AfterName, BeforeWrite
  <2>3. Complete(r) => Complete(r)'
    BY <1>1, <1>2 DEF Complete
  <2>4. (Succeeded(r)' <=> Succeeded(r)) /\ (ByApi(r)' <=> ByApi(r))
    BY <1>1 DEF Succeeded, ByApi
  <2> QED BY <1>1, <1>2, <2>1, <2>2, <2>3, <2>4 DEF OwnEntry
<1> QED BY <1>1, <1>3 DEF CInv, ArmedIsOwn
-----------------------------------------------------------------------------
\* Steps of the run that leave its entry alone.
LEMMA EntryLeftAlone ==
  ASSUME CInv, NEW r \in Runs, UNCHANGED <<entry, arg, own>>,
         bootNext' = bootNext \/ pc[r] \in Written,
         pc'[r] \in BeforeWrite => pc[r] \in BeforeWrite,
         ByApi(r) /\ pc'[r] \in {"parse", "write"} => Draft(r, data'[r]),
         pc'[r] = "write" => Refused(Parse(data'[r])) = 0,
         pc'[r] \in {"setpath", "setdesc"} => ~ByApi(r),
         pc'[r] \in Written \/ Succeeded(r)' => pc[r] \in Written
  PROVE  OwnEntry(r)'
<1>1. OwnEntry(r) /\ (Complete(r)' <=> Complete(r)) /\ (ByApi(r)' <=> ByApi(r))
  BY DEF CInv, Complete, ByApi
<1> QED BY <1>1 DEF OwnEntry

\* In particular when it ends, and not well.
LEMMA EndsBadly ==
  ASSUME IInv, CInv, NEW r \in Runs, UNCHANGED <<entry, bootNext, arg, own>>,
         \/ \E step, payload : step # 0 /\ Fail(r, step, payload)
         \/ \E step : Raise(r, step)
         \/ Goto(r, "killed")
  PROVE  OwnEntry(r)'
<1>1. pc \in [Runs -> Steps \cup Ended] /\ DOMAIN outcome = Runs
  BY DEF IInv, TypeOK, CInv
<1>2. \/ pc'[r] = "raised" \/ pc'[r] = "killed"
      \/ pc'[r] = "returned" /\ outcome'[r].step # 0
  BY <1>1 DEF Fail, Raise, Return, Goto
<1>3. ~Succeeded(r)'
  BY <1>2 DEF Succeeded
<1> QED BY <1>2, <1>3, EntryLeftAlone DEF BeforeWrite, Written

\* Up to the name: the draft stays.
LEMMA ScanStep ==
  ASSUME IInv, CInv, NEW r \in Runs, ReadOrder(r) \/ ScanName(r) \/ ScanEnd(r)
  PROVE  OwnEntry(r)'
<1>0. pc \in [Runs -> Steps \cup Ended]
  BY DEF IInv, TypeOK
<1>1. UNCHANGED <<entry, bootNext, arg, own, data>> /\ pc[r] \in {"order", "scan"}
  BY DEF ReadOrder, ScanName, ScanEnd, store, Scanning
<1>2. CASE \E step, payload : step # 0 /\ Fail(r, step, payload)
  BY <1>1, <1>2, EndsBadly
<1>3. CASE pc'[r] = "scan" \/ (pc'[r] = "read" /\ ByApi(r)) \/ (pc'[r] = "setpath" /\ ~ByApi(r))
  <2>1. ~Succeeded(r)'
    BY <1>3 DEF Succeeded
  <2> QED BY <1>1, <1>3, <2>1, EntryLeftAlone DEF BeforeWrite, Written
<1>4. ReadOrder(r) => pc'[r] = "scan"
  BY <1>0 DEF ReadOrder, Continue, Goto
<1>5. ScanName(r) => pc'[r] = "scan"
  BY DEF ScanName, Scanning
<1>6. ScanEnd(r) => \/ \E step, payload : step # 0 /\ Fail(r, step, payload)
                    \/ (pc'[r] = "read" /\ ByApi(r)) \/ (pc'[r] = "setpath" /\ ~ByApi(r))
  BY <1>0 DEF ScanEnd, Continue, Goto, AfterScan, ByApi
<1> QED BY <1>2, <1>3, <1>4, <1>5, <1>6

\* What is read is the draft,
LEMMA ReadStep ==
  ASSUME IInv, CInv, NEW r \in Runs, ReadEntry(r)
  PROVE  OwnEntry(r)'
<1>1. /\ pc[r] = "read" /\ pc'[r] = "parse" /\ UNCHANGED <<entry, bootNext, arg, own>>
      /\ data'[r] = entry[name[r]]
  BY DEF ReadEntry, Continue, Goto, store, IInv, TypeOK
<1>2. name[r] = own[r]
  BY <1>1, OwnKnown DEF AfterName
<1>3. ByApi(r) => Draft(r, data'[r])
  BY <1>1, <1>2 DEF CInv, OwnEntry, BeforeWrite
<1>4. ~Succeeded(r)'
  BY <1>1 DEF Succeeded
<1> QED BY <1>1, <1>3, <1>4, EntryLeftAlone DEF BeforeWrite, Written

\* and goes on to the write only when it is accepted.
LEMMA CheckStep ==
  ASSUME IInv, CInv, NEW r \in Runs, CheckEntry(r)
  PROVE  OwnEntry(r)'
<1>1. pc[r] = "parse" /\ UNCHANGED <<entry, bootNext, arg, own, data>>
  BY DEF CheckEntry, store
<1>2. CASE \/ \E step, payload : step # 0 /\ Fail(r, step, payload)
           \/ \E step : Raise(r, step)
  BY <1>1, <1>2, EndsBadly
<1>3. CASE Refused(Parse(data[r])) = 0 /\ Continue(r, "write")
  <2>1. pc'[r] = "write"
    BY <1>3 DEF Continue, Goto, IInv, TypeOK
  <2>2. ByApi(r) => Draft(r, data[r])
    BY <1>1 DEF CInv, OwnEntry
  <2>3. ~Succeeded(r)'
    BY <2>1 DEF Succeeded
  <2> QED BY <1>1, <1>3, <2>1, <2>2, <2>3, EntryLeftAlone DEF BeforeWrite, Written
<1> QED BY <1>2, <1>3 DEF CheckEntry

\* The steps after the write, BootNext armed or not.
LEMMA AfterWriteStep ==
  ASSUME IInv, CInv, NEW r \in Runs,
         \/ SkipNext(r) \/ SetNext(r) \/ SetNextFails(r)
         \/ SkipFirst(r) \/ Finish(r)
  PROVE  OwnEntry(r)'
<1>1. pc[r] \in Written /\ UNCHANGED <<entry, arg, own>>
  BY DEF SkipNext, SetNext, SetNextFails, SkipFirst, Finish, store,
         PutNext, PutOrder, Written
<1>2. pc'[r] \in Written \cup Ended
  BY DEF SkipNext, SetNext, SetNextFails, SkipFirst, Finish,
         Continue, Raise, Return, Goto, IInv, TypeOK, Written, Ended
<1>3. /\ pc'[r] \notin BeforeWrite \cup {"setpath", "setdesc", "parse", "write"}
  BY <1>2 DEF Written, Ended, BeforeWrite
<1> QED BY <1>1, <1>3, EntryLeftAlone

\* The write: the entry is complete.
LEMMA WriteStep ==
  ASSUME IInv, CInv, NEW r \in Runs, WriteEntry(r)
  PROVE  OwnEntry(r)'
<1>1. /\ pc[r] = "write" /\ pc'[r] = "next" /\ UNCHANGED <<arg, own>>
      /\ PutEntry(name[r], NewData(r))
  BY DEF WriteEntry, Continue, Goto, IInv, TypeOK
<1>2. own[r] \in Names /\ name[r] = own[r] /\ own[r] # None
  <2>1. own[r] \in Names /\ name[r] = own[r]
    BY <1>1, OwnKnown DEF AfterName
  <2> QED BY <2>1, SentinelAssumption
<1>3. entry'[own[r]] = NewData(r)
  BY <1>1, <1>2 DEF PutEntry, IInv, TypeOK
<1>4. ByApi(r) => Complete(r)'
  <2> SUFFICES ASSUME ByApi(r) PROVE AsRequested(NewData(r), arg[r])
    BY <1>1, <1>2, <1>3 DEF Complete
  <2>1. PICK fpl \in Templates : data[r] = Copied(r, fpl)
    BY <1>1 DEF CInv, OwnEntry, Draft
  <2>2. Refused(Parse(Copied(r, fpl))) = 0
    BY <1>1, <2>1 DEF CInv, OwnEntry
  <2>3. Len(fpl) >= 2 /\ \A i \in 1..(Len(fpl) - 1) : NodeOk(fpl[i])
    BY <2>2, AcceptedCopy
  <2>4. arg[r] \in Requests /\ ~arg[r].pathByBcd
    BY DEF ByApi, IInv, TypeOK
  <2>5. NewData(r) = Payload(arg[r].description, Repathed(fpl, arg[r].path), arg[r].metadata)
    BY <2>1, <2>3, <2>4, NewDataIs
  <2> QED BY <2>3, <2>4, <2>5, RewrittenCopy
<1>5. ByApi(r)' <=> ByApi(r)
  BY <1>1 DEF ByApi
<1> QED BY <1>1, <1>4, <1>5 DEF OwnEntry, BeforeWrite

\* bcdedit sets path and description only in the other mode.
LEMMA BcdSetStep ==
  ASSUME IInv, CInv, NEW r \in Runs, SetPath(r) \/ SetDescription(r)
  PROVE  OwnEntry(r)'
<1>1. pc[r] \in {"setpath", "setdesc"} /\ UNCHANGED <<arg, own>>
  BY DEF SetPath, SetDescription
<1>2. ~ByApi(r) /\ ~ByApi(r)'
  BY <1>1 DEF CInv, OwnEntry, ByApi
<1>3. pc'[r] # "write"
  BY DEF SetPath, SetDescription, Continue, Fail, Raise, Return, Goto, IInv, TypeOK
<1> QED BY <1>2, <1>3 DEF OwnEntry

\* The copy is a draft, and nothing points at the name it takes.
LEMMA CopyStep ==
  ASSUME IInv, CInv, NEW r \in Runs, CopyEntry(r)
  PROVE  OwnEntry(r)'
<1>1. PICK n \in Names, fpl \in Templates, listed \in BOOLEAN :
        /\ FreeName(n)
        /\ BcdCopy(n, TmpDescription(r), fpl, WinOptData, listed)
        /\ own' = [own EXCEPT ![r] = n]
        /\ \/ Continue(r, "order")
           \/ Fail(r, 1, <<>>)
           \/ Raise(r, 1)
  BY DEF CopyEntry
<1>2. own'[r] = n /\ entry'[n] = Copied(r, fpl) /\ UNCHANGED bootNext
  <2>1. entry'[n] = <<Attributes, LengthCell(Len(fpl)), Description(TmpDescription(r))>>
                       \o fpl \o WinOptData
    BY <1>1 DEF BcdCopy, IInv, TypeOK
  <2> QED BY <1>1, <2>1 DEF BcdCopy, Copied, Payload, IInv, TypeOK
<1>3. bootNext # n
  <2> SUFFICES ASSUME bootNext = n PROVE FALSE
    OBVIOUS
  <2>1. n # NoVar
    BY <1>1, SentinelAssumption
  <2>2. PICK q \in Runs : own[q] = n
    BY <2>1 DEF CInv, ArmedIsOwn
  <2>3. own[q] # None
    BY <2>2, SentinelAssumption
  <2> QED BY <1>1, <2>2, <2>3 DEF IInv, OwnExists, FreeName
<1>4. \/ pc'[r] = "order"
      \/ pc'[r] = "raised"
      \/ pc'[r] = "returned" /\ outcome'[r].step # 0
  <2>1. pc \in [Runs -> Steps \cup Ended] /\ DOMAIN outcome = Runs
    BY DEF IInv, TypeOK, CInv
  <2> QED BY <1>1, <2>1 DEF Continue, Fail, Raise, Return, Goto
<1>5. ~Succeeded(r)'
  BY <1>4 DEF Succeeded
<1>6. Draft(r, entry'[own'[r]])
  BY <1>2 DEF Draft
<1> QED BY <1>2, <1>3, <1>4, <1>5, <1>6 DEF OwnEntry, Written

\* One step of the run itself.
LEMMA OwnRunStep ==
  ASSUME IInv, CInv, NEW r \in Runs, Step(r) \/ Kill(r)
  PROVE  OwnEntry(r)'
<1>1. CASE \/ CopyFails(r) \/ ReadOrderFails(r) \/ ScanRaises(r) \/ ReadEntryRaises(r)
           \/ WriteEntryFails(r) \/ AddFirstRaises(r) \/ Kill(r)
  <2>1. UNCHANGED <<entry, bootNext, arg, own>>
    BY <1>1 DEF CopyFails, ReadOrderFails, ScanRaises, ReadEntryRaises, WriteEntryFails,
                AddFirstRaises, Kill, store, local
  <2>2. \/ \E step, payload : step # 0 /\ Fail(r, step, payload)
        \/ \E step : Raise(r, step)
        \/ Goto(r, "killed")
    <3>1. 1 # 0 /\ 13 # 0
      OBVIOUS
    <3> QED BY <1>1, <3>1 DEF CopyFails, ReadOrderFails, ScanRaises, ReadEntryRaises,
                              WriteEntryFails, AfterRefusedWrite, AddFirstRaises, Kill
  <2> QED BY <2>1, <2>2, EndsBadly
<1>2. CASE \/ SkipNext(r) \/ SetNext(r) \/ SetNextFails(r)
           \/ SkipFirst(r) \/ Finish(r)
  BY <1>2, AfterWriteStep
<1>3. CASE ReadOrder(r) \/ ScanName(r) \/ ScanEnd(r)
  BY <1>3, ScanStep
<1>4. CASE SetPath(r) \/ SetDescription(r)
  BY <1>4, BcdSetStep
<1>5. CASE CopyEntry(r)
  BY <1>5, CopyStep
<1>6. CASE ReadEntry(r)
  BY <1>6, ReadStep
<1>7. CASE CheckEntry(r)
  BY <1>7, CheckStep
<1>8. CASE WriteEntry(r)
  BY <1>8, WriteStep
<1> QED BY <1>1, <1>2, <1>3, <1>4, <1>5, <1>6, <1>7, <1>8 DEF Step

\* The inductive invariant: until its run writes it an entry is what bcdedit
\* copied, afterwards it is complete, and BootNext points at entries of runs.
THEOREM CompletionInvariant == Spec => []CInv
<1>1. ASSUME IInv, IInv', CInv, [Next]_vars PROVE CInv'
  <2>1. CASE UNCHANGED vars
    <3>1. UNCHANGED <<bootNext, entry, pc, arg, data, outcome, own>>
      BY <2>1 DEF vars, local
    <3>2. ASSUME NEW r \in Runs PROVE OwnEntry(r)'
      <4>1. OwnEntry(r)
        BY <1>1 DEF CInv
      <4> QED BY <3>1, <4>1 DEF OwnEntry, ByApi, Succeeded, Complete
    <3> QED BY <1>1, <3>1, <3>2 DEF CInv, ArmedIsOwn
  <2>2. ASSUME NEW q \in Runs, Step(q) \/ Kill(q) PROVE CInv'
    <3>1. ASSUME NEW r \in Runs PROVE OwnEntry(r)'
      BY <1>1, <2>2, OwnRunStep, OtherRunStep
    <3>2. ArmedIsOwn' /\ DOMAIN outcome' = Runs
      BY <1>1, <2>2, ArmedIsOwnStep, StepFrame
    <3> QED BY <3>1, <3>2 DEF CInv
  <2>3. CASE DeleteForeign \/ Reorder
    BY <1>1, <2>3, OthersStep
  <2> QED BY <1>1, <2>1, <2>2, <2>3 DEF Next
<1>2. Init => CInv
  BY InitCInv
<1> QED BY <1>1, <1>2, EntryInvariant, PTL DEF Spec

\* BootNext never points at a half-made entry of a run in Windows API mode: a
\* failure, an exception or the end of the process at any point leaves it
\* either unarmed or armed with an entry that decodes to the request.
THEOREM NeverArmsHalfMade == Spec => []ArmedIsComplete
<1>1. CInv => ArmedIsComplete
  BY DEF CInv, OwnEntry, ByApi, ArmedIsComplete
<1> QED BY <1>1, CompletionInvariant, PTL

\* A call that succeeds in that mode leaves an entry that decodes to its path,
\* description and metadata, and other runs and programs let it be.
THEOREM SuccessKeepsItsWord == Spec => []SuccessIsAsRequested
<1>1. CInv => SuccessIsAsRequested
  BY DEF CInv, OwnEntry, ByApi, SuccessIsAsRequested
<1> QED BY <1>1, CompletionInvariant, PTL
-----------------------------------------------------------------------------
(***************************************************************************)
(* The detailed specification implements EntryLifecycle.                   *)
(***************************************************************************)

\* An entry of a run is a draft or built, and built after the write.
Settled(r) == own[r] # None => Built(r) \/ Draft(r, entry[own[r]])
RInv == \A r \in Runs : Settled(r) /\ (pc[r] \in Written => own[r] # None /\ Built(r))

AllByApi == \A q \in Requests : ~q.pathByBcd

LEMMA EveryByApi ==
  ASSUME IInv, AllByApi, NEW r \in Runs
  PROVE  ByApi(r)
BY DEF IInv, TypeOK, AllByApi, ByApi

\* set_evar_BootNNNN would build the payload that step 12 computes.
LEMMA PayloadIsBuilt ==
  ASSUME NEW fpl \in Templates, NEW q \in Requests
  PROVE  Payload(q.description, Repathed(fpl, q.path), q.metadata) =
           BuildLoadOption(q.description, Append(DeviceOf(fpl), FilePath(q.path)), q.metadata)
<1>1. DeviceOf(fpl) \in Seq(Cells)
  <2>1. fpl \in Seq(Cells)
    BY CellsEverywhere
  <2>2. Len(fpl) - 2 \in Int /\ Len(fpl) - 2 <= Len(fpl)
    BY <2>1
  <2> QED BY <2>1, <2>2 DEF DeviceOf
<1>2. FilePath(q.path) \in Cells /\ EndNode \in Cells
  BY RequestsAssumption, PathsArePlain, FixedCellsArePlain DEF CellsOf
<1>3. \A d \in Seq(Cells), a, b \in Cells :
        Append(Append(d, a), b) = d \o <<a, b>> /\ Len(Append(d, a)) + 1 = Len(d \o <<a, b>>)
  <2>1. ASSUME NEW d \in Seq(Cells), NEW a \in Cells, NEW b \in Cells
        PROVE  Append(Append(d, a), b) = d \o <<a, b>>
               /\ Len(Append(d, a)) + 1 = Len(d \o <<a, b>>)
    OBVIOUS
  <2> QED BY <2>1
<1>4. /\ Append(Append(DeviceOf(fpl), FilePath(q.path)), EndNode) = Repathed(fpl, q.path)
      /\ Len(Append(DeviceOf(fpl), FilePath(q.path))) + 1 = Len(Repathed(fpl, q.path))
  BY <1>1, <1>2, <1>3 DEF Repathed
<1> QED BY <1>4 DEF BuildLoadOption, Payload

\* The temporary description tells a draft.
LEMMA CopyIsNotBuilt ==
  ASSUME NEW r \in Runs, NEW f \in Templates, NEW q \in Requests, NEW g \in Templates
  PROVE  Copied(r, f) # BuildLoadOption(q.description,
                                        Append(DeviceOf(g), FilePath(q.path)), q.metadata)
<1> SUFFICES ASSUME Copied(r, f) = Payload(q.description, Repathed(g, q.path), q.metadata)
             PROVE  FALSE
  BY PayloadIsBuilt
<1>1. q.description \in Texts /\ q.path \in Texts \cup {TooLong} /\ q.metadata \in Seq(Cells)
  BY RequestsAssumption, CellsEverywhere
<1>2. Copied(r, f)[3] = Description(r)
  BY CellsEverywhere, PayloadParts DEF Copied, TmpDescription
<1>3. Copied(r, f)[3] = Description(q.description)
  <2>1. g \in Seq(Cells) /\ FilePath(q.path) \in Cells /\ EndNode \in Cells
    BY <1>1, CellsEverywhere, PathsArePlain, FixedCellsArePlain DEF CellsOf
  <2>2. <<FilePath(q.path), EndNode>> \in Seq(Cells)
    BY <2>1, ShortSeqs
  <2>3. DeviceOf(g) \in Seq(Cells)
    BY <2>1 DEF DeviceOf
  <2>4. Repathed(g, q.path) \in Seq(Cells)
    BY <2>2, <2>3 DEF Repathed
  <2> QED BY <1>1, <2>4, PayloadParts
<1>4. Description(r).val = r /\ Description(q.description).val = q.description
  BY DEF Description, Cell
<1> QED BY <1>1, <1>2, <1>3, <1>4, TextsAssumption

LEMMA DraftIsNotBuilt ==
  ASSUME IInv, NEW r \in Runs, Draft(r, entry[own[r]])
  PROVE  ~Built(r)
<1>1. arg[r] \in Requests
  BY DEF IInv, TypeOK
<1> QED BY <1>1, CopyIsNotBuilt DEF Draft, Built

\* What the abstract state depends on.
LEMMA SameState ==
  ASSUME NEW r \in Runs, arg'[r] = arg[r], own'[r] = own[r],
         own[r] # None => entry'[own[r]] = entry[own[r]]
  PROVE  /\ StateOf(r)' = StateOf(r)
         /\ own[r] # None => (Built(r)' <=> Built(r))
         /\ Settled(r)' <=> Settled(r)
<1>1. own[r] # None => (Built(r)' <=> Built(r))
  BY DEF Built
<1> QED BY <1>1 DEF StateOf, Settled

LEMMA SameArmed ==
  ASSUME UNCHANGED <<own, bootNext>>
  PROVE  ArmedRun' = ArmedRun
BY DEF ArmedRun, NoRun

\* Entries of runs are only changed by their own run.
LEMMA OwnOnly ==
  ASSUME IInv, IInv', NEW q \in Runs, Step(q) \/ Kill(q), NEW r \in Runs, r # q,
         own'[r] = own[r], own[r] # None
  PROVE  entry'[own[r]] = entry[own[r]]
<1> SUFFICES ASSUME entry'[own[r]] # entry[own[r]] PROVE FALSE
  OBVIOUS
<1>1. own[r] \in Names
  BY DEF IInv, TypeOK, NamesOrNone
<1>2. own'[r] = own'[q] /\ own'[r] # None
  BY <1>1, OwnWritesOnly
<1> QED BY <1>2 DEF IInv, OwnDistinct

\* The steps that are not seen in the abstract state.
Hidden(r) == \/ CopyFails(r)
             \/ ReadOrder(r) \/ ReadOrderFails(r)
             \/ ScanName(r) \/ ScanRaises(r) \/ ScanEnd(r)
             \/ ReadEntry(r) \/ ReadEntryRaises(r) \/ CheckEntry(r)
             \/ WriteEntryFails(r)
             \/ SkipNext(r) \/ SetNextFails(r)
             \/ SkipFirst(r) \/ AddFirstRaises(r)
             \/ Finish(r) \/ Kill(r)

LEMMA HiddenFrame ==
  ASSUME IInv, NEW r \in Runs, Hidden(r)
  PROVE  /\ UNCHANGED <<entry, bootNext, own, arg>>
         /\ pc'[r] \in Written => pc[r] \in Written
<1>1. UNCHANGED <<entry, bootNext, own, arg>>
  BY DEF Hidden, Kill, CopyFails, ReadOrder, ReadOrderFails, ScanName, ScanRaises,
         ScanEnd, ReadEntry, ReadEntryRaises, CheckEntry, WriteEntryFails, SkipNext,
         SetNextFails, SkipFirst, AddFirstRaises, Finish,
         local, store, PutOrder
<1>2. pc \in [Runs -> Steps \cup Ended]
  BY DEF IInv, TypeOK
<1>3. pc'[r] \in Written => pc[r] \in Written
  <2>1. SUFFICES ASSUME pc[r] \notin Written PROVE pc'[r] \notin Written
    OBVIOUS
  <2>2. \/ Kill(r) \/ CopyFails(r) \/ ReadOrder(r) \/ ReadOrderFails(r)
        \/ ScanName(r) \/ ScanRaises(r) \/ ScanEnd(r)
        \/ ReadEntry(r) \/ ReadEntryRaises(r) \/ CheckEntry(r) \/ WriteEntryFails(r)
    BY <2>1 DEF Hidden, SkipNext, SetNextFails, SkipFirst, AddFirstRaises,
                Finish, Written
  <2>3. pc'[r] \in Ended \cup {"scan", "setpath", "read", "parse", "write"}
    BY <1>2, <2>2 DEF Kill, CopyFails, ReadOrder, ReadOrderFails, ScanName, Scanning,
                ScanRaises, ScanEnd, AfterScan, ReadEntry, ReadEntryRaises, CheckEntry,
                WriteEntryFails, AfterRefusedWrite, Fail, Raise, Return, Continue, Goto, Ended
  <2> QED BY <2>3 DEF Written, Ended
<1> QED BY <1>1, <1>3

States == [r \in Runs |-> StateOf(r)]
\* A step of the specification is one of the abstract one, or is not seen by it.
Seen == [Lifecycle!Next]_<<States, ArmedRun>>

LEMMA Unseen ==
  ASSUME RInv, UNCHANGED <<own, arg, bootNext>>,
         \A r \in Runs : own[r] # None => entry'[own[r]] = entry[own[r]],
         \A r \in Runs : pc'[r] \in Written => pc[r] \in Written
  PROVE  RInv' /\ Seen
<1>1. ASSUME NEW r \in Runs
      PROVE /\ StateOf(r)' = StateOf(r)
            /\ (Settled(r) /\ (pc[r] \in Written => own[r] # None /\ Built(r)))'
  <2>1. /\ StateOf(r)' = StateOf(r) /\ (Settled(r)' <=> Settled(r))
        /\ own[r] # None => (Built(r)' <=> Built(r))
    BY SameState
  <2>2. Settled(r) /\ (pc[r] \in Written => own[r] # None /\ Built(r))
    BY DEF RInv
  <2> QED BY <2>1, <2>2
<1>2. States' = States
  BY <1>1 DEF States
<1>3. ArmedRun' = ArmedRun
  BY SameArmed
<1> QED BY <1>1, <1>2, <1>3 DEF RInv, Seen

\* The copy makes a draft under a name that nothing points at,
LEMMA CopySeen ==
  ASSUME IInv, IInv', CInv, CInv', RInv, AllByApi, NEW q \in Runs, CopyEntry(q)
  PROVE  RInv' /\ Seen
<1>1. Step(q) /\ pc[q] = "copy" /\ own[q] = None
  BY DEF Step, CopyEntry, IInv, Progress
<1>2. PICK n \in Names, fpl \in Templates, listed \in BOOLEAN :
        /\ FreeName(n)
        /\ BcdCopy(n, TmpDescription(q), fpl, WinOptData, listed)
        /\ own' = [own EXCEPT ![q] = n]
        /\ \/ Continue(q, "order")
           \/ Fail(q, 1, <<>>)
           \/ Raise(q, 1)
  BY DEF CopyEntry
<1>3. UNCHANGED <<arg, bootNext>>
  BY <1>2 DEF CopyEntry, BcdCopy
<1>4. own'[q] = n /\ n # None /\ \A r \in Runs : r # q => own'[r] = own[r]
  BY <1>2, SentinelAssumption DEF IInv, TypeOK
<1>5. Draft(q, entry'[n])
  <2>1. entry'[n] = <<Attributes, LengthCell(Len(fpl)), Description(TmpDescription(q))>>
                       \o fpl \o WinOptData
    BY <1>2 DEF BcdCopy, IInv, TypeOK
  <2> QED BY <2>1 DEF Draft, Copied, Payload
<1>6. ~Built(q)'
  <2>1. PICK f \in Templates : entry'[own'[q]] = Copied(q, f)
    BY <1>4, <1>5 DEF Draft
  <2>2. arg'[q] \in Requests
    BY DEF IInv, TypeOK
  <2>3. \A g \in Templates :
          entry'[own'[q]] # BuildLoadOption(arg'[q].description,
                                            Append(DeviceOf(g), FilePath(arg'[q].path)),
                                            arg'[q].metadata)
    BY <2>1, <2>2, CopyIsNotBuilt
  <2> QED BY <2>3 DEF Built
<1>7. pc'[q] \notin Written /\ \A r \in Runs : r # q => pc'[r] = pc[r]
  <2>1. pc'[q] \in Ended \cup {"order"}
    BY <1>2 DEF Continue, Fail, Raise, Return, Goto, Ended, IInv, TypeOK
  <2> QED BY <2>1, <1>1, OwnWritesOnly DEF Ended, Written
<1>8. ASSUME NEW r \in Runs, r # q
      PROVE  /\ StateOf(r)' = StateOf(r) /\ (Settled(r)' <=> Settled(r))
             /\ own[r] # None => (Built(r)' <=> Built(r))
  BY <1>1, <1>3, <1>4, <1>8, OwnOnly, SameState
<1>9. StateOf(q) = "none" /\ StateOf(q)' = "draft" /\ Settled(q)'
  BY <1>1, <1>4, <1>5, <1>6 DEF StateOf, Settled, Draft, Copied, Payload
<1>10. ArmedRun' = ArmedRun
  <2>1. bootNext # n
    <3> SUFFICES ASSUME bootNext = n PROVE FALSE
      OBVIOUS
    <3>1. n # NoVar
      BY SentinelAssumption
    <3>2. PICK r \in Runs : own[r] = n
      BY <3>1 DEF CInv, ArmedIsOwn
    <3>3. own[r] # None
      BY <3>2, SentinelAssumption
    <3> QED BY <1>2, <3>2, <3>3 DEF IInv, OwnExists, FreeName
  <2>2. \A r \in Runs : (own'[r] # None /\ own'[r] = bootNext) <=> (own[r] # None /\ own[r] = bootNext)
    BY <1>1, <1>4, <2>1
  <2> QED BY <1>3, <2>2 DEF ArmedRun, NoRun
<1>11. States[q] = "none" /\ States' = [States EXCEPT ![q] = "draft"]
  BY <1>8, <1>9 DEF States
<1>12. RInv'
  <2>1. ASSUME NEW r \in Runs
        PROVE  (Settled(r) /\ (pc[r] \in Written => own[r] # None /\ Built(r)))'
    <3>1. CASE r = q
      BY <3>1, <1>7, <1>9
    <3>2. CASE r # q
      <4>1. Settled(r) /\ (pc[r] \in Written => own[r] # None /\ Built(r))
        BY DEF RInv
      <4>2. own'[r] = own[r] /\ pc'[r] = pc[r]
        BY <1>4, <1>7, <3>2
      <4> QED BY <1>8, <3>2, <4>1, <4>2
    <3> QED BY <3>1, <3>2
  <2> QED BY <2>1 DEF RInv
<1> QED BY <1>10, <1>11, <1>12 DEF Seen, Lifecycle!Next, Lifecycle!Copy, States

\* the write completes it,
LEMMA WriteSeen ==
  ASSUME IInv, IInv', CInv, RInv, AllByApi, NEW q \in Runs, WriteEntry(q)
  PROVE  RInv' /\ Seen
<1>1. /\ pc[q] = "write" /\ pc'[q] = "next" /\ UNCHANGED <<arg, own, bootNext>>
      /\ PutEntry(name[q], NewData(q)) /\ Step(q)
  BY DEF WriteEntry, PutEntry, Continue, Goto, IInv, TypeOK, Step
<1>2. own[q] \in Names /\ name[q] = own[q] /\ own[q] # None
  <2>1. own[q] \in Names /\ name[q] = own[q]
    BY <1>1, OwnKnown DEF AfterName
  <2> QED BY <2>1, SentinelAssumption
<1>3. entry'[own[q]] = NewData(q)
  BY <1>1, <1>2 DEF PutEntry, IInv, TypeOK
<1>4. ByApi(q)
  BY EveryByApi
<1>5. Built(q)'
  <2>1. PICK fpl \in Templates : data[q] = Copied(q, fpl)
    BY <1>1, <1>4 DEF CInv, OwnEntry, Draft
  <2>2. Refused(Parse(Copied(q, fpl))) = 0
    BY <1>1, <2>1 DEF CInv, OwnEntry
  <2>3. Len(fpl) >= 2 /\ \A i \in 1..(Len(fpl) - 1) : NodeOk(fpl[i])
    BY <2>2, AcceptedCopy
  <2>4. arg[q] \in Requests /\ ~arg[q].pathByBcd
    BY <1>4 DEF ByApi, IInv, TypeOK
  <2>5. NewData(q) = Payload(arg[q].description, Repathed(fpl, arg[q].path), arg[q].metadata)
    BY <2>1, <2>3, <2>4, NewDataIs
  <2>6. NewData(q) = BuildLoadOption(arg[q].description,
                                     Append(DeviceOf(fpl), FilePath(arg[q].path)),
                                     arg[q].metadata)
    BY <2>4, <2>5, PayloadIsBuilt
  <2>7. entry'[own'[q]] = BuildLoadOption(arg'[q].description,
                                     Append(DeviceOf(fpl), FilePath(arg'[q].path)),
                                     arg'[q].metadata)
    BY <1>1, <1>3, <2>6
  <2> QED BY <2>7 DEF Built
<1>6. Draft(q, entry[own[q]]) /\ ~Built(q)
  BY <1>1, <1>4, DraftIsNotBuilt DEF CInv, OwnEntry, BeforeWrite
<1>7. StateOf(q) = "draft" /\ StateOf(q)' = "ready" /\ Settled(q)'
  BY <1>1, <1>2, <1>5, <1>6 DEF StateOf, Settled
<1>8. ASSUME NEW r \in Runs, r # q
      PROVE  /\ StateOf(r)' = StateOf(r) /\ (Settled(r)' <=> Settled(r))
             /\ own[r] # None => (Built(r)' <=> Built(r))
             /\ pc'[r] = pc[r]
  BY <1>1, <1>8, OwnOnly, OwnWritesOnly, SameState
<1>9. ArmedRun' = ArmedRun
  BY <1>1, SameArmed
<1>10. States[q] = "draft" /\ States' = [States EXCEPT ![q] = "ready"]
  BY <1>7, <1>8 DEF States
<1>11. RInv'
  BY <1>1, <1>2, <1>5, <1>7, <1>8 DEF RInv
<1> QED BY <1>9, <1>10, <1>11 DEF Seen, Lifecycle!Next, Lifecycle!Complete, States

\* and only then BootNext is set.
LEMMA ArmSeen ==
  ASSUME IInv, IInv', CInv, RInv, NEW q \in Runs, SetNext(q)
  PROVE  RInv' /\ Seen
<1>1. /\ pc[q] = "next" /\ pc'[q] = "first" /\ UNCHANGED <<arg, own, entry>>
      /\ bootNext' = NextTarget(q) /\ Step(q)
  BY DEF SetNext, PutNext, Continue, Goto, IInv, TypeOK, Step
<1>2. own[q] \in Names /\ guid[q] = own[q] /\ name[q] = own[q] /\ own[q] # None
  <2>1. own[q] \in Names /\ guid[q] = own[q] /\ name[q] = own[q]
    BY <1>1, OwnKnown DEF AfterName
  <2> QED BY <2>1, SentinelAssumption
<1>3. bootNext' = own[q]
  BY <1>1, <1>2 DEF NextTarget
<1>4. Built(q)
  BY <1>1 DEF RInv, Written
<1>5. ASSUME NEW r \in Runs
      PROVE  /\ StateOf(r)' = StateOf(r) /\ (Settled(r)' <=> Settled(r))
             /\ own[r] # None => (Built(r)' <=> Built(r))
  BY <1>1, SameState
<1>6. ArmedRun' = q
  <2>1. \A r \in Runs : own[r] # None /\ own[r] = own[q] => r = q
    BY DEF IInv, OwnDistinct
  <2>2. \A r \in Runs : (own'[r] # None /\ own'[r] = bootNext') <=> r = q
    BY <1>1, <1>2, <1>3, <2>1
  <2>3. (CHOOSE r \in Runs : own'[r] # None /\ own'[r] = bootNext') = q
    BY <2>2
  <2> QED BY <2>2, <2>3 DEF ArmedRun
<1>7. States[q] = "ready" /\ States' = States
  BY <1>2, <1>4, <1>5 DEF States, StateOf
<1>8. RInv'
  <2>1. ASSUME NEW r \in Runs
        PROVE  (Settled(r) /\ (pc[r] \in Written => own[r] # None /\ Built(r)))'
    <3>1. Settled(r) /\ (pc[r] \in Written => own[r] # None /\ Built(r))
      BY DEF RInv
    <3>2. pc'[r] \in Written => pc[r] \in Written
      BY <1>1, OwnWritesOnly DEF Written
    <3> QED BY <1>1, <1>5, <3>1, <3>2
  <2> QED BY <2>1 DEF RInv
<1> QED BY <1>6, <1>7, <1>8 DEF Seen, Lifecycle!Next, Lifecycle!Arm, States

\* Every step is seen as one of the life cycle or not at all.
LEMMA EveryStepSeen ==
  ASSUME IInv, IInv', CInv, CInv', RInv, AllByApi, [Next]_vars
  PROVE  RInv' /\ Seen
<1>1. CASE UNCHANGED vars
  BY <1>1, Unseen DEF vars, local
<1>2. ASSUME NEW q \in Runs, Step(q) \/ Kill(q) PROVE RInv' /\ Seen
  <2>1. CASE CopyEntry(q)
    BY <2>1, CopySeen
  <2>2. CASE WriteEntry(q)
    BY <2>2, WriteSeen
  <2>3. CASE SetNext(q)
    BY <2>3, ArmSeen
  <2>4. CASE SetPath(q) \/ SetDescription(q)
    <3>1. pc[q] \in {"setpath", "setdesc"}
      BY <2>4 DEF SetPath, SetDescription
    <3> QED BY <3>1, EveryByApi DEF CInv, OwnEntry
  <2>5. CASE Hidden(q)
    <3>1. UNCHANGED <<entry, bootNext, own, arg>> /\ (pc'[q] \in Written => pc[q] \in Written)
      BY <2>5, HiddenFrame
    <3>2. \A r \in Runs : pc'[r] \in Written => pc[r] \in Written
      BY <1>2, <3>1, OwnWritesOnly
    <3> QED BY <3>1, <3>2, Unseen
  <2> QED BY <1>2, <2>1, <2>2, <2>3, <2>4, <2>5 DEF Step, Hidden
<1>3. CASE DeleteForeign \/ Reorder
  <2>1. UNCHANGED <<bootNext, pc, arg, own>>
    BY <1>3 DEF DeleteForeign, Reorder, local
  <2>2. ASSUME NEW r \in Runs, own[r] # None PROVE entry'[own[r]] = entry[own[r]]
    <3>1. CASE Reorder
      BY <3>1 DEF Reorder
    <3>2. CASE DeleteForeign
      <4>1. PICK n \in Names : NotOurs(n) /\ entry' = [entry EXCEPT ![n] = NoVar]
        BY <3>2 DEF DeleteForeign
      <4>2. own[r] \in Names /\ own[r] # n
        BY <2>2, <4>1 DEF IInv, TypeOK, NamesOrNone, NotOurs
      <4> QED BY <4>1, <4>2 DEF IInv, TypeOK
    <3> QED BY <1>3, <3>1, <3>2
  <2> QED BY <2>1, <2>2, Unseen
<1> QED BY <1>1, <1>2, <1>3 DEF Next

LEMMA InitSeen ==
  ASSUME Init
  PROVE  RInv /\ Lifecycle!Init
<1>1. \A r \in Runs : own[r] = None /\ pc[r] = "copy"
  BY DEF Init
<1>2. RInv
  BY <1>1 DEF RInv, Settled, Written
<1>3. \A r \in Runs : StateOf(r) = "none"
  BY <1>1 DEF StateOf
<1>4. ArmedRun = NoRun
  BY <1>1 DEF ArmedRun
<1> QED BY <1>2, <1>3, <1>4 DEF Lifecycle!Init

\* When all calls use the Windows API for path and description, every behaviour of
\* any number of them, with the steps of other programs, is one of the life cycle.
THEOREM ImplementsTheLifecycle ==
  ASSUME AllByApi
  PROVE  Spec => ImplementsLifecycle
<1>1. Init => RInv /\ Lifecycle!Init
  BY InitSeen
<1>2. IInv /\ IInv' /\ CInv /\ CInv' /\ RInv /\ [Next]_vars =>
        RInv' /\ [Lifecycle!Next]_<<[r \in Runs |-> StateOf(r)], ArmedRun>>
  BY EveryStepSeen DEF Seen, States
<1> QED BY <1>1, <1>2, EntryInvariant, CompletionInvariant, PTL
        DEF Spec, ImplementsLifecycle, Lifecycle!Spec
=============================================================================
