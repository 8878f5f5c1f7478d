------------------------- MODULE LocateEntryProofs --------------------------
(***************************************************************************)
(* Proofs about LocateEntry, for boot orders and variables of any length   *)
(* and whatever other programs write while it reads.                       *)
(*                                                                         *)
(* The argument: the search depends on nothing but what its reads gave, so *)
(* the invariant counts, in what was seen so far, the positions that have  *)
(* all the hints (none, one, more), and "found" follows that count.  When  *)
(* nobody wrote, what was seen is what is stored.                          *)
(***************************************************************************)
EXTENDS LocateEntry, SequenceTheorems, TLAPS

NoneGiven == ~Given(hint.description) /\ ~Given(hint.filepath) /\ ~Given(hint.metadata)

\* The position k of what was seen is the one that was kept.
Kept(k) == found[1] = <<order[k], seen[k]>> /\ HasHints(seen[k])

\* All hints: found follows the number of positions that have them.
Counted ==
    /\ Len(found) = 0 => \A k \in 1..Len(seen) : ~HasHints(seen[k])
    /\ Len(found) = 1 => \E k \in 1..Len(seen) :
                            Kept(k) /\ \A j \in 1..Len(seen) : HasHints(seen[j]) => j = k
    /\ Len(found) > 1 => \E j, k \in 1..Len(seen) :
                            j # k /\ HasHints(seen[j]) /\ HasHints(seen[k])
\* Metadata alone: the first is kept.
FirstKept == /\ Len(found) <= 1
             /\ Len(found) = 1 => \E k \in 1..Len(seen) : Kept(k)

Checked == IF OneFound THEN (IF hint.content THEN found[1] ELSE <<found[1][1]>>)
           ELSE IF MetadataOnly THEN NotFound ELSE None

Scanned == ~MetadataOnly => Len(seen) = Len(order)

\* What was seen is stored still.
SeenIsStored == \A k \in 1..Len(seen) :
                    seen[k] = None \/ (Exists(order[k]) /\ seen[k] = entry[order[k]])

Shape == /\ order \in Seq(Names)
         /\ seen \in Seq(Contents \cup {None})
         /\ found \in Seq(Names \X (Contents \cup {None}))

Progress == /\ pc \in {"args", "order"} => seen = <<>> /\ found = <<>> /\ i = 1
            /\ pc = "args" => order = <<>>
            /\ pc = "scan" => i = Len(seen) + 1 /\ (MetadataOnly => found = <<>>)
            /\ pc = "check" => Scanned
            /\ pc = "ended" => \/ NoneGiven /\ result = NotFound
                               \/ MetadataOnly /\ result = Raised
                               \/ Scanned /\ result = Checked

IInv == /\ TypeOK /\ Shape /\ Progress
        /\ BufferBounded
        /\ IF MetadataOnly THEN FirstKept ELSE Counted
        /\ ~moved => SeenIsStored
-----------------------------------------------------------------------------
\* bytes.find finds a part exactly where it stands.
PartStands(data, part) ==
    \E k \in 1..Len(data) : /\ k + Len(part) - 1 <= Len(data)
                            /\ \A j \in 1..Len(part) : data[k + j - 1] = part[j]

LEMMA FindsWhatStands ==
  ASSUME NEW S, NEW data \in Seq(S), data # <<>>, NEW part \in Seq(S)
  PROVE  Contains(data, part) <=> PartStands(data, part)
<1>1. Len(data) \in Nat \ {0} /\ Len(part) \in Nat
  OBVIOUS
<1>2. ASSUME Contains(data, part) PROVE PartStands(data, part)
  <2>1. PICK k \in 0..Len(data) - Len(part) : SubSeq(data, k + 1, k + Len(part)) = part
    BY <1>2 DEF Contains
  <2>2. CASE Len(part) = 0
    <3>1. 1 \in 1..Len(data) /\ 1 + Len(part) - 1 <= Len(data)
      BY <1>1, <2>2
    <3>2. \A j \in 1..Len(part) : FALSE
      BY <2>2
    <3> QED BY <3>1, <3>2 DEF PartStands
  <2>3. CASE Len(part) # 0
    <3>1. k + 1 \in 1..Len(data) /\ k + 1 + Len(part) - 1 <= Len(data)
      BY <1>1, <2>1, <2>3
    <3>2. \A j \in 1..Len(part) : SubSeq(data, k + 1, k + Len(part))[j] = data[k + 1 + j - 1]
      BY <1>1, <2>1
    <3> QED BY <2>1, <3>1, <3>2 DEF PartStands
  <2> QED BY <2>2, <2>3
<1>3. ASSUME PartStands(data, part) PROVE Contains(data, part)
  <2>1. PICK k \in 1..Len(data) : /\ k + Len(part) - 1 <= Len(data)
                                  /\ \A j \in 1..Len(part) : data[k + j - 1] = part[j]
    BY <1>3 DEF PartStands
  <2> DEFINE l == k - 1
             t == SubSeq(data, l + 1, l + Len(part))
  <2>2. l \in 0..Len(data) - Len(part)
    BY <1>1, <2>1
  <2>3. t \in Seq(S) /\ Len(t) = Len(part) /\ \A j \in 1..Len(part) : t[j] = data[k + j - 1]
    BY <1>1, <2>1
  <2> HIDE DEF t
  <2>4. t = part
    BY <2>1, <2>3, SeqEqual
  <2> QED BY <2>2, <2>4 DEF t, Contains
<1> QED BY <1>2, <1>3

\* The hints are texts where they are given.
LEMMA HintParts ==
  ASSUME hint \in Hints
  PROVE  /\ Given(hint.description) => DescriptionBytes \in Seq(STRING)
         /\ Given(hint.filepath) => PathNode \in Seq(STRING)
         /\ Given(hint.metadata) => hint.metadata \in Seq(STRING)
<1>1. /\ Given(hint.description) => hint.description \in Seq(STRING)
      /\ Given(hint.filepath) => hint.filepath \in Seq(STRING)
      /\ Given(hint.metadata) => hint.metadata \in Seq(STRING)
  BY HintsAssumption DEF Given
<1>2. Nul \in STRING /\ PathHeader \in STRING
  BY ContentsAssumption
<1>3. Given(hint.description) => DescriptionBytes \in Seq(STRING)
  BY <1>1, <1>2 DEF DescriptionBytes
<1>4. ASSUME Given(hint.filepath) PROVE PathNode \in Seq(STRING)
  <2>1. Append(hint.filepath, Nul) \in Seq(STRING) /\ <<PathHeader>> \in Seq(STRING)
    BY <1>1, <1>2, <1>4
  <2> QED BY <2>1 DEF PathNode
<1> QED BY <1>1, <1>3, <1>4

\* The loop's test is having the hints.
LEMMA FitsIsHasHints ==
  ASSUME hint \in Hints, NEW data \in Contents, data # None
  PROVE  Fits(data) <=> HasHints(data)
<1>1. data \in Seq(STRING) /\ data # <<>>
  BY ContentsAssumption
<1>2. /\ Given(hint.description) => (Contains(data, DescriptionBytes) <=> PartStands(data, DescriptionBytes))
      /\ Given(hint.filepath) => (Contains(data, PathNode) <=> PartStands(data, PathNode))
      /\ Given(hint.metadata) => (Contains(data, hint.metadata) <=> PartStands(data, hint.metadata))
  BY <1>1, HintParts, FindsWhatStands
<1>3. /\ Given(hint.description) => (PartStands(data, DescriptionBytes) <=>
            Stands(data, IF Given(hint.description) THEN DescriptionBytes ELSE <<>>, hint.description))
      /\ Given(hint.filepath) => (PartStands(data, PathNode) <=>
            Stands(data, IF Given(hint.filepath) THEN PathNode ELSE <<>>, hint.filepath))
      /\ Given(hint.metadata) => (PartStands(data, hint.metadata) <=>
            Stands(data, IF Given(hint.metadata) THEN hint.metadata ELSE <<>>, hint.metadata))
  BY DEF PartStands, Stands, Given
<1>4. /\ ~Given(hint.description) => Stands(data, IF Given(hint.description) THEN DescriptionBytes ELSE <<>>, hint.description)
      /\ ~Given(hint.filepath) => Stands(data, IF Given(hint.filepath) THEN PathNode ELSE <<>>, hint.filepath)
      /\ ~Given(hint.metadata) => Stands(data, IF Given(hint.metadata) THEN hint.metadata ELSE <<>>, hint.metadata)
  BY DEF Stands, Given
<1> QED BY Zenon, <1>2, <1>3, <1>4 DEF Fits, HasHints

\* A slice's index is inside the data.
LEMMA IndexInside ==
  ASSUME NEW n \in Nat, NEW k \in Int
  PROVE  PyIndex(n, k) \in 0..n
BY DEF PyIndex

\* Neither does metadata alone take an entry that lacks it.
LEMMA EndIsHint ==
  ASSUME hint \in Hints, NEW data \in Contents, data # None,
         MetadataOnly, EndsWithMetadata(data)
  PROVE  HasHints(data)
<1> DEFINE part == hint.metadata
           a == PyIndex(Len(data), Len(data) - Len(part))
           b == PyIndex(Len(data), -1)
<1>1. data \in Seq(STRING) /\ data # <<>> /\ part \in Seq(STRING)
  BY ContentsAssumption, HintParts DEF MetadataOnly
<1>2. Len(data) \in Nat \ {0} /\ Len(part) \in Nat
  BY <1>1
<1>3. a \in 0..Len(data) /\ b \in 0..Len(data)
  <2>1. Len(data) - Len(part) \in Int /\ -1 \in Int
    BY <1>2
  <2> QED BY <1>2, <2>1, IndexInside
<1>4. SubSeq(data, a + 1, b) = part
  BY DEF EndsWithMetadata, PySlice
<1> HIDE DEF a, b, part
<1>5. PartStands(data, part)
  <2>1. CASE Len(part) = 0
    <3>1. 1 \in 1..Len(data) /\ 1 + Len(part) - 1 <= Len(data)
      BY <1>2, <2>1
    <3>2. \A j \in 1..Len(part) : FALSE
      BY <2>1
    <3> QED BY <3>1, <3>2 DEF PartStands
  <2>2. CASE Len(part) # 0
    <3>1. Len(SubSeq(data, a + 1, b)) = IF a + 1 <= b THEN b - a ELSE 0
      BY <1>1, <1>3
    <3>2. Len(part) = b - a /\ a + 1 <= b
      BY <1>2, <1>3, <1>4, <2>2, <3>1
    <3>3. \A j \in 1..Len(part) : SubSeq(data, a + 1, b)[j] = data[a + 1 + j - 1]
      BY <1>1, <1>3, <3>2
    <3>4. a + 1 \in 1..Len(data) /\ a + 1 + Len(part) - 1 <= Len(data)
      BY <1>2, <1>3, <3>2
    <3> QED BY <1>4, <3>3, <3>4 DEF PartStands
  <2> QED BY <2>1, <2>2
<1> QED BY <1>5 DEF HasHints, Stands, PartStands, MetadataOnly, Given, part
-----------------------------------------------------------------------------
LEMMA LengthsAreNat == Lengths \subseteq Nat /\ \E n \in Lengths \ {0} : \A m \in Lengths : m <= n
BY ContentsAssumption, OrdersAssumption, LengthsAssumption DEF Lengths

LEMMA BlockIsBounded ==
  ASSUME size' = Block
  PROVE  BufferBounded' /\ size' \in Nat
BY LengthsAreNat, BlockAssumption DEF BufferBounded

\* What is kept depends on the hints, the order and what was seen and found.
LEMMA SameFound ==
  ASSUME UNCHANGED <<hint, order, found, seen>>
  PROVE  /\ Counted' = Counted /\ FirstKept' = FirstKept /\ Checked' = Checked
         /\ MetadataOnly' = MetadataOnly /\ Scanned' = Scanned
         /\ NoneGiven' = NoneGiven /\ NotFound' = NotFound
<1>1. \A d : HasHints(d)' = HasHints(d)
  BY DEF HasHints, Stands, DescriptionBytes, PathNode, Given
<1>2. MetadataOnly' = MetadataOnly /\ NotFound' = NotFound /\ NoneGiven' = NoneGiven
  BY DEF MetadataOnly, NotFound, Given, NoneGiven
<1>3. Counted' = Counted /\ FirstKept' = FirstKept
  BY DEF Counted, FirstKept, Kept, HasHints, Stands, DescriptionBytes, PathNode, Given
<1>4. Checked' = Checked /\ Scanned' = Scanned
  BY <1>2 DEF Checked, OneFound, Scanned
<1> QED BY <1>2, <1>3, <1>4

\* The first state.
LEMMA InitHolds == Init => IInv
<1> SUFFICES ASSUME Init PROVE IInv
  OBVIOUS
<1>0. order = <<>> /\ seen = <<>> /\ found = <<>> /\ i = 1 /\ pc = "args"
  BY DEF Init
<1>4. Shape /\ Progress
  BY <1>0 DEF Shape, Progress
<1>5. Len(order) = 0 /\ Len(seen) = 0 /\ Len(found) = 0
  BY <1>0
<1>6. order \in InitOrders \cup {<<>>}
  BY <1>0
<1>1. TypeOK /\ Shape /\ Progress
  <2>1. i \in 1..(Len(order) + 1) /\ Len(seen) <= Len(order) /\ Len(found) <= Len(seen)
    BY <1>0, <1>5
  <2>2. size \in Nat /\ moved \in BOOLEAN /\ hint \in Hints /\ bootOrder \in InitOrders
        /\ entry \in [Names -> Contents \cup {NoVar}]
    BY BlockAssumption DEF Init
  <2> QED BY <1>0, <1>4, <1>6, <2>1, <2>2 DEF TypeOK
<1>2. BufferBounded
  BY LengthsAreNat, BlockAssumption DEF Init, BufferBounded
<1>3. FirstKept /\ Counted /\ SeenIsStored
  BY DEF Init, FirstKept, Counted, SeenIsStored
<1> QED BY <1>1, <1>2, <1>3 DEF IInv
-----------------------------------------------------------------------------
\* Asking again with a larger buffer.
LEMMA GrowKeeps ==
  ASSUME IInv, NEW d \in Contents \cup (InitOrders \ {NoVar}), GrowBuffer(d),
         UNCHANGED <<hint, pc, result>>
  PROVE  IInv'
<1>1. UNCHANGED <<store, hint, pc, order, i, found, result, seen, moved>>
  BY DEF GrowBuffer
<1>2. Len(d) \in Lengths /\ Len(d) > size /\ size' = size + Block
  BY DEF GrowBuffer, TooSmall, Enlarged, Lengths
<1>3. BufferBounded' /\ size' \in Nat
  BY <1>2, LengthsAreNat, BlockAssumption DEF IInv, BufferBounded, TypeOK
<1>4. TypeOK' /\ Shape'
  BY <1>1, <1>3 DEF IInv, TypeOK, Shape, store
<1>5. Progress' /\ (IF MetadataOnly THEN FirstKept ELSE Counted)'
  BY <1>1, SameFound DEF IInv, Progress
<1>6. (~moved => SeenIsStored)'
  BY <1>1 DEF IInv, SeenIsStored, Exists, store
<1> QED BY <1>3, <1>4, <1>5, <1>6 DEF IInv

\* A step that reads nothing.
LEMMA Quiet ==
  ASSUME IInv, UNCHANGED <<store, hint, size, order, i, found, seen, moved>>,
         pc' \in {"order", "check", "ended"}, Progress'
  PROVE  IInv'
<1>1. TypeOK' /\ Shape' /\ BufferBounded'
  BY DEF IInv, TypeOK, Shape, BufferBounded, store
<1>2. (IF MetadataOnly THEN FirstKept ELSE Counted)'
  BY SameFound DEF IInv
<1>3. (~moved => SeenIsStored)'
  BY DEF IInv, SeenIsStored, Exists, store
<1> QED BY <1>1, <1>2, <1>3 DEF IInv

LEMMA CheckArgumentsStep == IInv /\ CheckArguments => IInv'
<1> SUFFICES ASSUME IInv, CheckArguments PROVE IInv'
  OBVIOUS
<1>1. UNCHANGED <<store, hint, size, order, i, found, seen, moved>> /\ pc = "args"
  BY DEF CheckArguments
<1>2. CASE Goto("order")
  <2>1. Progress'
    BY <1>1, <1>2 DEF IInv, Progress, Goto
  <2> QED BY <1>1, <1>2, <2>1, Quiet DEF Goto
<1>3. CASE NoneGiven /\ End(NotFound)
  <2>1. Progress'
    BY <1>1, <1>3, SameFound DEF Progress, End
  <2> QED BY <1>1, <1>3, <2>1, Quiet DEF End
<1> QED BY <1>2, <1>3 DEF CheckArguments, NoneGiven

LEMMA ScanEndStep == IInv /\ ScanEnd => IInv'
<1> SUFFICES ASSUME IInv, ScanEnd PROVE IInv'
  OBVIOUS
<1>1. /\ UNCHANGED <<store, hint, size, order, i, found, seen, moved>>
      /\ pc = "scan" /\ i > Len(order) /\ pc' = "check"
  BY DEF ScanEnd, Goto
<1>2. Scanned
  BY <1>1 DEF IInv, TypeOK, Shape, Progress, Scanned
<1>3. Progress'
  BY <1>1, <1>2, SameFound DEF Progress
<1> QED BY <1>1, <1>3, Quiet

LEMMA CheckFoundStep == IInv /\ CheckFound => IInv'
<1> SUFFICES ASSUME IInv, CheckFound PROVE IInv'
  OBVIOUS
<1>1. /\ UNCHANGED <<store, hint, size, order, i, found, seen, moved>>
      /\ pc = "check" /\ pc' = "ended" /\ result' = Checked
  BY DEF CheckFound, End, Checked
<1>2. Progress'
  BY <1>1, SameFound DEF IInv, Progress
<1> QED BY <1>1, <1>2, Quiet

\* BootOrder was read: a sequence of names, or nothing.
LEMMA OrderReadKeeps ==
  ASSUME IInv, pc = "order", NEW o \in (InitOrders \ {NoVar}) \cup {<<>>}, OrderRead(o)
  PROVE  IInv'
<1>1. /\ order' = o /\ pc' = "scan" /\ size' = Block /\ moved' = FALSE
      /\ UNCHANGED <<store, hint, i, found, seen, result>>
  BY DEF OrderRead, Goto
<1>2. o \in Seq(Names) /\ Len(o) \in Nat
  <2>1. CASE o = <<>>
    BY <2>1
  <2> QED BY <2>1, OrdersAssumption
<1>3. seen = <<>> /\ found = <<>> /\ i = 1
  BY DEF IInv, Progress
<1>6. Len(seen) = 0 /\ Len(found) = 0
  BY <1>3
<1>7. i' \in 1..(Len(order') + 1) /\ Len(seen') <= Len(order') /\ Len(found') <= Len(seen')
  BY <1>1, <1>2, <1>3, <1>6
<1>8. order' \in InitOrders \cup {<<>>}
  BY <1>1
<1>9. TypeOK' /\ BufferBounded'
  BY <1>1, <1>7, <1>8, BlockIsBounded DEF IInv, TypeOK, store
<1>4. TypeOK' /\ Shape' /\ BufferBounded'
  BY <1>1, <1>2, <1>9 DEF IInv, Shape
<1>5. Progress' /\ FirstKept' /\ Counted' /\ SeenIsStored'
  BY <1>1, <1>3 DEF Progress, FirstKept, Counted, SeenIsStored
<1> QED BY <1>4, <1>5 DEF IInv

LEMMA OrderSteps == IInv /\ (ReadOrder \/ ReadOrderFails) => IInv'
<1> SUFFICES ASSUME IInv, ReadOrder \/ ReadOrderFails PROVE IInv'
  OBVIOUS
<1>1. CASE ReadOrder /\ GrowBuffer(bootOrder)
  <2>1. bootOrder \in InitOrders \ {NoVar}
    BY <1>1 DEF GrowBuffer, IInv, TypeOK
  <2> QED BY <1>1, <2>1, GrowKeeps DEF GrowBuffer
<1>2. CASE ReadOrder /\ OrderRead(IF bootOrder = NoVar THEN <<>> ELSE bootOrder)
  <2>1. (IF bootOrder = NoVar THEN <<>> ELSE bootOrder) \in (InitOrders \ {NoVar}) \cup {<<>>}
    BY DEF IInv, TypeOK
  <2> QED BY <1>2, <2>1, OrderReadKeeps DEF ReadOrder
<1>3. CASE ReadOrderFails
  BY <1>3, OrderReadKeeps DEF ReadOrderFails
<1> QED BY <1>1, <1>2, <1>3 DEF ReadOrder
-----------------------------------------------------------------------------
\* None, one, more.
LEMMA NoneOneMore ==
  /\ \A m \in Nat : m = 0 \/ m = 1 \/ m > 1
  /\ \A m \in Nat : m # 1 => m = 0 \/ m > 1
  /\ \A m \in Nat : m >= 1 => m = 1 \/ m > 1
  /\ ~(1 > 1) /\ 1 # 0 /\ \A m \in Nat : m > 1 => m # 0 /\ m # 1
OBVIOUS

\* One more position was seen: what its read gave counts if it has the hints.
LEMMA CountOne ==
  ASSUME IInv, ~MetadataOnly, pc = "scan", NEW got \in Contents \cup {None},
         UNCHANGED <<hint, order>>, seen' = Append(seen, got),
         found' = IF HasHints(got) THEN Append(found, <<order[i], got>>) ELSE found
  PROVE  Counted'
<1>0. PICK n \in Nat : n = Len(seen) + 1
  BY DEF IInv, Shape
<1>1. /\ Len(seen) \in Nat /\ Len(found) \in Nat /\ i = n /\ Counted
      /\ seen \in Seq(Contents \cup {None}) /\ found \in Seq(Names \X (Contents \cup {None}))
  BY <1>0 DEF IInv, Shape, Progress
<1>2. /\ Len(seen') = n /\ seen'[n] = got
      /\ \A k \in 1..Len(seen) : seen'[k] = seen[k]
      /\ \A k \in 1..n : k \in 1..Len(seen) \/ k = n
      /\ n \in 1..n /\ \A k \in 1..Len(seen) : k \in 1..n /\ k # n
  BY <1>0, <1>1
<1>3. \A d : HasHints(d)' <=> HasHints(d)
  BY DEF HasHints, Stands, DescriptionBytes, PathNode, Given
<1>4. \A k \in 1..Len(seen) : HasHints(seen[k])' <=> HasHints(seen[k])
  BY <1>2, <1>3
<1>7. Len(found) \in Nat
  BY <1>1
<1>8. Len(found) = 0 \/ Len(found) = 1 \/ Len(found) > 1
  BY Zenon, <1>7, NoneOneMore
<1>5. CASE HasHints(got)
  <2>1. /\ Len(found') = Len(found) + 1 /\ Len(found') # 0
        /\ Len(found) >= 1 => found'[1] = found[1]
        /\ Len(found) = 0 => found'[1] = <<order[i], got>>
    BY <1>1, <1>5
  <2>2. HasHints(seen[n])'
    BY <1>2, <1>3, <1>5
  <2>3. CASE Len(found) = 0
    <3>1. Kept(n)'
      BY <1>1, <1>2, <2>1, <2>2, <2>3 DEF Kept
    <3>2. \A j \in 1..Len(seen') : HasHints(seen[j])' => j = n
      BY <1>1, <1>2, <1>4, <2>3 DEF Counted
    <3>3. Len(found') = 1
      BY <2>1, <2>3
    <3>4. n \in 1..Len(seen') /\ ~(Len(found') > 1) /\ Len(found') # 0
      BY Zenon, <1>2, <3>3, NoneOneMore
    <3> QED BY Zenon, <3>1, <3>2, <3>4 DEF Counted
  <2>4. CASE Len(found) >= 1
    <3>1. PICK k \in 1..Len(seen) : HasHints(seen[k])
      <4>1. CASE Len(found) = 1
        BY Zenon, <1>1, <4>1 DEF Counted, Kept
      <4>2. CASE Len(found) > 1
        BY Zenon, <1>1, <4>2 DEF Counted
      <4> QED BY Zenon, <1>7, <2>4, <4>1, <4>2, NoneOneMore
    <3>2. HasHints(seen[k])' /\ k \in 1..Len(seen') /\ n \in 1..Len(seen') /\ k # n
      BY <1>2, <1>4, <3>1
    <3>3. Len(found') > 1 /\ Len(found') # 0 /\ Len(found') # 1
      BY <1>7, <2>1, <2>4
    <3> QED BY Zenon, <2>2, <3>2, <3>3 DEF Counted
  <2>5. Len(found) = 0 \/ Len(found) >= 1
    BY <1>7
  <2> QED BY <2>3, <2>4, <2>5
<1>6. CASE ~HasHints(got)
  <2>1. found' = found /\ ~HasHints(seen[n])'
    BY <1>2, <1>3, <1>6
  <2>2. CASE Len(found) = 0
    BY <1>1, <1>2, <1>4, <2>1, <2>2 DEF Counted
  <2>3. CASE Len(found) = 1
    <3>1. PICK k \in 1..Len(seen) :
            Kept(k) /\ \A j \in 1..Len(seen) : HasHints(seen[j]) => j = k
      BY <1>1, <2>3 DEF Counted
    <3>2. Kept(k)'
      BY <1>2, <1>4, <2>1, <3>1 DEF Kept
    <3>3. k \in 1..Len(seen') /\ \A j \in 1..Len(seen') : HasHints(seen[j])' => j = k
      BY <1>2, <1>4, <2>1, <3>1
    <3>4. Len(found') = 1
      BY <2>1, <2>3
    <3>5. ~(Len(found') > 1) /\ Len(found') # 0
      BY Zenon, <3>4, NoneOneMore
    <3> QED BY Zenon, <3>2, <3>3, <3>5 DEF Counted
  <2>4. CASE Len(found) > 1
    <3>1. PICK j \in 1..Len(seen), k \in 1..Len(seen) :
            j # k /\ HasHints(seen[j]) /\ HasHints(seen[k])
      BY <1>1, <2>4 DEF Counted
    <3>2. HasHints(seen[j])' /\ HasHints(seen[k])' /\ j \in 1..Len(seen') /\ k \in 1..Len(seen')
      BY <1>2, <1>4, <3>1
    <3>3. Len(found') > 1 /\ Len(found') # 0 /\ Len(found') # 1
      <4>1. Len(found') = Len(found)
        BY <2>1
      <4> QED BY Zenon, <1>7, <2>4, <4>1, NoneOneMore
    <3> QED BY Zenon, <3>1, <3>2, <3>3 DEF Counted
  <2> QED BY <1>8, <2>2, <2>3, <2>4
<1> QED BY <1>5, <1>6

\* A listed entry was read.
LEMMA EntryReadKeeps ==
  ASSUME IInv, Scanning, NEW got \in Contents \cup {None}, EntryRead(got),
         got = None \/ (Exists(order[i]) /\ got = entry[order[i]])
  PROVE  IInv'
<1>1. /\ UNCHANGED <<store, hint, order, moved>> /\ size' = Block
      /\ seen' = Append(seen, got) /\ pc = "scan" /\ i <= Len(order)
  BY DEF EntryRead, Scanning
<1>2. /\ order \in Seq(Names) /\ Len(order) \in Nat /\ Len(found) \in Nat
      /\ seen \in Seq(Contents \cup {None}) /\ found \in Seq(Names \X (Contents \cup {None}))
      /\ Len(seen) \in Nat /\ i = Len(seen) + 1 /\ order[i] \in Names
      /\ Len(found) <= Len(seen) /\ hint \in Hints
  BY <1>1 DEF IInv, TypeOK, Shape, Progress
<1>3. /\ seen' \in Seq(Contents \cup {None}) /\ Len(seen') = Len(seen) + 1 /\ seen'[i] = got
      /\ \A k \in 1..Len(seen) : seen'[k] = seen[k]
      /\ \A k \in 1..Len(seen') : k \in 1..Len(seen) \/ k = i
  BY <1>1, <1>2
<1>4. MetadataOnly' = MetadataOnly /\ \A d : HasHints(d)' <=> HasHints(d)
  BY <1>1 DEF MetadataOnly, HasHints, Stands, DescriptionBytes, PathNode, Given
<1>5. BufferBounded' /\ size' \in Nat
  BY <1>1, BlockIsBounded
<1>6. (~moved => SeenIsStored)'
  BY <1>1, <1>2, <1>3 DEF IInv, SeenIsStored, Exists, store
<1>7. Append(found, <<order[i], got>>) \in Seq(Names \X (Contents \cup {None}))
      /\ Len(Append(found, <<order[i], got>>)) = Len(found) + 1
      /\ Append(found, <<order[i], got>>)[Len(found) + 1] = <<order[i], got>>
  <2>1. <<order[i], got>> \in Names \X (Contents \cup {None})
    BY <1>2
  <2> HIDE DEF IInv
  <2> QED BY <1>2, <2>1
<1>8. CASE MetadataOnly
  <2>1. found = <<>> /\ Len(found) = 0
    BY <1>1, <1>8 DEF IInv, Progress
  <2>2. CASE got = None /\ End(Raised) /\ UNCHANGED <<i, found>>
    <3>1. TypeOK' /\ Shape'
      BY <1>1, <1>2, <1>3, <1>5, <2>1, <2>2 DEF IInv, TypeOK, Shape, End, store
    <3>2. Progress' /\ FirstKept'
      BY <1>4, <1>8, <2>1, <2>2 DEF Progress, FirstKept, End
    <3> QED BY <1>4, <1>5, <1>6, <1>8, <3>1, <3>2 DEF IInv
  <2>3. CASE /\ got # None /\ EndsWithMetadata(got)
             /\ found' = Append(found, <<order[i], got>>)
             /\ Goto("check") /\ UNCHANGED i
    <3>1. TypeOK' /\ Shape'
      BY <1>1, <1>2, <1>3, <1>5, <1>7, <2>1, <2>3 DEF IInv, TypeOK, Shape, Goto, store
    <3>2. HasHints(got)
      BY <1>2, <1>8, <2>3, EndIsHint
    <3>3. Kept(i)' /\ i \in 1..Len(seen') /\ i' = i
      BY <1>1, <1>2, <1>3, <1>4, <1>7, <2>1, <2>3, <3>2 DEF Kept
    <3>4. Progress'
      BY <1>4, <1>8, <2>3 DEF Progress, Goto, Scanned
    <3>5. Len(found') = 1
      BY <1>7, <2>1, <2>3
    <3>6. FirstKept'
      BY <3>3, <3>5 DEF FirstKept
    <3> QED BY <1>4, <1>5, <1>6, <1>8, <3>1, <3>4, <3>6 DEF IInv
  <2>4. CASE /\ got # None /\ ~EndsWithMetadata(got)
             /\ i' = Onward /\ Goto("scan") /\ UNCHANGED found
    <3>1. TypeOK' /\ Shape'
      BY <1>1, <1>2, <1>3, <1>5, <2>1, <2>4 DEF IInv, TypeOK, Shape, Goto, Onward, store
    <3>2. Progress' /\ FirstKept'
      BY <1>2, <1>3, <1>4, <1>8, <2>1, <2>4 DEF Progress, FirstKept, Goto, Onward
    <3> QED BY <1>4, <1>5, <1>6, <1>8, <3>1, <3>2 DEF IInv
  <2> QED BY <1>8, <2>2, <2>3, <2>4 DEF EntryRead, TryMetadata, TryHints
<1>9. CASE ~MetadataOnly
  <2>1. /\ found' = IF got # None /\ Fits(got) THEN Append(found, <<order[i], got>>) ELSE found
        /\ i' = i + 1 /\ pc' = "scan" /\ result' = result
    BY <1>9 DEF EntryRead, TryMetadata, TryHints, Goto, Onward
  <2>2. (got # None /\ Fits(got)) <=> HasHints(got)
    <3>1. CASE got = None
      BY <3>1 DEF HasHints
    <3>2. CASE got # None
      BY <1>2, <3>2, FitsIsHasHints
    <3> QED BY <3>1, <3>2
  <2>3. found' = IF HasHints(got) THEN Append(found, <<order[i], got>>) ELSE found
    BY <2>1, <2>2
  <2>4. Counted'
    BY <1>1, <1>9, <2>3, CountOne
  <2>5. found' \in Seq(Names \X (Contents \cup {None})) /\ Len(found') <= Len(found) + 1
    BY <1>2, <1>7, <2>1
  <2>6. TypeOK' /\ Shape'
    BY <1>1, <1>2, <1>3, <1>5, <2>1, <2>5 DEF IInv, TypeOK, Shape, store
  <2>7. Progress'
    BY <1>2, <1>3, <1>4, <1>9, <2>1 DEF Progress
  <2> QED BY <1>4, <1>5, <1>6, <1>9, <2>4, <2>6, <2>7 DEF IInv
<1> QED BY <1>8, <1>9

LEMMA ReadSteps == IInv /\ (ReadListed \/ ReadListedFails) => IInv'
<1> SUFFICES ASSUME IInv, ReadListed \/ ReadListedFails PROVE IInv'
  OBVIOUS
<1> DEFINE d == entry[order[i]]
<1>1. Scanning /\ d \in Contents \cup {NoVar}
  BY DEF ReadListed, ReadListedFails, Scanning, IInv, TypeOK, Shape, Progress
<1>2. CASE GrowBuffer(d)
  <2>1. d \in Contents
    BY <1>1, <1>2 DEF GrowBuffer
  <2> QED BY <1>2, <2>1, GrowKeeps DEF GrowBuffer
<1>3. CASE EntryRead(OrNone(d))
  <2>1. OrNone(d) \in Contents \cup {None}
        /\ (OrNone(d) = None \/ (Exists(order[i]) /\ OrNone(d) = entry[order[i]]))
    BY <1>1 DEF OrNone, Exists
  <2> QED BY <1>1, <1>3, <2>1, EntryReadKeeps
<1>4. CASE EntryRead(None)
  BY <1>1, <1>4, EntryReadKeeps
<1> QED BY <1>2, <1>3, <1>4 DEF ReadListed, ReadListedFails

\* Another program writes.
LEMMA OtherSteps == IInv /\ (WriteListed \/ WriteOrder) => IInv'
<1> SUFFICES ASSUME IInv, WriteListed \/ WriteOrder PROVE IInv'
  OBVIOUS
<1>1. UNCHANGED call /\ moved' = TRUE
  BY DEF WriteListed, WriteOrder
<1>2. bootOrder' \in InitOrders /\ entry' \in [Names -> Contents \cup {NoVar}]
  <2>1. CASE WriteListed
    BY <2>1 DEF WriteListed, PutEntry, IInv, TypeOK
  <2>2. CASE WriteOrder
    BY <2>2 DEF WriteOrder, PutOrder, IInv, TypeOK
  <2> QED BY <2>1, <2>2
<1>3. UNCHANGED <<hint, pc, size, order, i, found, result, seen>>
  BY <1>1 DEF call
<1>4. TypeOK' /\ Shape' /\ BufferBounded'
  BY <1>1, <1>2, <1>3 DEF IInv, TypeOK, Shape, BufferBounded
<1>5. Progress' /\ (IF MetadataOnly THEN FirstKept ELSE Counted)'
  BY <1>3, SameFound DEF IInv, Progress
<1> QED BY <1>1, <1>4, <1>5 DEF IInv

LEMMA Inductive == IInv /\ [Next]_vars => IInv'
<1> SUFFICES ASSUME IInv, [Next]_vars PROVE IInv'
  OBVIOUS
<1>1. CASE UNCHANGED vars
  <2>1. UNCHANGED <<store, hint, pc, size, order, i, found, result, seen, moved>>
    BY <1>1 DEF vars, call
  <2>2. TypeOK' /\ Shape' /\ BufferBounded'
    BY <2>1 DEF IInv, TypeOK, Shape, BufferBounded, store
  <2>3. Progress' /\ (IF MetadataOnly THEN FirstKept ELSE Counted)'
    BY <2>1, SameFound DEF IInv, Progress
  <2>4. (~moved => SeenIsStored)'
    BY <2>1 DEF IInv, SeenIsStored, Exists, store
  <2> QED BY <2>2, <2>3, <2>4 DEF IInv
<1>2. CASE Next
  BY <1>2, CheckArgumentsStep, OrderSteps, ReadSteps, ScanEndStep, CheckFoundStep, OtherSteps
     DEF Next, Search
<1> QED BY <1>1, <1>2
-----------------------------------------------------------------------------
\* The invariant of LocateEntry.
THEOREM LocateInvariant == Spec => []IInv
<1> QED BY InitHolds, Inductive, PTL DEF Spec

\* The variables keep their types, for any hints, orders and variables.
THEOREM LocateTyped == Spec => []TypeOK
<1>1. IInv => TypeOK
  BY DEF IInv
<1> QED BY <1>1, LocateInvariant, PTL

\* However the variables grow and shrink during a read, the buffer never gets a
\* whole step larger than the longest of them.
THEOREM BoundsItsBuffer == Spec => []BufferBounded
<1>1. IInv => BufferBounded
  BY DEF IInv
<1> QED BY <1>1, LocateInvariant, PTL

\* The entry that is given had all the hints when it was read and, with more than
\* metadata, no other one that was read had them.
THEOREM GivesWhatItRead == Spec => []FoundAsRead
<1>1. IInv => FoundAsRead
  <2> SUFFICES ASSUME IInv, Answered
               PROVE  \E k \in 1..Len(seen) :
                        /\ result = IF hint.content THEN <<order[k], seen[k]>> ELSE <<order[k]>>
                        /\ HasHints(seen[k])
                        /\ ~MetadataOnly => \A j \in 1..Len(seen) : HasHints(seen[j]) => j = k
    BY DEF FoundAsRead
  <2>1. /\ pc = "ended" /\ result \notin {None, Unparsed, Raised}
    BY DEF Answered
  <2>2. result = Checked /\ Len(found) = 1
    BY <2>1 DEF IInv, Progress, NotFound, Checked, OneFound
  <2>3. \E k \in 1..Len(seen) :
          Kept(k) /\ (~MetadataOnly => \A j \in 1..Len(seen) : HasHints(seen[j]) => j = k)
    BY <2>2 DEF IInv, FirstKept, Counted
  <2> QED BY <2>2, <2>3 DEF Kept, Checked, OneFound
<1> QED BY <1>1, LocateInvariant, PTL

\* Undisturbed, the answer is the only listed entry that has all the hints, or none.
THEOREM IsExactUndisturbed == Spec => []UndisturbedIsExact
<1>1. IInv => UndisturbedIsExact
  <2> SUFFICES ASSUME IInv, pc = "ended", ~moved, NoReadFailed,
                      Given(hint.description) \/ Given(hint.filepath)
               PROVE  result = IF \E k \in Matching : Matching = {k}
                               THEN LET n == order[CHOOSE k \in Matching : TRUE]
                                    IN  IF hint.content THEN <<n, entry[n]>> ELSE <<n>>
                               ELSE None
    BY DEF UndisturbedIsExact
  <2>1. ~MetadataOnly /\ ~NoneGiven
    BY DEF MetadataOnly, NoneGiven
  <2>2. result = Checked /\ Len(seen) = Len(order) /\ Counted /\ SeenIsStored
    BY <2>1 DEF IInv, Progress, Scanned
  <2>3. Matching = {k \in 1..Len(seen) : HasHints(seen[k])}
    <3>1. ASSUME NEW k \in 1..Len(order)
          PROVE  (Exists(order[k]) /\ HasHints(entry[order[k]])) <=> HasHints(seen[k])
      <4>1. CASE seen[k] = None
        <5>1. ~Exists(order[k])
          BY <2>2, <4>1 DEF NoReadFailed
        <5> QED BY <4>1, <5>1 DEF HasHints
      <4>2. CASE seen[k] # None
        BY <2>2, <4>2 DEF SeenIsStored
      <4> QED BY <4>1, <4>2
    <3> QED BY <2>2, <3>1 DEF Matching
  <2>4. CASE Len(found) = 1
    <3>1. PICK k \in 1..Len(seen) :
            Kept(k) /\ \A j \in 1..Len(seen) : HasHints(seen[j]) => j = k
      BY Zenon, <2>2, <2>4 DEF Counted
    <3>2. Matching = {k}
      BY <2>3, <3>1 DEF Kept
    <3>3. (CHOOSE j \in Matching : TRUE) = k
      BY <3>2
    <3>4. seen[k] # None
      BY <3>1 DEF Kept, HasHints
    <3>5. seen[k] = entry[order[k]]
      BY <2>2, <3>4 DEF SeenIsStored
    <3>6. Checked = IF hint.content THEN <<order[k], seen[k]>> ELSE <<order[k]>>
      BY <2>4, <3>1 DEF Checked, OneFound, Kept
    <3> QED BY <2>2, <3>2, <3>3, <3>5, <3>6
  <2>5. CASE Len(found) # 1
    <3>1. Checked = None
      BY <2>1, <2>5 DEF Checked, OneFound
    <3>2. Len(found) \in Nat
      BY DEF IInv, Shape
    <3>3. Len(found) = 0 \/ Len(found) > 1
      BY Zenon, <2>5, <3>2, NoneOneMore
    <3>4. ~\E k \in Matching : Matching = {k}
      <4>1. CASE Len(found) = 0
        BY <2>2, <2>3, <4>1 DEF Counted
      <4>2. CASE Len(found) > 1
        <5>1. PICK j \in 1..Len(seen), k \in 1..Len(seen) :
                j # k /\ HasHints(seen[j]) /\ HasHints(seen[k])
          BY Zenon, <2>2, <4>2 DEF Counted
        <5> QED BY <2>3, <5>1
      <4> QED BY <3>3, <4>1, <4>2
    <3> QED BY <2>2, <3>1, <3>4
  <2> QED BY <2>4, <2>5
<1> QED BY <1>1, LocateInvariant, PTL
=============================================================================
