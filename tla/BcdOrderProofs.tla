--------------------------- MODULE BcdOrderProofs ---------------------------
(***************************************************************************)
(* Proofs about BcdOrder, for any programs, entries and calls.             *)
(***************************************************************************)
EXTENDS BcdOrder, WellFoundedInduction, TLAPS

(***************************************************************************)
(* Induction and recursion along a list.  What a loop computes is a        *)
(* function on 0..n, n the length of the list.                             *)
(***************************************************************************)
LEMMA HasLeast ==
  ASSUME NEW T, T \subseteq Nat, T # {}
  PROVE  \E x \in T : \A y \in T : x <= y
<1> DEFINE R == OpToRel(<, Nat)
<1>1. IsWellFoundedOn(R, Nat)
  BY Zenon, NatLessThanWellFounded
<1>2. \A x, y \in Nat : <<y, x>> \in R <=> y < x
  BY DEF OpToRel
<1> HIDE DEF R
<1>3. PICK x \in T : \A y \in T : ~(<<y, x>> \in R)
  BY <1>1, WFMin
<1>4. ASSUME NEW y \in T PROVE x <= y
  <2>1. x \in Nat /\ y \in Nat /\ ~(y < x)
    BY <1>2, <1>3
  <2> QED BY <2>1
<1> QED BY <1>4

LEMMA Along ==
  ASSUME NEW n \in Nat, NEW T, 0 \in T, \A k \in 1..n : k - 1 \in T => k \in T
  PROVE  \A k \in 0..n : k \in T
<1> DEFINE bad == (0..n) \ T
<1>1. SUFFICES ASSUME bad # {} PROVE FALSE
  OBVIOUS
<1>2. bad \subseteq Nat
  OBVIOUS
<1>3. PICK x \in bad : \A y \in bad : x <= y
  BY <1>1, <1>2, HasLeast
<1>4. x \in 1..n /\ x - 1 \in 0..n /\ ~(x <= x - 1)
  OBVIOUS
<1>5. x - 1 \in T
  BY <1>3, <1>4
<1> QED BY <1>4, <1>5

Loop(f, base, g, m) == f[0] = base /\ \A k \in 1..m : f[k] = g[k][f[k - 1]]

LEMMA LoopExists ==
  ASSUME NEW n \in Nat, NEW A, NEW base \in A, NEW g \in [1..n -> [A -> A]]
  PROVE  \E f \in [0..n -> A] : Loop(f, base, g, n)
<1> DEFINE T == {m \in 0..n : \E f \in [0..m -> A] : Loop(f, base, g, m)}
<1>1. 0 \in T
  <2>1. [k \in 0..0 |-> base] \in [0..0 -> A] /\ Loop([k \in 0..0 |-> base], base, g, 0)
    BY DEF Loop
  <2> QED BY <2>1
<1>2. ASSUME NEW m \in 1..n, m - 1 \in T PROVE m \in T
  <2>1. PICK f \in [0..(m - 1) -> A] : Loop(f, base, g, m - 1)
    BY <1>2
  <2> DEFINE h == [k \in 0..m |-> IF k = m THEN g[m][f[m - 1]] ELSE f[k]]
  <2>2. g[m] \in [A -> A] /\ f[m - 1] \in A
    OBVIOUS
  <2>3. g[m][f[m - 1]] \in A
    BY <2>2
  <2>4. \A k \in 0..m : (k # m => k \in 0..(m - 1)) /\ h[k] \in A
    BY <2>3
  <2>5. h \in [0..m -> A]
    BY <2>4
  <2>6. h[0] = base
    BY <2>1 DEF Loop
  <2>7. ASSUME NEW k \in 1..m PROVE h[k] = g[k][h[k - 1]]
    <3>1. CASE k = m
      <4>1. m - 1 \in 0..m /\ m - 1 # m /\ m \in 0..m
        OBVIOUS
      <4>2. h[m - 1] = f[m - 1] /\ h[m] = g[m][f[m - 1]]
        BY <4>1
      <4> QED BY <3>1, <4>2
    <3>2. CASE k # m
      <4>1. k \in 1..(m - 1) /\ k \in 0..m /\ k - 1 \in 0..m /\ k - 1 # m
        BY <3>2
      <4>2. h[k] = f[k] /\ h[k - 1] = f[k - 1]
        BY <3>2, <4>1
      <4> QED BY <2>1, <4>1, <4>2 DEF Loop
    <3> QED BY <3>1, <3>2
  <2>8. Loop(h, base, g, m)
    BY <2>6, <2>7 DEF Loop
  <2> HIDE DEF h
  <2> QED BY <2>5, <2>8
<1>2a. \A k \in 1..n : k - 1 \in T => k \in T
  BY <1>2
<1> HIDE DEF T
<1>3. n \in T
  <2>1. n \in 0..n
    OBVIOUS
  <2> QED BY <1>1, <1>2a, <2>1, Along
<1> QED BY <1>3 DEF T
-----------------------------------------------------------------------------
(***************************************************************************)
(* The filters of identifiers.                                             *)
(***************************************************************************)
Accs == [targets : Seq(Targets), maxlen : Int, stopped : BOOLEAN]
NoneTaken(ids) == [targets |-> <<>>, maxlen |-> Len(ids), stopped |-> FALSE]

\* A filter gives None, or the string's object under the string's spelling.
LEMMA FilterGives ==
  ASSUME NEW s \in Strings, NEW w, Filter(s, w) # None
  PROVE  /\ Filter(s, w) \in Targets
         /\ Filter(s, w).spelling = s.spelling
         /\ Filter(s, w).id = s.body \/ Filter(s, w).id = Malformed
BY DEF Filter, Target, Targets, Strings, Bodies

LEMMA StepTakes ==
  ASSUME NEW acc \in Accs, NEW s \in Strings, NEW w
  PROVE  TakeOne(acc, s, w) \in Accs
<1>1. Filter(s, w) # None => Append(acc.targets, Filter(s, w)) \in Seq(Targets)
  BY FilterGives DEF Accs
<1>2. [acc EXCEPT !.stopped = TRUE] \in Accs /\ [acc EXCEPT !.maxlen = @ - 1] \in Accs
  <2>1. acc.maxlen - 1 \in Int
    BY DEF Accs
  <2>2. [acc EXCEPT !.maxlen = acc.maxlen - 1] \in Accs
    BY <2>1 DEF Accs
  <2>3. [acc EXCEPT !.stopped = TRUE] \in Accs
    BY DEF Accs
  <2> QED BY <2>2, <2>3
<1>3. ASSUME Filter(s, w) # None PROVE [acc EXCEPT !.targets = Append(@, Filter(s, w))] \in Accs
  <2> DEFINE a == Append(acc.targets, Filter(s, w))
  <2>1. a \in Seq(Targets)
    BY <1>1, <1>3
  <2> HIDE DEF a
  <2>2. [acc EXCEPT !.targets = a] \in Accs
    BY <2>1 DEF Accs
  <2> QED BY <2>2 DEF a
<1> QED BY <1>2, <1>3 DEF TakeOne

LEMMA TakenIs ==
  ASSUME NEW ids \in Seq(Strings), NEW w
  PROVE  /\ Taken(ids, w) \in [0..Len(ids) -> Accs]
         /\ Taken(ids, w)[0] = NoneTaken(ids)
         /\ \A k \in 1..Len(ids) : Taken(ids, w)[k] = TakeOne(Taken(ids, w)[k - 1], ids[k], w)
<1> DEFINE n == Len(ids)
           g == [k \in 1..n |-> [acc \in Accs |-> TakeOne(acc, ids[k], w)]]
           Is(f) == f = [k \in 0..n |-> IF k = 0 THEN NoneTaken(ids)
                                        ELSE TakeOne(f[k - 1], ids[k], w)]
<1>1. n \in Nat /\ \A k \in 1..n : ids[k] \in Strings
  OBVIOUS
<1>2. NoneTaken(ids) \in Accs
  BY <1>1 DEF NoneTaken, Accs
<1>3. g \in [1..n -> [Accs -> Accs]]
  BY <1>1, StepTakes
<1>4. PICK f \in [0..n -> Accs] : Loop(f, NoneTaken(ids), g, n)
  <2> HIDE DEF g, n
  <2> QED BY <1>1, <1>2, <1>3, LoopExists
<1>5. ASSUME NEW k \in 1..n PROVE f[k] = TakeOne(f[k - 1], ids[k], w)
  <2>1. f[k - 1] \in Accs
    BY <1>1
  <2>2. f[k] = g[k][f[k - 1]]
    BY <1>4 DEF Loop
  <2> QED BY <2>1, <2>2
<1>6. Is(f)
  <2>1. f[0] = NoneTaken(ids)
    BY <1>4 DEF Loop
  <2>2. \A k \in 0..n : f[k] = IF k = 0 THEN NoneTaken(ids) ELSE TakeOne(f[k - 1], ids[k], w)
    BY <1>1, <1>5, <2>1
  <2> QED BY <2>2
<1>7. Taken(ids, w) = CHOOSE h : Is(h)
  BY DEF Taken, NoneTaken
<1>8. Is(Taken(ids, w))
  <2> HIDE DEF Is
  <2> QED BY <1>6, <1>7
<1>9. /\ Taken(ids, w)[0] = NoneTaken(ids) /\ DOMAIN Taken(ids, w) = 0..n
      /\ Taken(ids, w) = [k \in DOMAIN Taken(ids, w) |-> Taken(ids, w)[k]]
      /\ \A k \in 1..n : Taken(ids, w)[k] = TakeOne(Taken(ids, w)[k - 1], ids[k], w)
  <2> DEFINE t == Taken(ids, w)
  <2> HIDE DEF t
  <2>1. Is(t)
    BY <1>8 DEF t
  <2>2. t[0] = NoneTaken(ids) /\ DOMAIN t = 0..n /\ t = [k \in DOMAIN t |-> t[k]]
       /\ \A k \in 1..n : t[k] = TakeOne(t[k - 1], ids[k], w)
    BY <1>1, <2>1
  <2> QED BY <2>2 DEF t
<1>10. \A k \in 0..n : Taken(ids, w)[k] \in Accs
  <2> DEFINE T == {k \in 0..n : Taken(ids, w)[k] \in Accs}
  <2>1. 0 \in T
    BY <1>1, <1>2, <1>9
  <2>2. \A k \in 1..n : k - 1 \in T => k \in T
    BY <1>1, <1>9, StepTakes
  <2> HIDE DEF T
  <2>3. \A k \in 0..n : k \in T
    BY <1>1, <2>1, <2>2, Along
  <2> QED BY <2>3 DEF T
<1>11. Taken(ids, w) \in [0..n -> Accs]
  BY <1>9, <1>10
<1> QED BY <1>9, <1>11

\* Where a string first stands in the list.
FirstAt(ids, w, k, target) ==
    Filter(ids[k], w) = target /\ \A j \in 1..(k - 1) : Filter(ids[j], w) # target

\* ts holds what the first k strings stand for, once each and in their order.
Collects(ts, ids, w, k) ==
    /\ \A i \in 1..Len(ts) : \E j \in 1..k : ts[i] = Filter(ids[j], w)
    /\ \A j \in 1..k : \E i \in 1..Len(ts) : ts[i] = Filter(ids[j], w)
    /\ \A i, j \in 1..Len(ts) : i < j =>
         /\ ts[i] # ts[j]
         /\ \A a, b \in 1..k : FirstAt(ids, w, a, ts[i]) /\ FirstAt(ids, w, b, ts[j]) => a < b

TakenWell(ids, w, k) ==
    LET acc == Taken(ids, w)[k]
    IN  IF \E j \in 1..k : Filter(ids[j], w) = None
        THEN acc.stopped /\ Len(acc.targets) < acc.maxlen
        ELSE /\ ~acc.stopped /\ Len(acc.targets) - acc.maxlen = k - Len(ids)
             /\ Collects(acc.targets, ids, w, k)

LEMMA CollectsOld ==
  ASSUME NEW ids \in Seq(Strings), NEW w, NEW k \in 1..Len(ids), NEW ts \in Seq(Targets),
         Collects(ts, ids, w, k - 1), NEW i \in 1..Len(ts), ts[i] = Filter(ids[k], w)
  PROVE  Collects(ts, ids, w, k)
<1>1. ASSUME NEW m \in 1..Len(ts), NEW a \in 1..k, FirstAt(ids, w, a, ts[m]) PROVE a \in 1..(k - 1)
  <2>1. PICK j \in 1..(k - 1) : ts[m] = Filter(ids[j], w)
    BY DEF Collects
  <2> QED BY <1>1, <2>1 DEF FirstAt
<1>2. \A j \in 1..k : j \in 1..(k - 1) \/ j = k
  OBVIOUS
<1>3. \A j \in 1..(k - 1) : j \in 1..k
  OBVIOUS
<1> QED BY <1>1, <1>2, <1>3 DEF Collects

LEMMA CollectsNew ==
  ASSUME NEW ids \in Seq(Strings), NEW w, NEW k \in 1..Len(ids), NEW ts \in Seq(Targets),
         Collects(ts, ids, w, k - 1), Filter(ids[k], w) # None,
         \A i \in 1..Len(ts) : ts[i] # Filter(ids[k], w)
  PROVE  Collects(Append(ts, Filter(ids[k], w)), ids, w, k)
<1> DEFINE us == Append(ts, Filter(ids[k], w))
<1>1. /\ Len(us) = Len(ts) + 1 /\ Len(ts) \in Nat /\ us[Len(us)] = Filter(ids[k], w)
      /\ \A i \in 1..Len(ts) : us[i] = ts[i]
  BY FilterGives
<1> HIDE DEF us
<1>2. \A j \in 1..k : j \in 1..(k - 1) \/ j = k
  OBVIOUS
<1>3. \A j \in 1..(k - 1) : j \in 1..k
  OBVIOUS
<1>4. \A i \in 1..Len(us) : i \in 1..Len(ts) \/ i = Len(us)
  BY <1>1
<1>4a. Len(us) \in 1..Len(us) /\ \A i \in 1..Len(ts) : i \in 1..Len(us)
  BY <1>1
<1>5. ASSUME NEW m \in 1..Len(ts), NEW a \in 1..k, FirstAt(ids, w, a, ts[m]) PROVE a \in 1..(k - 1)
  <2>1. PICK j \in 1..(k - 1) : ts[m] = Filter(ids[j], w)
    BY DEF Collects
  <2> QED BY <1>5, <2>1 DEF FirstAt
<1>6. ASSUME NEW a \in 1..k, FirstAt(ids, w, a, us[Len(us)]) PROVE a = k
  <2>1. ASSUME a \in 1..(k - 1) PROVE FALSE
    <3>1. PICK i \in 1..Len(ts) : ts[i] = Filter(ids[a], w)
      BY <2>1 DEF Collects
    <3> QED BY <1>1, <1>6, <3>1 DEF FirstAt
  <2> QED BY <1>2, <2>1
<1>7. \A i \in 1..Len(us) : \E j \in 1..k : us[i] = Filter(ids[j], w)
  <2>1. k \in 1..k
    OBVIOUS
  <2>2. ASSUME NEW i \in 1..Len(ts) PROVE \E j \in 1..k : us[i] = Filter(ids[j], w)
    <3>1. PICK j \in 1..(k - 1) : ts[i] = Filter(ids[j], w)
      BY DEF Collects
    <3>2. j \in 1..k /\ us[i] = Filter(ids[j], w)
      BY <1>1, <1>3, <3>1
    <3> QED BY <3>2
  <2> QED BY <1>1, <1>4, <2>1, <2>2
<1>8. \A j \in 1..k : \E i \in 1..Len(us) : us[i] = Filter(ids[j], w)
  <2>1. ASSUME NEW j \in 1..(k - 1) PROVE \E i \in 1..Len(us) : us[i] = Filter(ids[j], w)
    <3>1. PICK i \in 1..Len(ts) : ts[i] = Filter(ids[j], w)
      BY DEF Collects
    <3>2. i \in 1..Len(us) /\ us[i] = ts[i]
      BY <1>1, <1>4a
    <3> QED BY <3>1, <3>2
  <2> QED BY <1>1, <1>2, <1>4a, <2>1
<1>9. ASSUME NEW i \in 1..Len(us), NEW j \in 1..Len(us), i < j
      PROVE  /\ us[i] # us[j]
             /\ \A a, b \in 1..k : FirstAt(ids, w, a, us[i]) /\ FirstAt(ids, w, b, us[j]) => a < b
  <2>0. i \in 1..Len(ts)
    BY <1>1, <1>9
  <2>1. CASE j = Len(us)
    <3>1. us[i] # us[j]
      BY <1>1, <2>0, <2>1
    <3>2. ASSUME NEW a \in 1..k, NEW b \in 1..k, FirstAt(ids, w, a, us[i]), FirstAt(ids, w, b, us[j])
          PROVE  a < b
      <4>1. a \in 1..(k - 1)
        BY <1>1, <1>5, <2>0, <3>2
      <4>2. b = k
        BY <1>6, <2>1, <3>2
      <4> QED BY <4>1, <4>2
    <3> QED BY <3>1, <3>2
  <2>2. CASE j \in 1..Len(ts)
    <3>1. ts[i] # ts[j]
      BY <1>9, <2>0, <2>2 DEF Collects
    <3>2. ASSUME NEW a \in 1..k, NEW b \in 1..k, FirstAt(ids, w, a, us[i]), FirstAt(ids, w, b, us[j])
          PROVE  a < b
      <4>1. FirstAt(ids, w, a, ts[i]) /\ FirstAt(ids, w, b, ts[j])
        BY <1>1, <2>0, <2>2, <3>2
      <4>2. a \in 1..(k - 1) /\ b \in 1..(k - 1)
        BY <1>5, <2>0, <2>2, <4>1
      <4> QED BY <1>9, <2>0, <2>2, <4>1, <4>2 DEF Collects
    <3> QED BY <1>1, <2>0, <2>2, <3>1, <3>2
  <2> QED BY <1>4, <2>1, <2>2
<1>10. Collects(us, ids, w, k)
  BY <1>7, <1>8, <1>9 DEF Collects
<1> QED BY <1>10 DEF us

LEMMA CountsOn ==
  ASSUME NEW len \in Nat, NEW max \in Int, NEW k \in Int, NEW n \in Int, len - max = k - 1 - n
  PROVE  len - (max - 1) = k - n /\ len + 1 - max = k - n
OBVIOUS

LEMMA TakesWell ==
  ASSUME NEW ids \in Seq(Strings), NEW w
  PROVE  \A k \in 0..Len(ids) : TakenWell(ids, w, k)
<1> DEFINE n == Len(ids)
           T == {k \in 0..n : TakenWell(ids, w, k)}
           t == Taken(ids, w)
<1>0. n \in Nat
  OBVIOUS
<1>1. 0 \in T
  <2>0. t[0] = NoneTaken(ids)
    BY TakenIs
  <2>1. t[0].targets = <<>> /\ t[0].maxlen = n /\ ~t[0].stopped
    BY <2>0 DEF NoneTaken
  <2> QED BY <1>0, <2>1 DEF TakenWell, Collects
<1>2. ASSUME NEW k \in 1..n, k - 1 \in T PROVE k \in T
  <2> DEFINE acc == t[k - 1]
             f == Filter(ids[k], w)
  <2>1. acc \in Accs /\ t[k] = TakeOne(acc, ids[k], w) /\ k - 1 \in 0..n /\ TakenWell(ids, w, k - 1)
    BY <1>2, TakenIs
  <2>2. acc.targets \in Seq(Targets) /\ acc.maxlen \in Int /\ Len(acc.targets) \in Nat
    BY <2>1 DEF Accs
  <2>3. \A j \in 1..k : j \in 1..(k - 1) \/ j = k
    OBVIOUS
  <2>3a. \A j \in 1..(k - 1) : j \in 1..k
    OBVIOUS
  <2>4. CASE \E j \in 1..(k - 1) : Filter(ids[j], w) = None
    <3>1. acc.stopped /\ Len(acc.targets) < acc.maxlen
      BY <2>1, <2>4 DEF TakenWell
    <3>2. t[k] = acc
      BY <2>1, <3>1 DEF TakeOne
    <3> QED BY <2>4, <2>3a, <3>1, <3>2 DEF TakenWell
  <2>5. CASE ~\E j \in 1..(k - 1) : Filter(ids[j], w) = None
    <3>1. /\ ~acc.stopped /\ Len(acc.targets) - acc.maxlen = k - 1 - n
          /\ Collects(acc.targets, ids, w, k - 1)
      BY <2>1, <2>5 DEF TakenWell
    <3>2. CASE f = None
      <4>1. t[k] = [acc EXCEPT !.stopped = TRUE]
        BY <2>1, <3>1, <3>2 DEF TakeOne
      <4>2. t[k].stopped /\ t[k].targets = acc.targets /\ t[k].maxlen = acc.maxlen
        BY <2>1, <4>1 DEF Accs
      <4>3. Len(acc.targets) < acc.maxlen
        BY <2>2, <3>1
      <4>4. k \in 1..k
        OBVIOUS
      <4> QED BY <3>2, <4>2, <4>3, <4>4 DEF TakenWell
    <3>3. ASSUME f # None, NEW i \in 1..Len(acc.targets), acc.targets[i] = f PROVE k \in T
      <4>1. f \in ToSet(acc.targets)
        BY <2>2, <3>3 DEF ToSet
      <4>2. t[k] = [acc EXCEPT !.maxlen = @ - 1]
        BY <2>1, <3>1, <3>3, <4>1 DEF TakeOne
      <4>3. ~t[k].stopped /\ t[k].targets = acc.targets /\ t[k].maxlen = acc.maxlen - 1
        BY <2>1, <3>1, <4>2 DEF Accs
      <4>4. Collects(acc.targets, ids, w, k)
        BY <2>2, <3>1, <3>3, CollectsOld
      <4>5. Len(acc.targets) - (acc.maxlen - 1) = k - n
        <5> HIDE DEF acc, t, n
        <5> QED BY <1>0, <2>2, <3>1, CountsOn, SMTT(30)
      <4> QED BY <2>3, <2>5, <3>3, <4>3, <4>4, <4>5 DEF TakenWell
    <3>4. CASE f # None /\ \A i \in 1..Len(acc.targets) : acc.targets[i] # f
      <4>0. DOMAIN acc.targets = 1..Len(acc.targets)
        BY <2>2
      <4>1. f \notin ToSet(acc.targets)
        BY <3>4, <4>0 DEF ToSet
      <4>2. t[k] = [acc EXCEPT !.targets = Append(@, f)]
        BY <2>1, <3>1, <3>4, <4>1 DEF TakeOne
      <4>3. ~t[k].stopped /\ t[k].targets = Append(acc.targets, f) /\ t[k].maxlen = acc.maxlen
        BY <2>1, <3>1, <4>2 DEF Accs
      <4>4. Collects(Append(acc.targets, f), ids, w, k)
        BY <2>2, <3>1, <3>4, CollectsNew
      <4>5. Len(Append(acc.targets, f)) = Len(acc.targets) + 1
        BY <2>2
      <4>6. Len(acc.targets) + 1 - acc.maxlen = k - n
        <5> HIDE DEF acc, t, n
        <5> QED BY <1>0, <2>2, <3>1, CountsOn, SMTT(30)
      <4>7. ~\E j \in 1..k : Filter(ids[j], w) = None
        BY <2>3, <2>5, <3>4
      <4>8. Len(t[k].targets) - t[k].maxlen = k - n /\ Collects(t[k].targets, ids, w, k)
        <5> DEFINE us == Append(acc.targets, f)
        <5>1. Len(us) = Len(acc.targets) + 1 /\ t[k].targets = us /\ Collects(us, ids, w, k)
          BY <4>3, <4>4, <4>5
        <5> HIDE DEF us
        <5>2. t[k].maxlen = acc.maxlen
          BY <4>3
        <5>3. Len(t[k].targets) = Len(acc.targets) + 1
          BY <5>1
        <5> HIDE DEF acc, t, n
        <5>4. Len(t[k].targets) - t[k].maxlen = k - n
          <6>1. Len(acc.targets) \in Nat /\ acc.maxlen \in Int /\ k \in Int /\ n \in Int
            BY <1>0, <2>2
          <6> QED BY ONLY <4>6, <5>2, <5>3, <6>1, SMT
        <5> QED BY ONLY <5>1, <5>4, Zenon
      <4>9. TakenWell(ids, w, k)
        <5> HIDE DEF f
        <5> QED BY <4>3, <4>7, <4>8 DEF TakenWell
      <4> QED BY <4>9
    <3> QED BY <3>2, <3>3, <3>4
  <2> QED BY <2>4, <2>5
<1>3. \A k \in 1..n : k - 1 \in T => k \in T
  BY <1>2
<1> HIDE DEF T
<1>4. \A k \in 0..n : k \in T
  BY <1>0, <1>1, <1>3, Along
<1> QED BY <1>4 DEF T

\* What a filtered list is.
LEMMA FilterListIs ==
  ASSUME NEW ids \in Seq(Strings), NEW w
  PROVE  IF \E k \in 1..Len(ids) : Filter(ids[k], w) = None
         THEN FilterList(ids, w) = <<>>
         ELSE /\ FilterList(ids, w) \in Seq(Targets)
              /\ FilterList(ids, w) = Taken(ids, w)[Len(ids)].targets
              /\ Collects(FilterList(ids, w), ids, w, Len(ids))
<1> DEFINE n == Len(ids)
           last == Taken(ids, w)[n]
<1>1. n \in Nat /\ n \in 0..n
  OBVIOUS
<1>2. last \in Accs /\ TakenWell(ids, w, n)
  BY <1>1, TakenIs, TakesWell
<1>3. last.targets \in Seq(Targets) /\ last.maxlen \in Int /\ Len(last.targets) \in Nat
  BY <1>2 DEF Accs
<1>4. CASE \E k \in 1..n : Filter(ids[k], w) = None
  <2>1. Len(last.targets) # last.maxlen
    BY <1>2, <1>3, <1>4 DEF TakenWell
  <2> QED BY <1>4, <2>1 DEF FilterList
<1>5. CASE ~\E k \in 1..n : Filter(ids[k], w) = None
  <2>1. Len(last.targets) - last.maxlen = n - n /\ Collects(last.targets, ids, w, n)
    BY <1>2, <1>5 DEF TakenWell
  <2>2. Len(last.targets) = last.maxlen
    BY <1>1, <1>3, <2>1
  <2> QED BY <1>3, <1>5, <2>1, <2>2 DEF FilterList
<1> QED BY <1>4, <1>5

-----------------------------------------------------------------------------
(***************************************************************************)
(* What bcdedit keeps of a list.                                           *)
(***************************************************************************)
KeepOne(kept, one, gone) == IF one \in ToSet(gone) THEN kept ELSE Append(kept, one)

LEMMA KeptIs ==
  ASSUME NEW S, NEW s \in Seq(S), NEW gone
  PROVE  /\ Kept(s, gone) \in [0..Len(s) -> Seq(S)]
         /\ Kept(s, gone)[0] = <<>>
         /\ \A k \in 1..Len(s) : Kept(s, gone)[k] = KeepOne(Kept(s, gone)[k - 1], s[k], gone)
<1> DEFINE n == Len(s)
           A == Seq(S)
           g == [k \in 1..n |-> [kept \in A |-> KeepOne(kept, s[k], gone)]]
           Is(f) == f = [k \in 0..n |-> IF k = 0 THEN <<>>
                                        ELSE IF s[k] \in ToSet(gone) THEN f[k - 1]
                                        ELSE Append(f[k - 1], s[k])]
<1>1. n \in Nat /\ \A k \in 1..n : s[k] \in S
  OBVIOUS
<1>2. <<>> \in A
  OBVIOUS
<1>2a. \A kept \in A, one \in S : KeepOne(kept, one, gone) \in A
  BY DEF KeepOne
<1>3. g \in [1..n -> [A -> A]]
  <2> HIDE DEF A
  <2> QED BY <1>1, <1>2a
<1>4. PICK f \in [0..n -> A] : Loop(f, <<>>, g, n)
  <2> HIDE DEF g, n, A
  <2> QED BY <1>1, <1>2, <1>3, LoopExists
<1>5. ASSUME NEW k \in 1..n PROVE f[k] = KeepOne(f[k - 1], s[k], gone)
  <2>1. f[k - 1] \in A
    BY <1>1
  <2>2. f[k] = g[k][f[k - 1]]
    BY <1>4 DEF Loop
  <2> QED BY <2>1, <2>2
<1>6. Is(f)
  <2>1. f[0] = <<>>
    BY <1>4 DEF Loop
  <2>2. ASSUME NEW k \in 0..n
        PROVE  f[k] = IF k = 0 THEN <<>> ELSE IF s[k] \in ToSet(gone) THEN f[k - 1]
                      ELSE Append(f[k - 1], s[k])
    <3>1. CASE k = 0
      BY <2>1, <3>1
    <3>2. CASE k \in 1..n
      <4>1. f[k] = KeepOne(f[k - 1], s[k], gone) /\ k # 0
        BY <1>5, <3>2
      <4> QED BY <4>1 DEF KeepOne
    <3> QED BY <1>1, <3>1, <3>2
  <2> QED BY <2>2
<1>7. Kept(s, gone) = CHOOSE h : Is(h)
  BY DEF Kept
<1>8. Is(Kept(s, gone))
  <2> HIDE DEF Is
  <2> QED BY <1>6, <1>7
<1>9. /\ Kept(s, gone)[0] = <<>> /\ DOMAIN Kept(s, gone) = 0..n
      /\ Kept(s, gone) = [k \in DOMAIN Kept(s, gone) |-> Kept(s, gone)[k]]
      /\ \A k \in 1..n : Kept(s, gone)[k] = KeepOne(Kept(s, gone)[k - 1], s[k], gone)
  <2> DEFINE t == Kept(s, gone)
  <2> HIDE DEF t
  <2>1. Is(t)
    BY <1>8 DEF t
  <2>2. t[0] = <<>> /\ DOMAIN t = 0..n /\ t = [k \in DOMAIN t |-> t[k]]
    BY <1>1, <2>1
  <2>3. ASSUME NEW k \in 1..n PROVE t[k] = KeepOne(t[k - 1], s[k], gone)
    <3>1. k \in 0..n /\ k # 0
      BY <1>1
    <3>2. t[k] = IF s[k] \in ToSet(gone) THEN t[k - 1] ELSE Append(t[k - 1], s[k])
      BY <2>1, <3>1
    <3> QED BY <3>2 DEF KeepOne
  <2> QED BY <2>2, <2>3 DEF t
<1>10. \A k \in 0..n : Kept(s, gone)[k] \in A
  <2> DEFINE T == {k \in 0..n : Kept(s, gone)[k] \in A}
  <2> HIDE DEF A
  <2>1. 0 \in T
    BY <1>1, <1>2, <1>9
  <2>2. ASSUME NEW k \in 1..n, k - 1 \in T PROVE k \in T
    <3>1. s[k] \in S /\ Kept(s, gone)[k] = KeepOne(Kept(s, gone)[k - 1], s[k], gone) /\ k \in 0..n
      BY <1>1, <1>9
    <3> QED BY <1>2a, <2>2, <3>1
  <2> HIDE DEF T
  <2>3. \A k \in 0..n : k \in T
    BY <1>1, <2>1, <2>2, Along
  <2> QED BY <2>3 DEF T
<1>11. Kept(s, gone) \in [0..n -> A]
  BY <1>9, <1>10
<1> QED BY <1>9, <1>11

\* ms has the elements of the first k of s that are not gone, from places at.
Picks(ms, at, s, gone, k) ==
    /\ \A i \in 1..Len(ms) : at[i] \in 1..k /\ ms[i] = s[at[i]] /\ ms[i] \notin ToSet(gone)
    /\ \A i, j \in 1..Len(ms) : i < j => at[i] < at[j]
    /\ \A a \in 1..k : s[a] \notin ToSet(gone) => \E i \in 1..Len(ms) : at[i] = a

LEMMA KeptWell ==
  ASSUME NEW S, NEW s \in Seq(S), NEW gone
  PROVE  \A k \in 0..Len(s) : \E at : Picks(Kept(s, gone)[k], at, s, gone, k)
<1> DEFINE n == Len(s)
           m == Kept(s, gone)
           T == {k \in 0..n : \E at : Picks(m[k], at, s, gone, k)}
<1>0. n \in Nat
  OBVIOUS
<1>0a. /\ m \in [0..n -> Seq(S)] /\ m[0] = <<>>
       /\ \A k \in 1..n : m[k] = KeepOne(m[k - 1], s[k], gone)
  BY KeptIs
<1>1. 0 \in T
  <2>1. m[0] = <<>>
    BY <1>0a
  <2>2. Picks(m[0], <<>>, s, gone, 0)
    BY <2>1 DEF Picks
  <2> QED BY <1>0, <2>2
<1>2. ASSUME NEW k \in 1..n, k - 1 \in T PROVE k \in T
  <2>1. PICK at : Picks(m[k - 1], at, s, gone, k - 1)
    BY <1>2
  <2>2. m[k - 1] \in Seq(S) /\ m[k] = KeepOne(m[k - 1], s[k], gone) /\ s[k] \in S
    BY <1>0, <1>0a
  <2>3. \A a \in 1..k : a \in 1..(k - 1) \/ a = k
    OBVIOUS
  <2>4. \A a \in 1..(k - 1) : a \in 1..k
    OBVIOUS
  <2>5. CASE s[k] \in ToSet(gone)
    <3>1. m[k] = m[k - 1]
      BY <2>2, <2>5 DEF KeepOne
    <3>2. Picks(m[k], at, s, gone, k)
      BY <2>1, <2>3, <2>4, <2>5, <3>1 DEF Picks
    <3> QED BY <3>2
  <2>6. CASE s[k] \notin ToSet(gone)
    <3> DEFINE old == m[k - 1]
               now == Append(old, s[k])
               to == [i \in 1..Len(now) |-> IF i = Len(now) THEN k ELSE at[i]]
    <3>1. m[k] = now
      BY <2>2, <2>6 DEF KeepOne
    <3>2. /\ Len(old) \in Nat /\ Len(now) = Len(old) + 1 /\ now[Len(now)] = s[k]
          /\ \A i \in 1..Len(old) : now[i] = old[i]
      BY <2>2
    <3>3. Picks(old, at, s, gone, k - 1)
      BY <2>1
    <3> HIDE DEF now, old
    <3>4. \A i \in 1..Len(now) : i \in 1..Len(old) \/ i = Len(now)
      BY <3>2
    <3>5. /\ Len(now) \in 1..Len(now) /\ to[Len(now)] = k
          /\ \A i \in 1..Len(old) : i \in 1..Len(now) /\ i # Len(now) /\ to[i] = at[i]
      BY <3>2
    <3> HIDE DEF to
    <3>6. ASSUME NEW i \in 1..Len(now)
          PROVE  to[i] \in 1..k /\ now[i] = s[to[i]] /\ now[i] \notin ToSet(gone)
      <4>1. CASE i = Len(now)
        BY <2>6, <3>2, <3>5, <4>1
      <4>2. CASE i \in 1..Len(old)
        BY <2>4, <3>2, <3>3, <3>5, <4>2 DEF Picks
      <4> QED BY <3>4, <4>1, <4>2
    <3>7. ASSUME NEW i \in 1..Len(now), NEW j \in 1..Len(now), i < j PROVE to[i] < to[j]
      <4>1. i \in 1..Len(old) /\ at[i] \in 1..(k - 1)
        BY <3>2, <3>3, <3>7 DEF Picks
      <4>2. CASE j = Len(now)
        BY <3>5, <4>1, <4>2
      <4>3. CASE j \in 1..Len(old)
        BY <3>3, <3>5, <3>7, <4>1, <4>3 DEF Picks
      <4> QED BY <3>4, <4>2, <4>3
    <3>8. ASSUME NEW a \in 1..k, s[a] \notin ToSet(gone) PROVE \E i \in 1..Len(now) : to[i] = a
      <4>1. CASE a = k
        BY <3>5, <4>1
      <4>2. CASE a \in 1..(k - 1)
        BY <3>3, <3>5, <3>8, <4>2 DEF Picks
      <4> QED BY <2>3, <4>1, <4>2
    <3>9. Picks(now, to, s, gone, k)
      BY <3>6, <3>7, <3>8 DEF Picks
    <3> QED BY <3>1, <3>9
  <2> QED BY <2>5, <2>6
<1>3. \A k \in 1..n : k - 1 \in T => k \in T
  BY <1>2
<1> HIDE DEF T
<1>4. \A k \in 0..n : k \in T
  BY <1>0, <1>1, <1>3, Along
<1> QED BY <1>4 DEF T

\* bcdedit takes the objects named out of a list and leaves the others as they are.
LEMMA MinusIs ==
  ASSUME NEW S, NEW s \in Seq(S), NEW gone
  PROVE  Minus(s, gone) \in Seq(S) /\ \E at : Picks(Minus(s, gone), at, s, gone, Len(s))
<1>1. Len(s) \in 0..Len(s)
  OBVIOUS
<1> QED BY <1>1, KeptIs, KeptWell DEF Minus
-----------------------------------------------------------------------------
(***************************************************************************)
(* What the parser reads in the lines of {fwbootmgr}.                      *)
(***************************************************************************)
Lines == [kind : {"title", "dashes", "field", "item", "word", "blank"},
          key : FieldNames \cup {""}, value : Strings]

LEMMA LinesAre ==
  /\ \A key \in FieldNames, s \in Strings : Field(key, s) \in Lines
  /\ \A s \in Strings : Item(s) \in Lines
  /\ Blank \in Lines /\ Title \in Lines /\ Dashes \in Lines /\ Word \in Lines
  /\ \A id \in Objects \cup {Fwbootmgr} : BracedGuid(id) \in Strings
  /\ Empty \in Strings
<1>1. Empty \in Strings
  BY DEF Empty, Text, Strings, Bodies, Spellings
<1>2. \A id \in Objects \cup {Fwbootmgr} : BracedGuid(id) \in Strings
  BY DEF BracedGuid, Text, Strings, Bodies, Spellings
<1> QED BY <1>1, <1>2 DEF Line, Lines, Field, Item, Blank, Title, Dashes, Word

LEMMA PartsOf ==
  /\ \A key, s : /\ Field(key, s).kind = "field" /\ Field(key, s).key = key
                 /\ Field(key, s).value = s
  /\ \A s : Item(s).kind = "item" /\ Item(s).value = s
  /\ Title.kind = "title" /\ Dashes.kind = "dashes" /\ Blank.kind = "blank" /\ Word.kind = "word"
BY DEF Field, Item, Title, Dashes, Blank, Word, Line

JoinOfTwo(all, s, t, S) ==
    /\ all \in Seq(S) /\ Len(all) = Len(s) + Len(t)
    /\ \A k \in 1..Len(s) : all[k] = s[k]
    /\ \A k \in 1..Len(t) : all[Len(s) + k] = t[k]

LEMMA Joined ==
  ASSUME NEW S, NEW s \in Seq(S), NEW t \in Seq(S)
  PROVE  JoinOfTwo(s \o t, s, t, S)
BY DEF JoinOfTwo

JoinOf(all, h, a, b, l, S) ==
    /\ all \in Seq(S) /\ Len(all) = Len(h) + Len(a) + Len(b) + Len(l)
    /\ \A k \in 1..Len(h) : all[k] = h[k]
    /\ \A k \in 1..Len(a) : all[Len(h) + k] = a[k]
    /\ \A k \in 1..Len(b) : all[Len(h) + Len(a) + k] = b[k]
    /\ \A k \in 1..Len(l) : all[Len(h) + Len(a) + Len(b) + k] = l[k]

LEMMA FourJoined ==
  ASSUME NEW S, NEW h \in Seq(S), NEW a \in Seq(S), NEW b \in Seq(S), NEW l \in Seq(S)
  PROVE  JoinOf(h \o a \o b \o l, h, a, b, l, S)
BY DEF JoinOf

Typed == order \in Seq(Objects) /\ sequence \in Objects \cup {None}

\* The lines of {fwbootmgr}, one by one.
LEMMA FwbootmgrLinesAre ==
  ASSUME Typed
  PROVE  LET n == Len(order)
             m == IF sequence = None THEN 0 ELSE 1
             lines == FwbootmgrLines
         IN  /\ n \in Nat /\ lines \in Seq(Lines) /\ Len(lines) = 5 + n + m
             /\ lines[1] = Blank /\ lines[2] = Title /\ lines[3] = Dashes
             /\ lines[4] = Field("identifier", BracedGuid(Fwbootmgr))
             /\ n # 0 => lines[5] = Field("displayorder", BracedGuid(order[1]))
             /\ \A k \in 2..n : lines[4 + k] = Item(BracedGuid(order[k]))
             /\ m = 1 => lines[5 + n] = Field("bootsequence", BracedGuid(sequence))
             /\ lines[5 + n + m] = Field("timeout", Empty)
<1> DEFINE n == Len(order)
           m == IF sequence = None THEN 0 ELSE 1
           head == <<Blank, Title, Dashes, Field("identifier", BracedGuid(Fwbootmgr))>>
           A == ListLines("displayorder", order)
           B == ListLines("bootsequence", IF sequence = None THEN <<>> ELSE <<sequence>>)
           last == <<Field("timeout", Empty)>>
<1>1. n \in Nat /\ \A k \in 1..n : order[k] \in Objects
  BY DEF Typed
<1>2. head \in Seq(Lines) /\ Len(head) = 4 /\ last \in Seq(Lines) /\ Len(last) = 1
  <2>1. /\ Field("identifier", BracedGuid(Fwbootmgr)) \in Lines /\ Field("timeout", Empty) \in Lines
        /\ Blank \in Lines /\ Title \in Lines /\ Dashes \in Lines
    BY LinesAre DEF FieldNames
  <2> QED BY <2>1
<1>3. A \in Seq(Lines) /\ Len(A) = n
      /\ \A k \in 1..n : A[k] = IF k = 1 THEN Field("displayorder", BracedGuid(order[k]))
                               ELSE Item(BracedGuid(order[k]))
  <2>1. \A k \in 1..n : (IF k = 1 THEN Field("displayorder", BracedGuid(order[k]))
                         ELSE Item(BracedGuid(order[k]))) \in Lines
    BY <1>1, LinesAre DEF FieldNames
  <2> QED BY <1>1, <2>1 DEF ListLines
<1>4. /\ B \in Seq(Lines) /\ Len(B) = m
      /\ m = 1 => B[1] = Field("bootsequence", BracedGuid(sequence))
  <2>1. CASE sequence = None
    BY <2>1 DEF ListLines
  <2>2. CASE sequence # None
    <3> DEFINE ids == <<sequence>>
    <3>1. B = ListLines("bootsequence", ids) /\ Len(ids) = 1 /\ ids[1] = sequence
      BY <2>2
    <3> HIDE DEF ids, B
    <3>2. Field("bootsequence", BracedGuid(sequence)) \in Lines
      BY <2>2, LinesAre DEF FieldNames, Typed
    <3>3. B = [k \in 1..1 |-> IF k = 1 THEN Field("bootsequence", BracedGuid(ids[k]))
                              ELSE Item(BracedGuid(ids[k]))]
      BY <3>1 DEF ListLines
    <3>4. Len(B) = 1 /\ B[1] = Field("bootsequence", BracedGuid(sequence)) /\ B \in Seq(Lines)
      <4>1. B[1] = Field("bootsequence", BracedGuid(sequence)) /\ 1 \in 1..1
        BY <3>1, <3>3
      <4>2. B = [k \in 1..1 |-> B[k]] /\ \A k \in 1..1 : B[k] \in Lines
        BY <3>2, <3>3, <4>1
      <4> QED BY ONLY <4>1, <4>2
    <3> QED BY <2>2, <3>4
  <2> QED BY <2>1, <2>2
<1>5. FwbootmgrLines = head \o A \o B \o last
  BY DEF FwbootmgrLines
<1>6. head[1] = Blank /\ head[2] = Title /\ head[3] = Dashes
      /\ head[4] = Field("identifier", BracedGuid(Fwbootmgr)) /\ last[1] = Field("timeout", Empty)
  OBVIOUS
<1> HIDE DEF head, A, B, last
<1> DEFINE lines == head \o A \o B \o last
<1>9. /\ lines \in Seq(Lines) /\ Len(lines) = Len(head) + Len(A) + Len(B) + Len(last)
      /\ \A k \in 1..Len(head) : lines[k] = head[k]
      /\ \A k \in 1..Len(A) : lines[Len(head) + k] = A[k]
      /\ \A k \in 1..Len(B) : lines[Len(head) + Len(A) + k] = B[k]
      /\ \A k \in 1..Len(last) : lines[Len(head) + Len(A) + Len(B) + k] = last[k]
  <2>1. head \in Seq(Lines) /\ A \in Seq(Lines) /\ B \in Seq(Lines) /\ last \in Seq(Lines)
    BY <1>2, <1>3, <1>4
  <2>2. JoinOf(lines, head, A, B, last, Lines)
    BY ONLY <2>1, FourJoined, Zenon
  <2> HIDE DEF lines
  <2> QED BY <2>2 DEF JoinOf
<1>10. n \in Nat /\ m \in 0..1
  BY <1>1
<1> HIDE DEF lines, n, m
<1>11. /\ lines[1] = Blank /\ lines[2] = Title /\ lines[3] = Dashes
       /\ lines[4] = Field("identifier", BracedGuid(Fwbootmgr))
  BY <1>2, <1>6, <1>9, <1>10
<1>12. n # 0 => lines[5] = Field("displayorder", BracedGuid(order[1]))
  <2>1. n # 0 => lines[4 + 1] = A[1]
    BY <1>2, <1>3, <1>9, <1>10
  <2> QED BY <1>3, <1>10, <2>1
<1>13. ASSUME NEW k \in 2..n PROVE lines[4 + k] = Item(BracedGuid(order[k]))
  <2>1. lines[4 + k] = A[k]
    BY <1>2, <1>3, <1>9, <1>10
  <2> QED BY <1>3, <1>10, <2>1
<1>14. m = 1 => lines[5 + n] = Field("bootsequence", BracedGuid(sequence))
  <2>1. m = 1 => lines[4 + n + 1] = B[1]
    BY <1>2, <1>3, <1>4, <1>9, <1>10
  <2>2. 4 + n + 1 = 5 + n
    BY <1>10
  <2> QED BY <1>4, <2>1, <2>2
<1>15. lines[5 + n + m] = Field("timeout", Empty)
  <2>1. 4 + n + m + 1 = 5 + n + m
    BY <1>10
  <2>2. lines[4 + n + m + 1] = last[1]
    BY <1>2, <1>3, <1>4, <1>9, <1>10
  <2> QED BY <1>6, <2>1, <2>2
<1>16. FwbootmgrLines = lines
  BY <1>5 DEF lines
<1> QED BY <1>2, <1>3, <1>4, <1>9, <1>10, <1>11, <1>12, <1>13, <1>14, <1>15, <1>16 DEF n, m

LEMMA LeastIs ==
  ASSUME NEW T, T \subseteq Nat, T # {}
  PROVE  LET x == CHOOSE j \in T : \A m \in T : j <= m
         IN  x \in T /\ \A m \in T : x <= m
<1>1. \E x \in T : \A y \in T : x <= y
  BY HasLeast
<1> QED BY <1>1

\* An entry ends behind its dashes, at the next blank line or where the text ends.
LEMMA EndOfEntryIs ==
  ASSUME NEW lines, Len(lines) \in Nat, NEW u \in 1..Len(lines)
  PROVE  LET e == EndOfEntry(lines, u)
             n == Len(lines)
         IN  /\ e \in (u + 1)..(n + 1)
             /\ \A j \in (u + 2)..n : j < e => lines[j].kind # "blank"
             /\ e # n + 1 => e \in (u + 2)..n /\ lines[e].kind = "blank"
<1> DEFINE n == Len(lines)
           stops == {j \in (u + 2)..n : ~(lines[j].kind # "blank")}
<1>1. EndOfEntry(lines, u) = IF stops = {} THEN n + 1
                             ELSE CHOOSE j \in stops : \A m \in stops : j <= m
  BY DEF EndOfEntry, FirstFrom
<1>2. CASE stops = {}
  BY <1>1, <1>2
<1>3. CASE stops # {}
  <2>1. stops \subseteq Nat
    OBVIOUS
  <2>2. EndOfEntry(lines, u) \in stops /\ \A m \in stops : EndOfEntry(lines, u) <= m
    <3> HIDE DEF stops
    <3> QED BY <1>1, <1>3, <2>1, LeastIs
  <2>3. \A j \in (u + 2)..n : j < EndOfEntry(lines, u) => lines[j].kind # "blank"
    <3>1. SUFFICES ASSUME NEW j \in (u + 2)..n, j < EndOfEntry(lines, u), lines[j].kind = "blank"
                   PROVE  FALSE
      OBVIOUS
    <3>2. j \in stops
      BY <3>1
    <3>3. EndOfEntry(lines, u) \in Nat /\ EndOfEntry(lines, u) <= j
      BY <2>2, <3>2
    <3> QED BY <3>1, <3>3
  <2> QED BY <2>2, <2>3
<1> QED BY <1>2, <1>3

ParsedAt(lines, k, kli) == IF lines[k].kind = "dashes" THEN ParseEntry(lines, k, kli) ELSE None
EntriesFrom(f, lines, k, kli) ==
    IF ParsedAt(lines, k, kli) = None THEN f[k + 1]
    ELSE <<ParsedAt(lines, k, kli)>> \o f[EndOfEntry(lines, k)]

\* What the loop of parse_enum gives, from each line on.
LEMMA ParseEnumIs ==
  ASSUME NEW lines, NEW kli, Len(lines) \in Nat
  PROVE  \E from : /\ ParseEnum(lines, kli) = from[1]
                   /\ from[Len(lines) + 1] = <<>>
                   /\ \A k \in 1..Len(lines) : from[k] = EntriesFrom(from, lines, k, kli)
<1> DEFINE n == Len(lines)
           Body(f, k) == IF k > n THEN <<>>
                         ELSE LET parsed == IF lines[k].kind = "dashes" THEN ParseEntry(lines, k, kli)
                                            ELSE None
                              IN  IF parsed = None THEN f[k + 1]
                                  ELSE <<parsed>> \o f[EndOfEntry(lines, k)]
           Is(f) == f = [k \in 1..n + 1 |-> Body(f, k)]
           Behind(f, c) == \A k \in c..(n + 1) : f[k] = Body(f, k)
           T == {m \in 0..n : \E f : Behind(f, n + 1 - m)}
<1>1. \A k \in 1..n : EndOfEntry(lines, k) \in (k + 1)..(n + 1)
  BY EndOfEntryIs
<1>2. 0 \in T
  <2> DEFINE f == [k \in {n + 1} |-> <<>>]
  <2>1. \A k \in (n + 1 - 0)..(n + 1) : k = n + 1 /\ k > n
    OBVIOUS
  <2>2. Behind(f, n + 1 - 0)
    BY <2>1
  <2> HIDE DEF f, Behind
  <2> QED BY <2>2
<1>3. ASSUME NEW m \in 1..n, m - 1 \in T PROVE m \in T
  <2> DEFINE c == n + 1 - m
  <2>1. PICK f : Behind(f, n + 1 - (m - 1))
    BY <1>3
  <2>2. c \in 1..n /\ n + 1 - (m - 1) = c + 1
    OBVIOUS
  <2>3. \A k \in (c + 1)..(n + 1) : f[k] = Body(f, k)
    <3> HIDE DEF Body, c
    <3> QED BY <2>1, <2>2
  <2> DEFINE h == [k \in c..(n + 1) |-> IF k = c THEN Body(f, c) ELSE f[k]]
  <2> HIDE DEF c
  <2>4. h[c] = Body(f, c)
    <3> HIDE DEF Body
    <3> QED BY <2>2
  <2>5. \A k \in (c + 1)..(n + 1) : h[k] = f[k]
    <3> HIDE DEF Body
    <3> QED BY <2>2
  <2> HIDE DEF h
  <2>6. ASSUME NEW k \in c..(n + 1) PROVE Body(f, k) = Body(h, k)
    <3>1. CASE k > n
      BY <3>1
    <3>2. CASE k \in c..n
      <4>1. k \in 1..n /\ k + 1 \in (c + 1)..(n + 1) /\ ~(k > n)
        BY <2>2, <3>2
      <4>2. EndOfEntry(lines, k) \in (c + 1)..(n + 1)
        BY <1>1, <2>2, <3>2, <4>1
      <4>3. f[k + 1] = h[k + 1] /\ f[EndOfEntry(lines, k)] = h[EndOfEntry(lines, k)]
        BY <2>5, <4>1, <4>2
      <4> QED BY <4>3
    <3> QED BY <2>2, <3>1, <3>2
  <2>7. Behind(h, c)
    <3> SUFFICES ASSUME NEW k \in c..(n + 1) PROVE h[k] = Body(h, k)
      OBVIOUS
    <3>1. k = c \/ k \in (c + 1)..(n + 1)
      BY <2>2
    <3>2. h[k] = Body(f, k)
      <4> HIDE DEF Body
      <4> QED BY <2>3, <2>4, <2>5, <3>1
    <3> HIDE DEF Body
    <3> QED BY <2>6, <3>2
  <2>8. \E f2 : Behind(f2, n + 1 - m)
    <3> HIDE DEF Behind
    <3> QED BY <2>7 DEF c
  <2> HIDE DEF Behind
  <2> QED BY <2>8
<1>4. n \in T
  <2>1. \A m \in 1..n : m - 1 \in T => m \in T
    BY <1>3
  <2> HIDE DEF T
  <2>2. \A m \in 0..n : m \in T
    BY <1>2, <2>1, Along
  <2> QED BY <2>2
<1>5. PICK f : Behind(f, 1)
  <2>1. PICK f : Behind(f, n + 1 - n)
    BY <1>4
  <2>2. n + 1 - n = 1
    OBVIOUS
  <2> HIDE DEF Behind
  <2> QED BY <2>1, <2>2
<1> DEFINE g == [k \in 1..n + 1 |-> f[k]]
<1>6. Is(g)
  <2>1. ASSUME NEW k \in 1..n + 1 PROVE g[k] = Body(g, k)
    <3>1. g[k] = Body(f, k)
      <4> HIDE DEF Body
      <4> QED BY <1>5
    <3>2. Body(f, k) = Body(g, k)
      <4> HIDE DEF g
      <4>1. \A j \in 1..n + 1 : g[j] = f[j]
        BY DEF g
      <4>2. CASE k > n
        BY <4>2
      <4>3. CASE k \in 1..n
        <5>1. k + 1 \in 1..n + 1 /\ EndOfEntry(lines, k) \in 1..n + 1
          BY <1>1, <4>3
        <5>2. f[k + 1] = g[k + 1] /\ f[EndOfEntry(lines, k)] = g[EndOfEntry(lines, k)]
          BY <4>1, <5>1
        <5> QED BY <5>2
      <4> QED BY <4>2, <4>3
    <3> HIDE DEF Body, g
    <3> QED BY <3>1, <3>2
  <2> HIDE DEF Body
  <2>2. g = [k \in 1..n + 1 |-> g[k]]
    OBVIOUS
  <2> HIDE DEF g
  <2> QED BY <2>1, <2>2
<1> DEFINE from == CHOOSE h : Is(h)
<1>7. Is(from)
  <2> HIDE DEF Is
  <2> QED BY <1>6
<1>8. ParseEnum(lines, kli) = from[1]
  BY DEF ParseEnum
<1> HIDE DEF from
<1>9. \A k \in 1..n + 1 : from[k] = Body(from, k)
  <2> HIDE DEF Body
  <2> QED BY <1>7
<1>10. from[n + 1] = <<>>
  <2>1. n + 1 \in 1..n + 1 /\ n + 1 > n
    OBVIOUS
  <2> QED BY <1>9, <2>1
<1>11. ASSUME NEW k \in 1..n PROVE from[k] = EntriesFrom(from, lines, k, kli)
  <2>1. k \in 1..n + 1 /\ ~(k > n)
    OBVIOUS
  <2>2. from[k] = Body(from, k)
    <3> HIDE DEF Body
    <3> QED BY <1>9, <2>1
  <2> QED BY <2>1, <2>2 DEF EntriesFrom, ParsedAt
<1> QED BY <1>8, <1>10, <1>11

NamedIn(lines, u, key) ==
    {k \in (u + 2)..(EndOfEntry(lines, u) - 1) : lines[k].kind = "field" /\ lines[k].key = key}
LastNamed(lines, u, key) ==
    CHOOSE k \in NamedIn(lines, u, key) : \A j \in NamedIn(lines, u, key) : j <= k
KeysIn(lines, u) == {key \in {lines[k].key : k \in DOMAIN lines} : NamedIn(lines, u, key) # {}}
FieldsIn(lines, u, kli) ==
    [key \in KeysIn(lines, u) |-> IF key \in kli THEN ListField(lines, LastNamed(lines, u, key))
                                  ELSE <<lines[LastNamed(lines, u, key)].value>>]

LEMMA ParseEntryIs ==
  ASSUME NEW lines, NEW u, NEW kli
  PROVE  ParseEntry(lines, u, kli) =
           IF lines[u - 1].kind = "blank" \/ lines[u + 1].kind # "field" THEN None
           ELSE [identifier |-> lines[u + 1].value, fields |-> FieldsIn(lines, u, kli)]
BY DEF ParseEntry, FieldsIn, KeysIn, LastNamed, NamedIn

LEMMA OnlyNamed ==
  ASSUME NEW lines, NEW u, NEW key, NEW k \in Nat, NamedIn(lines, u, key) = {k}
  PROVE  LastNamed(lines, u, key) = k
<1> DEFINE T == NamedIn(lines, u, key)
<1>1. LastNamed(lines, u, key) = CHOOSE j \in T : \A m \in T : m <= j
  BY DEF LastNamed
<1>2. T = {k}
  OBVIOUS
<1>3. k \in T /\ \A m \in T : m <= k
  BY <1>2
<1> HIDE DEF T
<1>4. (CHOOSE j \in T : \A m \in T : m <= j) \in T
  BY <1>3
<1> QED BY <1>1, <1>2, <1>4

ItemsBehind(lines, k, n) ==
    /\ Len(lines) \in Nat /\ n # 0 /\ k + n <= Len(lines)
    /\ \A j \in (k + 1)..(k + n - 1) : lines[j].kind = "item"
    /\ lines[k + n].kind # "item"

LEMMA ListFieldIs ==
  ASSUME NEW lines, NEW k \in Nat, NEW n \in Nat, ItemsBehind(lines, k, n)
  PROVE  ListField(lines, k) = [j \in 1..(n - 1) |-> lines[k + j].value]
<1> USE DEF ItemsBehind
<1> DEFINE stops == {j \in (k + 1)..Len(lines) : ~(lines[j].kind = "item")}
           end == FirstFrom(k + 1, LAMBDA l : l.kind = "item", lines)
<1>1. end = IF stops = {} THEN Len(lines) + 1
            ELSE CHOOSE j \in stops : \A m \in stops : j <= m
  BY DEF FirstFrom
<1>2. k + n \in stops /\ stops \subseteq Nat
  OBVIOUS
<1>3. \A j \in stops : k + n <= j
  <2>1. SUFFICES ASSUME NEW j \in stops, j < k + n PROVE FALSE
    OBVIOUS
  <2>2. j \in (k + 1)..(k + n - 1)
    BY <2>1
  <2> QED BY <2>1, <2>2
<1>4. end = k + n
  <2> HIDE DEF stops
  <2>1. end \in stops /\ \A m \in stops : end <= m
    <3> HIDE DEF end
    <3> QED BY <1>1, <1>2, LeastIs
  <2> HIDE DEF end
  <2>2. end \in Nat /\ end <= k + n /\ k + n <= end
    BY <1>2, <1>3, <2>1
  <2> QED BY <2>2
<1>5. ListField(lines, k) = [j \in 1..(end - k - 1) |-> lines[k + j].value]
  BY DEF ListField
<1> HIDE DEF end
<1>6. end - k - 1 = n - 1
  BY <1>4
<1> QED BY <1>5, <1>6

Begins(lines, part) == Len(part) <= Len(lines) /\ \A k \in 1..Len(part) : lines[k] = part[k]

\* What parse_enum_entry makes of the first entry, {fwbootmgr}, whatever follows it.
LEMMA FwbootmgrEntryIs ==
  ASSUME Typed, NEW lines \in Seq(Lines), Begins(lines, FwbootmgrLines),
         EndOfEntry(lines, 3) = Len(FwbootmgrLines) + 1,
         NEW kli, kli \cap FieldNames = {"displayorder"}
  PROVE  LET entry == ParseEntry(lines, 3, kli)
         IN  /\ entry # None /\ entry.identifier = BracedGuid(Fwbootmgr)
             /\ entry.fields = FieldsIn(lines, 3, kli)
             /\ DOMAIN entry.fields = {"timeout"}
                  \cup (IF order = <<>> THEN {} ELSE {"displayorder"})
                  \cup (IF sequence = None THEN {} ELSE {"bootsequence"})
             /\ order # <<>> => entry.fields["displayorder"]
                                 = [k \in 1..(Len(order) - 1) |-> BracedGuid(order[k + 1])]
             /\ sequence # None => entry.fields["bootsequence"] = <<BracedGuid(sequence)>>
<1> DEFINE n == Len(order)
           m == IF sequence = None THEN 0 ELSE 1
           N == 5 + n + m
<1>1. n \in Nat /\ m \in 0..1 /\ (n = 0 <=> order = <<>>) /\ (m = 0 <=> sequence = None)
  BY DEF Typed
<1>2. /\ Len(FwbootmgrLines) = N /\ N <= Len(lines) /\ Len(lines) \in Nat
      /\ lines[1] = Blank /\ lines[2] = Title /\ lines[3] = Dashes
      /\ lines[4] = Field("identifier", BracedGuid(Fwbootmgr))
      /\ n # 0 => lines[5] = Field("displayorder", BracedGuid(order[1]))
      /\ \A k \in 2..n : lines[4 + k] = Item(BracedGuid(order[k]))
      /\ m = 1 => lines[5 + n] = Field("bootsequence", BracedGuid(sequence))
      /\ lines[5 + n + m] = Field("timeout", Empty)
  <2> DEFINE fw == FwbootmgrLines
  <2>1. /\ Len(fw) = N /\ fw[1] = Blank /\ fw[2] = Title /\ fw[3] = Dashes
        /\ fw[4] = Field("identifier", BracedGuid(Fwbootmgr))
        /\ n # 0 => fw[5] = Field("displayorder", BracedGuid(order[1]))
        /\ \A k \in 2..n : fw[4 + k] = Item(BracedGuid(order[k]))
        /\ m = 1 => fw[5 + n] = Field("bootsequence", BracedGuid(sequence))
        /\ fw[5 + n + m] = Field("timeout", Empty)
    BY FwbootmgrLinesAre
  <2>2. N <= Len(lines) /\ Len(lines) \in Nat /\ \A k \in 1..N : lines[k] = fw[k]
    <3> HIDE DEF fw, N
    <3> QED BY <2>1 DEF Begins, fw
  <2> HIDE DEF fw
  <2>3. \A k \in 2..n : 4 + k \in 1..N
    BY <1>1
  <2>4. 1 \in 1..N /\ 2 \in 1..N /\ 3 \in 1..N /\ 4 \in 1..N /\ 5 \in 1..N /\ 5 + n + m \in 1..N
        /\ 5 + n \in 1..N
    BY <1>1
  <2> HIDE DEF n, m, N
  <2>5. Len(FwbootmgrLines) = N
    BY <2>1 DEF fw
  <2> QED BY <2>1, <2>2, <2>3, <2>4, <2>5
<1>3. EndOfEntry(lines, 3) = N + 1
  BY <1>2
<1> HIDE DEF n, m
<1>4. \A k \in 5..N : \/ k = 5 /\ n # 0
                      \/ k - 4 \in 2..n /\ 4 + (k - 4) = k
                      \/ k = 5 + n /\ m = 1
                      \/ k = 5 + n + m
  BY <1>1
<1>5. ASSUME NEW k \in 5..N
      PROVE  /\ lines[k].kind = "field" <=> (k = 5 /\ n # 0) \/ (k = 5 + n /\ m = 1) \/ k = 5 + n + m
             /\ k = 5 /\ n # 0 => lines[k].key = "displayorder"
             /\ k = 5 + n /\ m = 1 => lines[k].key = "bootsequence"
             /\ k = 5 + n + m => lines[k].key = "timeout"
  <2>1. CASE k = 5 /\ n # 0
    BY <1>1, <1>2, <2>1 DEF Field, Line
  <2>2. CASE k - 4 \in 2..n /\ 4 + (k - 4) = k
    <3>1. lines[4 + (k - 4)] = Item(BracedGuid(order[k - 4]))
      BY <1>2, <2>2
    <3>2. lines[k] = Item(BracedGuid(order[k - 4]))
      BY <2>2, <3>1
    <3>2a. lines[k].kind = "item"
      BY <3>2, PartsOf
    <3>3. ~(k = 5) /\ ~(k = 5 + n) /\ ~(k = 5 + n + m)
      BY <1>1, <2>2
    <3> QED BY <3>2a, <3>3
  <2>3. CASE k = 5 + n /\ m = 1
    BY <1>1, <1>2, <2>3 DEF Field, Line
  <2>4. CASE k = 5 + n + m
    BY <1>1, <1>2, <2>4 DEF Field, Line
  <2> QED BY <1>4, <2>1, <2>2, <2>3, <2>4
<1>6. \A key : NamedIn(lines, 3, key) = {k \in 5..N : lines[k].kind = "field" /\ lines[k].key = key}
  <2>1. 3 + 2 = 5 /\ EndOfEntry(lines, 3) - 1 = N
    BY <1>1, <1>3
  <2> HIDE DEF N
  <2> QED BY <2>1 DEF NamedIn
<1>7. 5 \in 5..N /\ 5 + n \in 5..N /\ 5 + n + m \in 5..N
  BY <1>1
<1>8. /\ NamedIn(lines, 3, "displayorder") = IF n = 0 THEN {} ELSE {5}
      /\ NamedIn(lines, 3, "bootsequence") = IF m = 0 THEN {} ELSE {5 + n}
      /\ NamedIn(lines, 3, "timeout") = {5 + n + m}
      /\ \A key : key \notin {"displayorder", "bootsequence", "timeout"} =>
                  NamedIn(lines, 3, key) = {}
  <2> HIDE DEF N
  <2>1. NamedIn(lines, 3, "displayorder") = IF n = 0 THEN {} ELSE {5}
    BY <1>1, <1>5, <1>6, <1>7
  <2>2. NamedIn(lines, 3, "bootsequence") = IF m = 0 THEN {} ELSE {5 + n}
    BY <1>1, <1>5, <1>6, <1>7
  <2>3. NamedIn(lines, 3, "timeout") = {5 + n + m}
    BY <1>1, <1>5, <1>6, <1>7
  <2>4. \A key : key \notin {"displayorder", "bootsequence", "timeout"} =>
                  NamedIn(lines, 3, key) = {}
    BY <1>1, <1>5, <1>6, <1>7
  <2> QED BY <2>1, <2>2, <2>3, <2>4
<1>9. KeysIn(lines, 3) = {"timeout"} \cup (IF n = 0 THEN {} ELSE {"displayorder"})
                                    \cup (IF m = 0 THEN {} ELSE {"bootsequence"})
  <2>1. DOMAIN lines = 1..Len(lines)
    OBVIOUS
  <2>2. \A k \in 5..N : k \in DOMAIN lines
    BY <1>1, <1>2, <2>1
  <2> HIDE DEF N
  <2>3. "timeout" \in {lines[k].key : k \in DOMAIN lines}
    BY <1>5, <1>7, <2>2
  <2>4. n # 0 => "displayorder" \in {lines[k].key : k \in DOMAIN lines}
    BY <1>5, <1>7, <2>2
  <2>5. m # 0 => "bootsequence" \in {lines[k].key : k \in DOMAIN lines}
    BY <1>1, <1>5, <1>7, <2>2
  <2> QED BY <1>8, <2>3, <2>4, <2>5 DEF KeysIn
<1> DEFINE F == FieldsIn(lines, 3, kli)
<1>10. n # 0 => F["displayorder"] = [k \in 1..(n - 1) |-> BracedGuid(order[k + 1])]
  <2> HAVE n # 0
  <2>1. LastNamed(lines, 3, "displayorder") = 5
    BY <1>8, OnlyNamed
  <2>2. F["displayorder"] = ListField(lines, 5)
    BY <1>9, <2>1 DEF FieldsIn, FieldNames
  <2>3. \A j \in (5 + 1)..(5 + n - 1) : lines[j].kind = "item"
    <3>1. ASSUME NEW j \in (5 + 1)..(5 + n - 1) PROVE lines[j].kind = "item"
      <4>1. j - 4 \in 2..n /\ 4 + (j - 4) = j
        BY <1>1
      <4>2. lines[4 + (j - 4)] = Item(BracedGuid(order[j - 4]))
        BY <1>2, <4>1
      <4>3. lines[j] = Item(BracedGuid(order[j - 4]))
        BY <4>1, <4>2
      <4> QED BY <4>3, PartsOf
    <3> QED BY <3>1
  <2>4. lines[5 + n].kind # "item"
    <3>1. lines[5 + n].kind = "field"
      <4>1. m = 1 \/ 5 + n + m = 5 + n
        BY <1>1
      <4> QED BY <1>2, <4>1 DEF Field, Line
    <3> QED BY <3>1
  <2>5. 5 + n <= Len(lines)
    BY <1>1, <1>2
  <2>6. ListField(lines, 5) = [j \in 1..(n - 1) |-> lines[5 + j].value]
    <3>1. Len(lines) \in Nat /\ 5 \in Nat /\ n \in Nat /\ n # 0
      BY <1>1, <1>2
    <3>2. ItemsBehind(lines, 5, n)
      BY <2>3, <2>4, <2>5, <3>1, Zenon DEF ItemsBehind
    <3> QED BY ONLY <3>1, <3>2, ListFieldIs
  <2>7. ASSUME NEW j \in 1..(n - 1) PROVE lines[5 + j].value = BracedGuid(order[j + 1])
    <3>1. j + 1 \in 2..n /\ 4 + (j + 1) = 5 + j
      BY <1>1
    <3>2. lines[4 + (j + 1)] = Item(BracedGuid(order[j + 1]))
      BY <1>2, <3>1
    <3>3. lines[5 + j] = Item(BracedGuid(order[j + 1]))
      BY <3>1, <3>2
    <3> QED BY <3>3, PartsOf
  <2> HIDE DEF F
  <2> QED BY <2>2, <2>6, <2>7
<1>11. m # 0 => F["bootsequence"] = <<BracedGuid(sequence)>>
  <2> HAVE m # 0
  <2>1. LastNamed(lines, 3, "bootsequence") = 5 + n
    BY <1>1, <1>8, OnlyNamed
  <2>2. F["bootsequence"] = <<lines[5 + n].value>>
    BY <1>9, <2>1 DEF FieldsIn, FieldNames
  <2>3. lines[5 + n].value = BracedGuid(sequence)
    BY <1>1, <1>2 DEF Field, Line
  <2> QED BY <2>2, <2>3
<1>12. F["timeout"] = <<Empty>>
  <2>1. LastNamed(lines, 3, "timeout") = 5 + n + m
    BY <1>1, <1>8, OnlyNamed
  <2>2. F["timeout"] = <<lines[5 + n + m].value>>
    BY <1>9, <2>1 DEF FieldsIn, FieldNames
  <2>3. lines[5 + n + m].value = Empty
    BY <1>2 DEF Field, Line
  <2> QED BY <2>2, <2>3
<1>13. DOMAIN F = KeysIn(lines, 3) /\ F = [key \in DOMAIN F |-> F[key]]
  BY DEF FieldsIn
<1>14. F \in UNION {[keys -> Seq(Strings)] : keys \in SUBSET FieldNames}
  <2>1. DOMAIN F \in SUBSET FieldNames
    BY <1>9, <1>13 DEF FieldNames
  <2>2. n # 0 => F["displayorder"] \in Seq(Strings)
    <3> HAVE n # 0
    <3>1. \A k \in 1..(n - 1) : BracedGuid(order[k + 1]) \in Strings
      <4>1. \A k \in 1..(n - 1) : order[k + 1] \in Objects
        BY <1>1 DEF Typed, n
      <4> QED BY <4>1, LinesAre
    <3>2. n - 1 \in Nat
      BY <1>1
    <3>3. [k \in 1..(n - 1) |-> BracedGuid(order[k + 1])] \in Seq(Strings)
      BY <3>1, <3>2
    <3> HIDE DEF F
    <3> QED BY <1>10, <3>3, Zenon
  <2>3. m # 0 => F["bootsequence"] \in Seq(Strings)
    <3> HAVE m # 0
    <3>1. BracedGuid(sequence) \in Strings
      BY <1>1, LinesAre DEF Typed
    <3>2. <<BracedGuid(sequence)>> \in Seq(Strings)
      BY <3>1
    <3> HIDE DEF F
    <3> QED BY <1>11, <3>2
  <2>4. F["timeout"] \in Seq(Strings)
    <3> HIDE DEF F
    <3> QED BY <1>12, LinesAre
  <2>5. F \in [DOMAIN F -> Seq(Strings)]
    <3> HIDE DEF F
    <3>1. \A key \in DOMAIN F : F[key] \in Seq(Strings)
      BY <1>9, <1>13, <2>2, <2>3, <2>4
    <3> QED BY <1>13, <3>1
  <2> HIDE DEF F
  <2> QED BY <2>1, <2>5
<1>15. ParseEntry(lines, 3, kli) = [identifier |-> BracedGuid(Fwbootmgr), fields |-> F]
  <2>1. lines[2].kind # "blank" /\ lines[4].kind = "field"
        /\ lines[4].value = BracedGuid(Fwbootmgr)
    BY <1>2, PartsOf
  <2>2. 3 - 1 = 2 /\ 3 + 1 = 4
    OBVIOUS
  <2> QED BY <2>1, <2>2, ParseEntryIs
<1>16. [identifier |-> BracedGuid(Fwbootmgr), fields |-> F] \in Entries
  <2> HIDE DEF F
  <2> QED BY <1>14, LinesAre DEF Entries
<1>17. [identifier |-> BracedGuid(Fwbootmgr), fields |-> F] # None
  BY <1>16, SentinelAssumption
<1> HIDE DEF F
<1>18. ParseEntry(lines, 3, kli).fields = F /\ ParseEntry(lines, 3, kli).identifier = BracedGuid(Fwbootmgr)
  BY <1>15
<1> QED BY <1>1, <1>9, <1>10, <1>11, <1>13, <1>15, <1>17, <1>18 DEF F, n

LEMMA FwbootmgrKinds ==
  ASSUME Typed
  PROVE  /\ FwbootmgrLines \in Seq(Lines) /\ Len(FwbootmgrLines) \in Nat /\ Len(FwbootmgrLines) >= 5
         /\ FwbootmgrLines[3].kind = "dashes"
         /\ \A k \in 1..2 : FwbootmgrLines[k].kind # "dashes"
         /\ \A k \in 4..Len(FwbootmgrLines) : FwbootmgrLines[k].kind \in {"field", "item"}
<1> DEFINE n == Len(order)
           m == IF sequence = None THEN 0 ELSE 1
           N == 5 + n + m
           fw == FwbootmgrLines
<1>1. /\ n \in Nat /\ fw \in Seq(Lines) /\ Len(fw) = N
      /\ fw[1] = Blank /\ fw[2] = Title /\ fw[3] = Dashes
      /\ fw[4] = Field("identifier", BracedGuid(Fwbootmgr))
      /\ n # 0 => fw[5] = Field("displayorder", BracedGuid(order[1]))
      /\ \A k \in 2..n : fw[4 + k] = Item(BracedGuid(order[k]))
      /\ m = 1 => fw[5 + n] = Field("bootsequence", BracedGuid(sequence))
      /\ fw[5 + n + m] = Field("timeout", Empty)
  BY FwbootmgrLinesAre
<1>2. m \in 0..1
  OBVIOUS
<1> HIDE DEF n, m, fw
<1>3. ASSUME NEW k \in 4..N PROVE fw[k].kind \in {"field", "item"}
  <2>1. \/ k = 4
        \/ k = 5 /\ n # 0
        \/ k - 4 \in 2..n /\ 4 + (k - 4) = k
        \/ k = 5 + n /\ m = 1
        \/ k = 5 + n + m
    BY <1>1, <1>2
  <2>2. CASE k - 4 \in 2..n /\ 4 + (k - 4) = k
    <3>1. fw[4 + (k - 4)] = Item(BracedGuid(order[k - 4]))
      BY <1>1, <2>2
    <3>2. fw[k] = Item(BracedGuid(order[k - 4]))
      BY <2>2, <3>1
    <3> QED BY <3>2, PartsOf
  <2>3. CASE k = 4 \/ (k = 5 /\ n # 0) \/ (k = 5 + n /\ m = 1) \/ k = 5 + n + m
    BY <1>1, <2>3, PartsOf
  <2> QED BY <2>1, <2>2, <2>3
<1>4. \A k \in 1..2 : fw[k].kind # "dashes"
  <2>1. fw[1].kind # "dashes" /\ fw[2].kind # "dashes"
    BY <1>1, PartsOf
  <2> QED BY <2>1
<1>5. N \in Nat /\ N >= 5
  BY <1>1, <1>2
<1>6. fw[3].kind = "dashes"
  BY <1>1, PartsOf
<1> HIDE DEF N
<1> QED BY <1>1, <1>3, <1>4, <1>5, <1>6 DEF fw

-----------------------------------------------------------------------------
(***************************************************************************)
(* What is twice in a list.                                                *)
(***************************************************************************)
Twice(s, x) == \E i, j \in 1..Len(s) : i # j /\ s[i] = x /\ s[j] = x

LEMMA Members ==
  ASSUME NEW S, NEW s \in Seq(S)
  PROVE  /\ Len(s) \in Nat /\ ToSet(s) \subseteq S
         /\ \A x : x \in ToSet(s) <=> \E i \in 1..Len(s) : s[i] = x
BY DEF ToSet

LEMMA OfJoined ==
  ASSUME NEW S, NEW s \in Seq(S), NEW t \in Seq(S)
  PROVE  /\ s \o t \in Seq(S) /\ ToSet(s \o t) = ToSet(s) \cup ToSet(t)
         /\ \A x : Twice(s \o t, x) =>
                Twice(s, x) \/ Twice(t, x) \/ (x \in ToSet(s) /\ x \in ToSet(t))
<1> DEFINE all == s \o t
<1>1. /\ all \in Seq(S) /\ Len(all) = Len(s) + Len(t) /\ Len(s) \in Nat /\ Len(t) \in Nat
      /\ \A k \in 1..Len(s) : all[k] = s[k]
      /\ \A k \in 1..Len(t) : all[Len(s) + k] = t[k]
  OBVIOUS
<1> HIDE DEF all
<1>2. ASSUME NEW k \in 1..Len(all)
      PROVE  k \in 1..Len(s) \/ (k - Len(s) \in 1..Len(t) /\ all[k] = t[k - Len(s)])
  <2>1. CASE k - Len(s) \in 1..Len(t)
    <3>1. all[Len(s) + (k - Len(s))] = t[k - Len(s)] /\ Len(s) + (k - Len(s)) = k
      BY <1>1, <2>1
    <3> QED BY <2>1, <3>1
  <2> QED BY <1>1, <2>1
<1>3. ToSet(all) = ToSet(s) \cup ToSet(t)
  <2>1. ASSUME NEW x \in ToSet(all) PROVE x \in ToSet(s) \cup ToSet(t)
    <3>1. PICK k \in 1..Len(all) : all[k] = x
      BY <1>1, Members
    <3>2. CASE k \in 1..Len(s)
      <4>1. s[k] = x
        BY <1>1, <3>1, <3>2
      <4> QED BY <3>2, <4>1, Members
    <3>3. CASE k - Len(s) \in 1..Len(t) /\ all[k] = t[k - Len(s)]
      BY <3>1, <3>3, Members
    <3> QED BY <1>2, <3>2, <3>3
  <2>2. \A x \in ToSet(s) : x \in ToSet(all)
    <3>1. ASSUME NEW x \in ToSet(s) PROVE x \in ToSet(all)
      <4>1. PICK k \in 1..Len(s) : s[k] = x
        BY Members
      <4>2. k \in 1..Len(all) /\ all[k] = x
        BY <1>1, <4>1
      <4> QED BY <1>1, <4>2, Members
    <3> QED BY <3>1
  <2>3. \A x \in ToSet(t) : x \in ToSet(all)
    <3>1. ASSUME NEW x \in ToSet(t) PROVE x \in ToSet(all)
      <4>1. PICK k \in 1..Len(t) : t[k] = x
        BY Members
      <4>2. Len(s) + k \in 1..Len(all) /\ all[Len(s) + k] = x
        BY <1>1, <4>1
      <4> QED BY <1>1, <4>2, Members
    <3> QED BY <3>1
  <2> QED BY <2>1, <2>2, <2>3
<1>4. ASSUME NEW x, Twice(all, x)
      PROVE  Twice(s, x) \/ Twice(t, x) \/ (x \in ToSet(s) /\ x \in ToSet(t))
  <2>1. PICK i \in 1..Len(all), j \in 1..Len(all) : i # j /\ all[i] = x /\ all[j] = x
    BY <1>4 DEF Twice
  <2>2. CASE i \in 1..Len(s) /\ j \in 1..Len(s)
    BY <1>1, <2>1, <2>2 DEF Twice
  <2>3. CASE i \notin 1..Len(s) /\ j \notin 1..Len(s)
    <3>1. /\ i - Len(s) \in 1..Len(t) /\ j - Len(s) \in 1..Len(t) /\ i - Len(s) # j - Len(s)
          /\ t[i - Len(s)] = x /\ t[j - Len(s)] = x
      BY <1>1, <1>2, <2>1, <2>3
    <3> QED BY <3>1 DEF Twice
  <2>4. CASE (i \in 1..Len(s)) # (j \in 1..Len(s))
    <3>1. ASSUME NEW k \in 1..Len(all), all[k] = x, k \in 1..Len(s) PROVE x \in ToSet(s)
      <4>1. s[k] = x
        BY <1>1, <3>1
      <4> QED BY <3>1, <4>1, Members
    <3>2. ASSUME NEW k \in 1..Len(all), all[k] = x, k \notin 1..Len(s) PROVE x \in ToSet(t)
      <4>1. k - Len(s) \in 1..Len(t) /\ t[k - Len(s)] = x
        BY <1>1, <1>2, <3>2
      <4> QED BY <4>1, Members
    <3> QED BY <2>1, <2>4, <3>1, <3>2
  <2> QED BY <2>2, <2>3, <2>4
<1> QED BY <1>1, <1>3, <1>4 DEF all

LEMMA OfMinus ==
  ASSUME NEW S, NEW s \in Seq(S), NEW gone
  PROVE  /\ Minus(s, gone) \in Seq(S)
         /\ ToSet(Minus(s, gone)) = ToSet(s) \ ToSet(gone)
         /\ \A x : Twice(Minus(s, gone), x) => Twice(s, x)
<1> DEFINE m == Minus(s, gone)
<1>1. m \in Seq(S) /\ \E at : Picks(m, at, s, gone, Len(s))
  BY MinusIs
<1> HIDE DEF m
<1>2. PICK at : Picks(m, at, s, gone, Len(s))
  BY <1>1
<1>3. ToSet(m) = ToSet(s) \ ToSet(gone)
  <2>1. \A x \in ToSet(m) : x \in ToSet(s) /\ x \notin ToSet(gone)
    BY <1>1, <1>2, Members DEF Picks
  <2>2. ASSUME NEW x \in ToSet(s), x \notin ToSet(gone) PROVE x \in ToSet(m)
    <3>1. PICK a \in 1..Len(s) : s[a] = x
      BY Members
    <3>2. PICK i \in 1..Len(m) : at[i] = a
      BY <1>2, <2>2, <3>1 DEF Picks
    <3>3. m[i] = x
      BY <1>2, <3>1, <3>2 DEF Picks
    <3> QED BY <1>1, <3>3, Members
  <2> QED BY <2>1, <2>2
<1>4. ASSUME NEW x, Twice(m, x) PROVE Twice(s, x)
  <2>1. PICK i \in 1..Len(m), j \in 1..Len(m) : i # j /\ m[i] = x /\ m[j] = x
    BY <1>4 DEF Twice
  <2>2. at[i] \in 1..Len(s) /\ at[j] \in 1..Len(s) /\ s[at[i]] = x /\ s[at[j]] = x
    BY <1>2, <2>1 DEF Picks
  <2>3. at[i] # at[j]
    <3>1. i < j \/ j < i
      BY <1>1, <2>1
    <3>2. at[i] < at[j] \/ at[j] < at[i]
      BY <1>2, <3>1 DEF Picks
    <3> QED BY <2>2, <3>2
  <2> QED BY <2>2, <2>3 DEF Twice
<1> QED BY <1>1, <1>3, <1>4 DEF m
-----------------------------------------------------------------------------
(***************************************************************************)
(* The invariant.  The programs: a call that runs has given its strings.   *)
(* The firmware: what is listed is an object.                              *)
(***************************************************************************)
Results == {"none", "True", "False", "raised", "guid", "None", "[]", "entries"}
Programs ==
    /\ pc \in [Procs -> {"idle", "called"}]
    /\ cmd \in [Procs -> Commands \cup {NoCommand}] /\ result \in [Procs -> Results]
    /\ \A p \in Procs : pc[p] # "idle" => cmd[p] \in Commands /\ ToSet(cmd[p].ids) \subseteq given
Firmware ==
    /\ objects \subseteq Objects /\ order \in Seq(Objects) /\ ToSet(order) \subseteq objects
    /\ sequence \in Objects \cup {None}
IInv == Programs /\ Firmware /\ NoRepeats /\ BootmgrStays

\* No target twice, and one that is no GUID as bcdedit prints it was given.
SetWell(targets) ==
    /\ targets \in Seq(Targets)
    /\ \A i, j \in 1..Len(targets) : i # j => targets[i] # targets[j]
    /\ \A i \in 1..Len(targets) :
         targets[i].spelling # "guid" /\ targets[i].id \in Objects =>
           \E s \in given : s.body = targets[i].id /\ s.spelling # "guid"

LEMMA IdsTyped ==
  ASSUME Programs, NEW p \in Procs
  PROVE  /\ cmd[p].ids \in Seq(Strings)
         /\ cmd[p].op \in OnOne => cmd[p].ids[1] \in Strings /\ cmd[p].ids[1] \in ToSet(cmd[p].ids)
<1>1. CASE cmd[p] = NoCommand
  BY <1>1 DEF NoCommand, OnOne
<1>2. CASE cmd[p] \in Commands
  <2>1. cmd[p].ids \in Seq(Strings) /\ (cmd[p].op \in OnOne => Len(cmd[p].ids) = 1)
    BY <1>2, CommandsAssumption
  <2>2. ASSUME cmd[p].op \in OnOne
        PROVE  cmd[p].ids[1] \in Strings /\ cmd[p].ids[1] \in ToSet(cmd[p].ids)
    <3> DEFINE ids == cmd[p].ids
    <3>1. ids \in Seq(Strings) /\ Len(ids) = 1
      BY <2>1, <2>2
    <3> HIDE DEF ids
    <3>2. ids[1] \in Strings /\ ids[1] \in ToSet(ids)
      <4>1. 1 \in 1..Len(ids)
        BY <3>1
      <4> QED BY <3>1, <4>1, Members
    <3> QED BY <3>2 DEF ids
  <2> QED BY <2>1, <2>2
<1> QED BY <1>1, <1>2 DEF Programs

LEMMA FilterSetWell ==
  ASSUME NEW ids \in Seq(Strings), ToSet(ids) \subseteq given
  PROVE  SetWell(FilterList(ids, OnlyBootmgr))
<1> DEFINE t == FilterList(ids, OnlyBootmgr)
<1>1. CASE \E k \in 1..Len(ids) : Filter(ids[k], OnlyBootmgr) = None
  <2>1. t = <<>>
    BY <1>1, FilterListIs
  <2> QED BY <2>1 DEF SetWell
<1>2. CASE ~\E k \in 1..Len(ids) : Filter(ids[k], OnlyBootmgr) = None
  <2>1. t \in Seq(Targets) /\ Collects(t, ids, OnlyBootmgr, Len(ids))
    BY <1>2, FilterListIs
  <2> HIDE DEF t
  <2>2. ASSUME NEW i \in 1..Len(t), NEW j \in 1..Len(t), i # j PROVE t[i] # t[j]
    <3>1. i < j \/ j < i
      BY <2>2
    <3> QED BY <2>1, <3>1 DEF Collects
  <2>3. ASSUME NEW i \in 1..Len(t), t[i].spelling # "guid", t[i].id \in Objects
        PROVE  \E s \in given : s.body = t[i].id /\ s.spelling # "guid"
    <3>1. PICK k \in 1..Len(ids) : t[i] = Filter(ids[k], OnlyBootmgr)
      BY <2>1 DEF Collects
    <3>2. ids[k] \in Strings /\ ids[k] \in given
      BY Members
    <3>3. t[i].spelling = ids[k].spelling /\ (t[i].id = ids[k].body \/ t[i].id = Malformed)
      BY <1>2, <3>1, <3>2, FilterGives
    <3> QED BY <2>3, <3>2, <3>3, NamesAssumption
  <2>4. SetWell(t)
    BY <2>1, <2>2, <2>3 DEF SetWell
  <2> QED BY <2>4 DEF t
<1> QED BY <1>1, <1>2

LEMMA OneSetWell ==
  ASSUME NEW s \in Strings, s \in given, Filter(s, OnlyBootmgr) # None
  PROVE  SetWell(<<Filter(s, OnlyBootmgr)>>)
<1> DEFINE f == Filter(s, OnlyBootmgr)
<1>1. f \in Targets /\ f.spelling = s.spelling /\ (f.id = s.body \/ f.id = Malformed)
  BY FilterGives
<1> HIDE DEF f
<1>2. SetWell(<<f>>)
  BY <1>1, NamesAssumption DEF SetWell
<1> QED BY <1>2 DEF f

\* NoRepeats, said of what is twice in the order.
LEMMA NoRepeatsIs ==
  ASSUME order \in Seq(Objects)
  PROVE  NoRepeats <=> \A x : Twice(order, x) => \E s \in given : s.body = x /\ s.spelling # "guid"
<1>1. DOMAIN order = 1..Len(order)
  OBVIOUS
<1> QED BY <1>1 DEF NoRepeats, Twice

\* bcdedit lists an object twice only when it is told so, or when it was already.
LEMMA DisplayedIs ==
  ASSUME Firmware, NEW op \in {"replace", "addfirst", "addlast", "remove"},
         NEW ids \in Seq(Objects), ToSet(ids) \subseteq objects
  PROVE  LET now == Displayed(op, ids)
         IN  /\ now \in Seq(Objects) /\ ToSet(now) \subseteq objects
             /\ \A x : Twice(now, x) => Twice(ids, x) \/ Twice(order, x)
<1> DEFINE rest == Minus(order, ids)
<1>1. /\ rest \in Seq(Objects) /\ ToSet(rest) = ToSet(order) \ ToSet(ids)
      /\ \A x : Twice(rest, x) => Twice(order, x)
  BY OfMinus DEF Firmware
<1> HIDE DEF rest
<1>2. ToSet(rest) \subseteq objects /\ ToSet(rest) \cap ToSet(ids) = {}
  BY <1>1 DEF Firmware
<1>3. CASE op = "replace"
  BY <1>3 DEF Displayed
<1>4. CASE op = "remove"
  BY <1>1, <1>2, <1>4 DEF Displayed, rest
<1>5. CASE op = "addfirst"
  <2>1. Displayed(op, ids) = ids \o rest
    BY <1>5 DEF Displayed, rest
  <2> QED BY <1>1, <1>2, <2>1, OfJoined
<1>6. CASE op = "addlast"
  <2>1. Displayed(op, ids) = rest \o ids
    BY <1>6 DEF Displayed, rest
  <2> QED BY <1>1, <1>2, <2>1, OfJoined
<1> QED BY <1>3, <1>4, <1>5, <1>6

LEMMA SetKeeps ==
  ASSUME Firmware, NoRepeats, NEW p \in Procs, given' = given,
         NEW op \in {"replace", "addfirst", "addlast", "remove"}, NEW targets, SetWell(targets),
         SetDisplayOrder(p, op, targets)
  PROVE  Firmware' /\ NoRepeats' /\ objects' = objects
<1>1. CASE UNCHANGED firmware
  BY <1>1 DEF firmware, Firmware, NoRepeats
<1>2. CASE /\ ToSet(Named(targets)) \subseteq objects
           /\ order' = Displayed(op, Named(targets)) /\ UNCHANGED <<sequence, objects, edited>>
  <2> DEFINE ids == Named(targets)
  <2>1. /\ Len(ids) = Len(targets) /\ Len(targets) \in Nat /\ ids \in Seq(Bodies)
        /\ \A i \in 1..Len(targets) : ids[i] = targets[i].id /\ targets[i] \in Targets
    <3>1. DOMAIN targets = 1..Len(targets) /\ Len(targets) \in Nat
          /\ \A i \in 1..Len(targets) : targets[i] \in Targets
      BY DEF SetWell
    <3>2. ids = [i \in 1..Len(targets) |-> targets[i].id]
      BY <3>1 DEF Named
    <3>3. \A i \in 1..Len(targets) : targets[i].id \in Bodies
      BY <3>1 DEF Targets
    <3> HIDE DEF ids
    <3> QED BY <3>1, <3>2, <3>3
  <2> HIDE DEF ids
  <2>2. ToSet(ids) \subseteq objects /\ order' = Displayed(op, ids)
    BY <1>2 DEF ids
  <2>3. \A i \in 1..Len(ids) : ids[i] \in objects
    BY <2>1, <2>2, Members
  <2>4. ids \in Seq(Objects)
    BY <2>1, <2>3 DEF Firmware
  <2>5. /\ order' \in Seq(Objects) /\ ToSet(order') \subseteq objects
        /\ \A x : Twice(order', x) => Twice(ids, x) \/ Twice(order, x)
    BY <2>2, <2>4, DisplayedIs
  <2>6. ASSUME NEW x, Twice(ids, x) PROVE \E s \in given : s.body = x /\ s.spelling # "guid"
    <3>1. PICK i \in 1..Len(ids), j \in 1..Len(ids) : i # j /\ ids[i] = x /\ ids[j] = x
      BY <2>6 DEF Twice
    <3>2. /\ targets[i].id = x /\ targets[j].id = x /\ x \in Objects
          /\ targets[i] \in Targets /\ targets[j] \in Targets
      BY <2>1, <2>4, <3>1
    <3>3. targets[i] # targets[j]
      BY <2>1, <3>1 DEF SetWell
    <3>4. targets[i].spelling # "guid" \/ targets[j].spelling # "guid"
      BY <3>2, <3>3 DEF Targets
    <3> QED BY <2>1, <3>1, <3>2, <3>4 DEF SetWell
  <2>7. \A x : Twice(order, x) => \E s \in given : s.body = x /\ s.spelling # "guid"
    BY NoRepeatsIs DEF Firmware
  <2>8. \A x : Twice(order', x) => \E s \in given' : s.body = x /\ s.spelling # "guid"
    BY <2>5, <2>6, <2>7
  <2>9. DOMAIN order' = 1..Len(order')
    BY <2>5
  <2>10. NoRepeats'
    BY <2>8, <2>9 DEF NoRepeats, Twice
  <2> QED BY <1>2, <2>5, <2>10 DEF Firmware
<1> QED BY <1>1, <1>2 DEF SetDisplayOrder
-----------------------------------------------------------------------------
(***************************************************************************)
(* Every step keeps the invariant.                                         *)
(***************************************************************************)
LEMMA InitHolds == Init => IInv
<1> SUFFICES ASSUME Init PROVE IInv
  OBVIOUS
<1>1. order \in Seq(Objects) /\ \A i, j \in 1..Len(order) : order[i] = order[j] => i = j
  BY InitOrdersAssumption DEF Init
<1>2. DOMAIN order = 1..Len(order) /\ ToSet(order) \subseteq Objects
  BY <1>1, Members
<1>3. Firmware
  BY <1>1, <1>2 DEF Init, Firmware, Objects
<1>4. NoRepeats
  BY <1>1, <1>2 DEF NoRepeats
<1>5. Programs
  BY DEF Init, Programs, Results
<1>6. BootmgrStays
  BY DEF Init, BootmgrStays
<1> QED BY <1>3, <1>4, <1>5, <1>6 DEF IInv

LEMMA EndKeeps ==
  ASSUME Programs, NEW p \in Procs, NEW what \in Results, End(p, what), given' = given
  PROVE  Programs'
<1>1. /\ pc' = [pc EXCEPT ![p] = "idle"] /\ cmd' = [cmd EXCEPT ![p] = NoCommand]
      /\ result' = [result EXCEPT ![p] = what]
  BY DEF End
<1>2. \A q \in Procs : /\ q = p => pc'[q] = "idle"
                       /\ q # p => pc'[q] = pc[q] /\ cmd'[q] = cmd[q]
  BY <1>1 DEF Programs
<1> QED BY <1>1, <1>2 DEF Programs

LEMMA CallKeeps ==
  ASSUME IInv, NEW p \in Procs, Call(p)
  PROVE  IInv'
<1> USE DEF IInv
<1>1. PICK c \in Commands : cmd' = [cmd EXCEPT ![p] = c] /\ given' = given \cup ToSet(c.ids)
  BY DEF Call
<1>2. /\ pc' = [pc EXCEPT ![p] = "called"] /\ result' = [result EXCEPT ![p] = "none"]
      /\ UNCHANGED firmware
  BY DEF Call
<1>3. \A q \in Procs : /\ q = p => pc'[q] = "called" /\ cmd'[q] = c
                       /\ q # p => pc'[q] = pc[q] /\ cmd'[q] = cmd[q]
  BY <1>1, <1>2 DEF Programs
<1>4. Programs'
  <2>1. \A q \in Procs : pc'[q] # "idle" => cmd'[q] \in Commands /\ ToSet(cmd'[q].ids) \subseteq given'
    BY <1>1, <1>3 DEF Programs
  <2> QED BY <1>1, <1>2, <2>1 DEF Programs, Results
<1>5. Firmware' /\ NoRepeats' /\ BootmgrStays'
  BY <1>1, <1>2 DEF firmware, Firmware, NoRepeats, BootmgrStays
<1> QED BY <1>4, <1>5

LEMMA OrderCommandsKeep ==
  ASSUME IInv, NEW p \in Procs, Modify(p) \/ RemoveOne(p)
  PROVE  IInv'
<1> USE DEF IInv
<1>1. given' = given
  BY DEF Modify, RemoveOne
<1>2. \/ End(p, "False") /\ UNCHANGED firmware
      \/ \E op \in {"replace", "addfirst", "addlast", "remove"} : \E targets :
           SetWell(targets) /\ SetDisplayOrder(p, op, targets)
  <2>1. CASE Modify(p)
    <3>1. SetWell(FilterList(cmd[p].ids, OnlyBootmgr))
      <4>1. pc[p] # "idle"
        BY <2>1 DEF Modify
      <4> QED BY <4>1, IdsTyped, FilterSetWell DEF Programs
    <3> QED BY <2>1, <3>1 DEF Modify
  <2>2. CASE RemoveOne(p)
    <3> DEFINE target == Filter(cmd[p].ids[1], OnlyBootmgr)
    <3>1. cmd[p].ids[1] \in Strings /\ cmd[p].ids[1] \in given
      BY <2>2, IdsTyped DEF RemoveOne, Programs, OnOne
    <3>2. target # None => SetWell(<<target>>)
      BY <3>1, OneSetWell
    <3>3. IF target = None THEN End(p, "False") /\ UNCHANGED firmware
          ELSE SetDisplayOrder(p, "remove", <<target>>)
      BY <2>2 DEF RemoveOne
    <3> HIDE DEF target
    <3> QED BY <3>2, <3>3
  <2> QED BY <2>1, <2>2
<1>3. \E what \in Results : End(p, what)
  BY <1>2 DEF SetDisplayOrder, Results
<1>4. Programs'
  BY <1>1, <1>3, EndKeeps
<1>5. Firmware' /\ NoRepeats' /\ objects' = objects
  <2>1. CASE UNCHANGED firmware
    BY <1>1, <2>1 DEF firmware, Firmware, NoRepeats
  <2>2. CASE \E op \in {"replace", "addfirst", "addlast", "remove"} : \E targets :
               SetWell(targets) /\ SetDisplayOrder(p, op, targets)
    BY <1>1, <2>2, SetKeeps
  <2> QED BY <1>2, <2>1, <2>2
<1>6. BootmgrStays'
  BY <1>1, <1>5 DEF BootmgrStays
<1> QED BY <1>4, <1>5, <1>6

LEMMA ReadersKeep ==
  ASSUME IInv, NEW p \in Procs, AddFirstForce(p) \/ List(p) \/ Enum(p)
  PROVE  IInv'
<1> USE DEF IInv
<1>1. given' = given /\ UNCHANGED firmware
  BY DEF AddFirstForce, List, Enum
<1>2. Firmware' /\ NoRepeats' /\ BootmgrStays'
  BY <1>1 DEF firmware, Firmware, NoRepeats, BootmgrStays
<1>3. \E what \in Results : End(p, what)
  BY DEF Results, AddFirstForce, List, Enum
<1>4. Programs'
  BY <1>1, <1>3, EndKeeps
<1> QED BY <1>2, <1>4

LEMMA EntryCommandsKeep ==
  ASSUME IInv, NEW p \in Procs, SetSequence(p) \/ Delete(p) \/ Copy(p) \/ ModifyEntry(p)
  PROVE  IInv'
<1> USE DEF IInv
<1>1. given' = given
  BY DEF SetSequence, Delete, Copy, ModifyEntry
<1>2. \E what \in Results : End(p, what)
  BY DEF Results, SetSequence, Delete, Copy, ModifyEntry
<1>3. Programs'
  BY <1>1, <1>2, EndKeeps
<1>4. CASE UNCHANGED firmware
  BY <1>1, <1>3, <1>4 DEF firmware, Firmware, NoRepeats, BootmgrStays
<1>5. CASE UNCHANGED <<order, objects>> /\ sequence' \in Objects \cup {None}
  BY <1>1, <1>3, <1>5 DEF Firmware, NoRepeats, BootmgrStays
<1>6. CASE SetSequence(p)
  <2>1. \/ UNCHANGED firmware
        \/ UNCHANGED <<order, objects>> /\ sequence' \in objects
    BY <1>6 DEF SetSequence
  <2> QED BY <1>4, <1>5, <2>1 DEF Firmware
<1>7. CASE ModifyEntry(p)
  <2>1. UNCHANGED firmware \/ UNCHANGED <<order, sequence, objects>>
    BY <1>7 DEF ModifyEntry
  <2> QED BY <1>4, <1>5, <2>1 DEF Firmware
<1>8. CASE Copy(p)
  <2>1. CASE UNCHANGED firmware
    BY <1>4, <2>1
  <2>2. CASE \E id \in Ids \ objects : /\ objects' = objects \cup {id} /\ order' = Append(order, id)
                                       /\ UNCHANGED <<sequence, edited>>
    <3>1. PICK id \in Ids \ objects : /\ objects' = objects \cup {id} /\ order' = Append(order, id)
                                     /\ UNCHANGED <<sequence, edited>>
      BY <2>2
    <3>2. order \in Seq(Objects) /\ id \in Objects /\ id \notin ToSet(order)
      BY <3>1 DEF Firmware, Objects
    <3>3. /\ order' \in Seq(Objects) /\ Len(order') = Len(order) + 1 /\ Len(order) \in Nat
          /\ \A i \in 1..Len(order) : order'[i] = order[i]
          /\ order'[Len(order) + 1] = id
      BY <3>1, <3>2
    <3>4. \A i \in 1..Len(order') : i \in 1..Len(order) \/ i = Len(order) + 1
      BY <3>3
    <3>5. ToSet(order') \subseteq objects'
      <4>1. \A i \in 1..Len(order) : order[i] \in objects
        BY <3>2, Members DEF Firmware
      <4>2. \A i \in 1..Len(order') : order'[i] \in objects'
        BY <3>1, <3>3, <3>4, <4>1
      <4> QED BY <3>3, <4>2, Members
    <3>6. ASSUME NEW x, Twice(order', x) PROVE Twice(order, x)
      <4>1. PICK i \in 1..Len(order'), j \in 1..Len(order') : i # j /\ order'[i] = x /\ order'[j] = x
        BY <3>6 DEF Twice
      <4>2. \A k \in 1..Len(order) : order[k] # id
        BY <3>2, Members
      <4>3. i \in 1..Len(order) /\ j \in 1..Len(order)
        BY <3>3, <3>4, <4>1, <4>2
      <4> QED BY <3>3, <4>1, <4>3 DEF Twice
    <3>7. \A x : Twice(order', x) => \E s \in given' : s.body = x /\ s.spelling # "guid"
      BY <1>1, <3>2, <3>6, NoRepeatsIs
    <3>8. DOMAIN order' = 1..Len(order')
      BY <3>3
    <3>9. NoRepeats'
      BY <3>7, <3>8 DEF NoRepeats, Twice
    <3>10. Firmware' /\ BootmgrStays'
      BY <1>1, <3>1, <3>3, <3>5 DEF Firmware, BootmgrStays, Objects
    <3> QED BY <1>3, <3>9, <3>10
  <2> QED BY <1>8, <2>1, <2>2 DEF Copy
<1>9. CASE Delete(p)
  <2> DEFINE s == cmd[p].ids[1]
             target == DeleteTarget(s)
  <2>1. CASE UNCHANGED firmware
    BY <1>4, <2>1
  <2>2. CASE /\ target # None /\ target.id \in objects /\ objects' = objects \ {target.id}
             /\ order' = Minus(order, <<target.id>>)
             /\ sequence' = IF sequence = target.id THEN None ELSE sequence
    <3>1. s \in Strings /\ s \in given
      BY <1>9, IdsTyped DEF Delete, Programs, OnOne
    <3>2. /\ order' \in Seq(Objects) /\ ToSet(order') = ToSet(order) \ ToSet(<<target.id>>)
          /\ \A x : Twice(order', x) => Twice(order, x)
      BY <2>2, OfMinus DEF Firmware
    <3>3. ToSet(<<target.id>>) = {target.id}
      BY DEF ToSet
    <3>4. \A x : Twice(order', x) => \E g \in given' : g.body = x /\ g.spelling # "guid"
      BY <1>1, <3>2, NoRepeatsIs DEF Firmware
    <3>5. DOMAIN order' = 1..Len(order')
      BY <3>2
    <3>6. NoRepeats'
      BY <3>4, <3>5 DEF NoRepeats, Twice
    <3>7. Firmware'
      BY <2>2, <3>2, <3>3 DEF Firmware
    <3>8. target.id = Bootmgr => s.body = Bootmgr /\ s.spelling # "name"
      <4>1. IsGuid(s) /\ (target.id = s.body \/ target.id = Malformed)
        BY <2>2 DEF DeleteTarget, Filter, Target
      <4>2. s.spelling # "name"
        BY <3>1, <4>1 DEF Strings
      <4> QED BY <4>1, <4>2, NamesAssumption DEF Objects
    <3>9. BootmgrStays'
      <4> HIDE DEF target, s
      <4> QED BY <1>1, <2>2, <3>1, <3>8 DEF BootmgrStays
    <3> QED BY <1>3, <3>6, <3>7, <3>9
  <2> QED BY <1>9, <2>1, <2>2 DEF Delete
<1> QED BY <1>6, <1>7, <1>8, <1>9

LEMMA StepKeeps == IInv /\ [Next]_vars => IInv'
<1> SUFFICES ASSUME IInv, [Next]_vars PROVE IInv'
  OBVIOUS
<1>1. CASE UNCHANGED vars
  BY <1>1 DEF vars, firmware, IInv, Programs, Firmware, NoRepeats, BootmgrStays
<1>2. ASSUME NEW p \in Procs, Step(p) PROVE IInv'
  BY <1>2, CallKeeps, OrderCommandsKeep, ReadersKeep, EntryCommandsKeep DEF Step
<1> QED BY <1>1, <1>2 DEF Next

LEMMA Invariant == Spec => []IInv
BY InitHolds, StepKeeps, PTL DEF Spec
-----------------------------------------------------------------------------
(***************************************************************************)
(* What the invariant says of the program.                                 *)
(***************************************************************************)
\* The firmware lists nothing twice before a call gave it in another spelling:
\* no list of identifiers a call is given, and no order of the commands of any
\* number of programs, makes two of one.
THEOREM OrderHasNoRepeats == Spec => []NoRepeats
<1>1. IInv => NoRepeats
  BY DEF IInv
<1> QED BY <1>1, Invariant, PTL

\* The boot manager stays until a call gives its GUID: the well-known names never
\* get past the filter of cmd_entry_delete.
THEOREM BootmgrIsKept == Spec => []BootmgrStays
<1>1. IInv => BootmgrStays
  BY DEF IInv
<1> QED BY <1>1, Invariant, PTL

\* Where a collected target was found first.
LEMMA FirstPlace ==
  ASSUME NEW ts, NEW ids, NEW w, NEW k \in Nat, Collects(ts, ids, w, k), NEW i \in 1..Len(ts)
  PROVE  \E a \in 1..k : FirstAt(ids, w, a, ts[i])
<1> DEFINE T == {a \in 1..k : Filter(ids[a], w) = ts[i]}
<1>1. PICK b \in 1..k : ts[i] = Filter(ids[b], w)
  BY DEF Collects
<1>2. b \in T /\ T \subseteq Nat
  BY <1>1
<1>3. PICK a \in T : \A x \in T : a <= x
  <2> HIDE DEF T
  <2> QED BY <1>2, HasLeast
<1>4. a \in 1..k /\ Filter(ids[a], w) = ts[i]
  OBVIOUS
<1>5. ASSUME NEW j \in 1..(a - 1), Filter(ids[j], w) = ts[i] PROVE FALSE
  <2>1. j \in T /\ ~(a <= j)
    BY <1>4, <1>5
  <2> QED BY <1>3, <2>1
<1> QED BY <1>4, <1>5 DEF FirstAt

LEMMA FilterIsRight ==
  ASSUME NEW ids \in Seq(Strings)
  PROVE  LET targets == FilterList(ids, OnlyBootmgr)
             target(k) == Filter(ids[k], OnlyBootmgr)
             first(j) == Min({k \in DOMAIN ids : target(k) = targets[j]})
         IN  IF \E k \in DOMAIN ids : target(k) = None THEN targets = <<>>
             ELSE /\ ToSet(targets) = {target(k) : k \in DOMAIN ids}
                  /\ \A i, j \in DOMAIN targets : i < j => first(i) < first(j)
<1> DEFINE t == FilterList(ids, OnlyBootmgr)
           n == Len(ids)
           target(k) == Filter(ids[k], OnlyBootmgr)
           at(j) == {k \in DOMAIN ids : target(k) = t[j]}
<1>1. DOMAIN ids = 1..n /\ n \in Nat
  OBVIOUS
<1>2. CASE \E k \in 1..n : target(k) = None
  BY <1>1, <1>2, FilterListIs
<1>3. CASE ~\E k \in 1..n : target(k) = None
  <2>1. t \in Seq(Targets) /\ Collects(t, ids, OnlyBootmgr, n)
    BY <1>3, FilterListIs
  <2> HIDE DEF t
  <2>2. DOMAIN t = 1..Len(t) /\ Len(t) \in Nat
    BY <2>1
  <2>3. ToSet(t) = {target(k) : k \in DOMAIN ids}
    <3>1. ASSUME NEW x \in ToSet(t) PROVE x \in {target(k) : k \in DOMAIN ids}
      <4>1. PICK i \in 1..Len(t) : t[i] = x
        BY <2>1, Members
      <4>2. PICK k \in 1..n : t[i] = target(k)
        BY <2>1 DEF Collects
      <4> QED BY <1>1, <4>1, <4>2
    <3>2. ASSUME NEW k \in 1..n PROVE target(k) \in ToSet(t)
      <4>1. PICK i \in 1..Len(t) : t[i] = target(k)
        BY <2>1 DEF Collects
      <4> QED BY <2>1, <4>1, Members
    <3> QED BY <1>1, <3>1, <3>2
  <2>4. ASSUME NEW j \in DOMAIN t PROVE Min(at(j)) \in 1..n /\ FirstAt(ids, OnlyBootmgr, Min(at(j)), t[j])
    <3>1. PICK a \in 1..n : FirstAt(ids, OnlyBootmgr, a, t[j])
      BY <1>1, <2>1, <2>2, FirstPlace
    <3>2. a \in at(j) /\ \A b \in at(j) : b \in 1..n /\ ~(b \in 1..(a - 1))
      BY <1>1, <3>1 DEF FirstAt
    <3>3. \A b \in at(j) : a <= b /\ (b <= a => b = a)
      BY <3>2
    <3>4. Min(at(j)) = a
      <4> HIDE DEF at
      <4> QED BY <3>2, <3>3 DEF Min
    <3> HIDE DEF at
    <3> QED BY <3>1, <3>4
  <2>5. ASSUME NEW i \in DOMAIN t, NEW j \in DOMAIN t, i < j PROVE Min(at(i)) < Min(at(j))
    <3> HIDE DEF at
    <3>1. i \in 1..Len(t) /\ j \in 1..Len(t)
      BY <2>2
    <3> QED BY <2>1, <2>4, <2>5, <3>1 DEF Collects
  <2>6. ~\E k \in DOMAIN ids : target(k) = None
    BY <1>1, <1>3
  <2> QED BY <2>3, <2>5, <2>6 DEF t
<1> QED BY <1>2, <1>3

\* util_filter_identifier_list gives what every string stands for, once and in the
\* order of the strings, or nothing: for every list of strings, however long.
THEOREM FilterAllOrNothing == Spec => []FilterIsAllOrNothing
<1>1. IInv => FilterIsAllOrNothing
  <2> SUFFICES ASSUME IInv, NEW p \in Procs
               PROVE  LET ids == cmd[p].ids
                          targets == FilterList(ids, OnlyBootmgr)
                          target(k) == Filter(ids[k], OnlyBootmgr)
                          first(j) == Min({k \in DOMAIN ids : target(k) = targets[j]})
                      IN  IF \E k \in DOMAIN ids : target(k) = None THEN targets = <<>>
                          ELSE /\ ToSet(targets) = {target(k) : k \in DOMAIN ids}
                               /\ \A i, j \in DOMAIN targets : i < j => first(i) < first(j)
    BY DEF FilterIsAllOrNothing
  <2>1. cmd[p].ids \in Seq(Strings)
    BY IdsTyped DEF IInv
  <2> QED BY <2>1, FilterIsRight
<1> QED BY <1>1, Invariant, PTL

(***************************************************************************)
(* The enumeration's lines, joined of the first group's and of seven for   *)
(* each entry, and what the parser makes of them.                          *)
(***************************************************************************)
\* What FlattenSeq joins: each part is put behind those in front of it.
JoinedUp(f, seqs) == /\ f[0] = <<>>
                     /\ \A k \in 1..Len(seqs) : f[k] = f[k - 1] \o seqs[k]

LEMMA PrefixesExist ==
  ASSUME NEW S, NEW seqs \in Seq(Seq(S))
  PROVE  \E f \in [0..Len(seqs) -> Seq(S)] : JoinedUp(f, seqs)
<1> DEFINE n == Len(seqs)
           A == Seq(S)
           g == [k \in 1..n |-> [a \in A |-> a \o seqs[k]]]
<1>1. n \in Nat /\ \A k \in 1..n : seqs[k] \in A
  OBVIOUS
<1>2. <<>> \in A /\ \A a, b \in A : a \o b \in A
  OBVIOUS
<1>3. g \in [1..n -> [A -> A]]
  <2> HIDE DEF A, n
  <2> QED BY <1>1, <1>2
<1>4. PICK f \in [0..n -> A] : Loop(f, <<>>, g, n)
  <2> HIDE DEF g, n, A
  <2> QED BY <1>1, <1>2, <1>3, LoopExists
<1>5. ASSUME NEW k \in 1..n PROVE f[k] = f[k - 1] \o seqs[k]
  <2>1. f[k - 1] \in A
    <3> HIDE DEF A, n, g
    <3> QED BY <1>1, <1>4
  <2>2. f[k] = g[k][f[k - 1]]
    <3> HIDE DEF A, n, g
    <3> QED BY <1>4 DEF Loop
  <2> HIDE DEF A, n
  <2> QED BY <2>1, <2>2
<1>6. f[0] = <<>>
  BY <1>4 DEF Loop
<1> HIDE DEF g
<1> QED BY <1>4, <1>5, <1>6 DEF JoinedUp

LEMMA FlattenIs ==
  ASSUME NEW S, NEW seqs \in Seq(Seq(S))
  PROVE  \E f \in [0..Len(seqs) -> Seq(S)] :
            JoinedUp(f, seqs) /\ FlattenSeq(seqs) = f[Len(seqs)]
<1> DEFINE n == Len(seqs)
           Is(g) == g = [i \in 1..n |-> IF i = 1 THEN seqs[i] ELSE g[i - 1] \o seqs[i]]
           flat == CHOOSE g : Is(g)
<1>1. PICK f \in [0..n -> Seq(S)] : JoinedUp(f, seqs)
  BY PrefixesExist
<1>2. CASE n = 0
  <2>1. FlattenSeq(seqs) = seqs /\ seqs = <<>>
    BY <1>2 DEF FlattenSeq
  <2> QED BY <1>1, <1>2, <2>1 DEF JoinedUp
<1>3. CASE n # 0
  <2>1. FlattenSeq(seqs) = flat[n]
    BY <1>3 DEF FlattenSeq
  <2> DEFINE g == [i \in 1..n |-> f[i]]
  <2>2. \A i \in 1..n : i # 1 => i - 1 \in 1..n
    OBVIOUS
  <2>3. \A i \in 1..n : g[i] = IF i = 1 THEN seqs[i] ELSE g[i - 1] \o seqs[i]
    <3>1. ASSUME NEW i \in 1..n, i = 1 PROVE f[i] = seqs[i]
      <4>1. f[1] = f[0] \o seqs[1] /\ f[0] = <<>>
        <5>1. 1 - 1 = 0 /\ 1 \in 1..n
          BY <3>1
        <5> QED BY <1>1, <5>1 DEF JoinedUp
      <4>2. seqs[1] \in Seq(S)
        BY <3>1
      <4> QED BY <3>1, <4>1, <4>2
    <3> QED BY <1>1, <2>2, <3>1 DEF JoinedUp
  <2>4. Is(g)
    <3>1. g = [i \in 1..n |-> g[i]]
      OBVIOUS
    <3> HIDE DEF g
    <3> QED BY <2>3, <3>1
  <2>5. Is(flat)
    <3> HIDE DEF Is
    <3> QED BY <2>4
  <2> HIDE DEF flat
  <2>6. \A i \in 1..n : flat[i] = IF i = 1 THEN seqs[i] ELSE flat[i - 1] \o seqs[i]
    BY <2>5
  <2> DEFINE T == {m \in 0..n : m = 0 \/ flat[m] = f[m]}
  <2>7. ASSUME NEW m \in 1..n, m - 1 \in T PROVE m \in T
    <3>1. flat[m] = IF m = 1 THEN seqs[m] ELSE flat[m - 1] \o seqs[m]
      BY <2>6
    <3>2. f[m] = IF m = 1 THEN seqs[m] ELSE f[m - 1] \o seqs[m]
      <4>1. g[m] = f[m] /\ (m # 1 => g[m - 1] = f[m - 1])
        BY <2>2
      <4> HIDE DEF g
      <4> QED BY <2>3, <4>1
    <3>3. m # 1 => flat[m - 1] = f[m - 1]
      BY <2>7
    <3> QED BY <3>1, <3>2, <3>3
  <2>8. 0 \in T /\ n \in 0..n /\ n \in Nat
    OBVIOUS
  <2>9. n \in T
    <3>1. \A m \in 1..n : m - 1 \in T => m \in T
      BY <2>7
    <3> HIDE DEF T, n
    <3> QED BY <2>8, <3>1, Along
  <2> QED BY <1>1, <1>3, <2>1, <2>9
<1> QED BY <1>2, <1>3

\* Parts of one length: where each of them stands.
Rows(all, seqs, c) ==
    /\ Len(all) = c * Len(seqs)
    /\ \A k \in 1..Len(seqs), j \in 1..c : all[c * (k - 1) + j] = seqs[k][j]

LEMMA RowsJoined ==
  ASSUME NEW S, NEW seqs \in Seq(Seq(S)), \A k \in 1..Len(seqs) : Len(seqs[k]) = 7
  PROVE  FlattenSeq(seqs) \in Seq(S) /\ Rows(FlattenSeq(seqs), seqs, 7)
<1> DEFINE n == Len(seqs)
<1>1. PICK f \in [0..n -> Seq(S)] : JoinedUp(f, seqs) /\ FlattenSeq(seqs) = f[n]
  BY FlattenIs
<1>2. n \in Nat /\ \A k \in 1..n : seqs[k] \in Seq(S) /\ Len(seqs[k]) = 7
  OBVIOUS
<1> HIDE DEF n
<1> DEFINE Good(m) == /\ Len(f[m]) = 7 * m
                      /\ \A k \in 1..m, j \in 1..7 : f[m][7 * (k - 1) + j] = seqs[k][j]
           T == {m \in 0..n : Good(m)}
<1>3. 0 \in T
  <2>1. f[0] = <<>> /\ 0 \in 0..n
    BY <1>1, <1>2 DEF JoinedUp
  <2> QED BY <2>1
<1>4. ASSUME NEW m \in 1..n, m - 1 \in T PROVE m \in T
  <2>1. f[m] = f[m - 1] \o seqs[m] /\ f[m - 1] \in Seq(S) /\ seqs[m] \in Seq(S) /\ Len(seqs[m]) = 7
    <3>1. m \in 1..Len(seqs) /\ m - 1 \in 0..n
      BY <1>2 DEF n
    <3> QED BY <1>1, <1>2, <3>1 DEF JoinedUp
  <2>2. JoinOfTwo(f[m], f[m - 1], seqs[m], S)
    BY <2>1, Joined
  <2>3. Good(m - 1)
    BY <1>4
  <2>4. Len(f[m]) = 7 * m
    BY <2>1, <2>2, <2>3 DEF JoinOfTwo
  <2>5. ASSUME NEW k \in 1..m, NEW j \in 1..7 PROVE f[m][7 * (k - 1) + j] = seqs[k][j]
    <3>1. CASE k = m
      <4>1. f[m][Len(f[m - 1]) + j] = seqs[m][j]
        BY <2>1, <2>2 DEF JoinOfTwo
      <4> QED BY <2>3, <3>1, <4>1
    <3>2. CASE k # m
      <4>1. k \in 1..(m - 1) /\ 7 * (k - 1) + j \in 1..(7 * (m - 1))
        <5>1. m \in Nat
          BY <1>2
        <5>2. k \in 1..(m - 1)
          BY ONLY <3>2, <5>1
        <5>3. 7 * (k - 1) + j <= 7 * (m - 1) /\ 7 * (k - 1) + j >= 1 /\ 7 * (k - 1) + j \in Int
          BY ONLY <5>1, <5>2
        <5> QED BY ONLY <5>1, <5>2, <5>3
      <4>2. f[m - 1][7 * (k - 1) + j] = seqs[k][j]
        BY <2>3, <4>1
      <4>3. f[m][7 * (k - 1) + j] = f[m - 1][7 * (k - 1) + j]
        BY <2>2, <2>3, <4>1 DEF JoinOfTwo
      <4> QED BY <4>2, <4>3
    <3> QED BY <3>1, <3>2
  <2>6. m \in 0..n
    BY <1>2
  <2> QED BY <2>4, <2>5, <2>6
<1>5. n \in T
  <2>1. n \in 0..n
    BY <1>2
  <2> HIDE DEF T
  <2>2. \A m \in 1..n : m - 1 \in T => m \in T
    BY <1>4
  <2> QED BY <1>2, <1>3, <2>1, <2>2, Along
<1>6. Good(n)
  BY <1>5
<1> QED BY <1>1, <1>2, <1>6 DEF Rows, n

(***************************************************************************)
(* The enumeration of the firmware's entries.                              *)
(***************************************************************************)
EntryStands(lines, b, id) ==
    /\ lines[b + 1] = Blank /\ lines[b + 2] = Title /\ lines[b + 3] = Dashes
    /\ lines[b + 4] = Field("identifier", BracedGuid(id)) /\ lines[b + 5] = Field("device", Empty)
    /\ lines[b + 6] = Word /\ lines[b + 7] = Field("description", BracedGuid(id))
ReadAs(entry, id) ==
    /\ entry \in Entries /\ entry # None
    /\ entry.identifier = BracedGuid(id)
    /\ DOMAIN entry.fields = {"device", "description"}

\* What parse_enum_entry makes of an entry that ends with its last line.
LEMMA EntryIsRead ==
  ASSUME NEW lines \in Seq(Lines), NEW b \in Nat, b + 7 <= Len(lines), NEW id \in Objects,
         EntryStands(lines, b, id), EndOfEntry(lines, b + 3) = b + 8,
         NEW kli, kli \cap FieldNames = {"displayorder"}
  PROVE  ReadAs(ParseEntry(lines, b + 3, kli), id)
<1> DEFINE F == FieldsIn(lines, b + 3, kli)
<1>1. \A key : NamedIn(lines, b + 3, key)
                 = {k \in (b + 5)..(b + 7) : lines[k].kind = "field" /\ lines[k].key = key}
  <2>1. (b + 3) + 2 = b + 5 /\ EndOfEntry(lines, b + 3) - 1 = b + 7
    OBVIOUS
  <2> QED BY <2>1 DEF NamedIn
<1>2. /\ lines[b + 5].kind = "field" /\ lines[b + 5].key = "device" /\ lines[b + 5].value = Empty
      /\ lines[b + 6].kind = "word"
      /\ lines[b + 7].kind = "field" /\ lines[b + 7].key = "description"
      /\ lines[b + 7].value = BracedGuid(id)
  BY PartsOf DEF EntryStands
<1>3. \A k \in (b + 5)..(b + 7) : k = b + 5 \/ k = b + 6 \/ k = b + 7
  OBVIOUS
<1>4. /\ b + 5 \in (b + 5)..(b + 7) /\ b + 7 \in (b + 5)..(b + 7)
      /\ b + 5 \in 1..Len(lines) /\ b + 7 \in 1..Len(lines) /\ DOMAIN lines = 1..Len(lines)
  OBVIOUS
<1>5. /\ NamedIn(lines, b + 3, "device") = {b + 5}
      /\ NamedIn(lines, b + 3, "description") = {b + 7}
      /\ \A key : key \notin {"device", "description"} => NamedIn(lines, b + 3, key) = {}
  <2>1. NamedIn(lines, b + 3, "device") = {b + 5}
    BY <1>1, <1>2, <1>3, <1>4
  <2>2. NamedIn(lines, b + 3, "description") = {b + 7}
    BY <1>1, <1>2, <1>3, <1>4
  <2>3. \A key : key \notin {"device", "description"} => NamedIn(lines, b + 3, key) = {}
    BY <1>1, <1>2, <1>3, SMTT(30)
  <2> QED BY <2>1, <2>2, <2>3
<1>6. KeysIn(lines, b + 3) = {"device", "description"}
  <2>1. /\ "device" \in {lines[k].key : k \in DOMAIN lines}
        /\ "description" \in {lines[k].key : k \in DOMAIN lines}
    BY <1>2, <1>4
  <2> QED BY <1>5, <2>1 DEF KeysIn
<1>7. DOMAIN F = {"device", "description"} /\ F["device"] = <<Empty>> /\ F["description"] = <<BracedGuid(id)>>
  <2>1. LastNamed(lines, b + 3, "device") = b + 5 /\ LastNamed(lines, b + 3, "description") = b + 7
    BY <1>5, OnlyNamed
  <2>2. "device" \notin kli /\ "description" \notin kli
    BY DEF FieldNames
  <2> QED BY <1>2, <1>6, <2>1, <2>2 DEF FieldsIn
<1>8. F \in UNION {[keys -> Seq(Strings)] : keys \in SUBSET FieldNames}
  <2>1. <<Empty>> \in Seq(Strings) /\ <<BracedGuid(id)>> \in Seq(Strings)
    BY LinesAre
  <2>2. F = [key \in DOMAIN F |-> F[key]]
    BY DEF FieldsIn
  <2> HIDE DEF F
  <2>3. \A key \in DOMAIN F : F[key] \in Seq(Strings)
    BY <1>7, <2>1
  <2>4. F \in [DOMAIN F -> Seq(Strings)] /\ DOMAIN F \in SUBSET FieldNames
    BY <1>7, <2>2, <2>3 DEF FieldNames
  <2> QED BY <2>4
<1>9. ParseEntry(lines, b + 3, kli) = [identifier |-> BracedGuid(id), fields |-> F]
  <2>1. (b + 3) - 1 = b + 2 /\ (b + 3) + 1 = b + 4
    OBVIOUS
  <2>2. lines[b + 2].kind # "blank" /\ lines[b + 4].kind = "field" /\ lines[b + 4].value = BracedGuid(id)
    BY PartsOf DEF EntryStands
  <2> QED BY <2>1, <2>2, ParseEntryIs
<1> HIDE DEF F
<1>10. [identifier |-> BracedGuid(id), fields |-> F] \in Entries
  BY <1>8, LinesAre DEF Entries
<1> QED BY <1>7, <1>9, <1>10, SentinelAssumption DEF ReadAs

\* Where the lines of an enumeration stand.
LEMMA FirmwareLinesAre ==
  ASSUME Typed
  PROVE  LET lines == FirmwareLines(order)
             fw == FwbootmgrLines
         IN  /\ lines \in Seq(Lines) /\ Len(lines) = Len(fw) + 7 * Len(order)
             /\ Begins(lines, fw)
             /\ \A k \in 1..Len(order) : EntryStands(lines, Len(fw) + 7 * (k - 1), order[k])
<1> DEFINE n == Len(order)
           fw == FwbootmgrLines
           seqs == [k \in DOMAIN order |-> EntryLines(order[k])]
           rest == FlattenSeq(seqs)
           lines == fw \o rest
<1>1. n \in Nat /\ DOMAIN order = 1..n /\ \A k \in 1..n : order[k] \in Objects
  BY DEF Typed
<1>2. ASSUME NEW id \in Objects
      PROVE  /\ EntryLines(id) \in Seq(Lines) /\ Len(EntryLines(id)) = 7
             /\ EntryStands(EntryLines(id), 0, id)
  <2>1. /\ Field("identifier", BracedGuid(id)) \in Lines /\ Field("device", Empty) \in Lines
        /\ Field("description", BracedGuid(id)) \in Lines
        /\ Blank \in Lines /\ Title \in Lines /\ Dashes \in Lines /\ Word \in Lines
    BY LinesAre DEF FieldNames
  <2>2. EntryLines(id) \in Seq(Lines) /\ Len(EntryLines(id)) = 7
    BY <2>1 DEF EntryLines
  <2>3. EntryStands(EntryLines(id), 0, id)
    BY DEF EntryLines, EntryStands
  <2> QED BY <2>2, <2>3
<1>3. seqs \in Seq(Seq(Lines)) /\ Len(seqs) = n /\ \A k \in 1..n : seqs[k] = EntryLines(order[k])
  BY <1>1, <1>2
<1> HIDE DEF seqs, n
<1>4. rest \in Seq(Lines) /\ Rows(rest, seqs, 7)
  <2>1. \A k \in 1..Len(seqs) : Len(seqs[k]) = 7
    BY <1>1, <1>2, <1>3
  <2> QED BY ONLY <1>3, <2>1, RowsJoined
<1>5. fw \in Seq(Lines) /\ Len(fw) \in Nat
  BY FwbootmgrKinds
<1> HIDE DEF rest, fw
<1>6. JoinOfTwo(lines, fw, rest, Lines)
  BY ONLY <1>4, <1>5, Joined
<1> HIDE DEF lines
<1>7. Len(rest) = 7 * n /\ \A k \in 1..n, j \in 1..7 : rest[7 * (k - 1) + j] = EntryLines(order[k])[j]
  <2>1. Len(rest) = 7 * n
    BY ONLY <1>3, <1>4 DEF Rows
  <2>2. ASSUME NEW k \in 1..n, NEW j \in 1..7
        PROVE  rest[7 * (k - 1) + j] = EntryLines(order[k])[j]
    <3>1. rest[7 * (k - 1) + j] = seqs[k][j]
      BY ONLY <1>3, <1>4, <2>2 DEF Rows
    <3> QED BY ONLY <1>3, <2>2, <3>1
  <2> QED BY ONLY <2>1, <2>2
<1>8. /\ lines \in Seq(Lines) /\ Len(lines) = Len(fw) + 7 * n
      /\ \A k \in 1..Len(fw) : lines[k] = fw[k]
      /\ \A k \in 1..(7 * n) : lines[Len(fw) + k] = rest[k]
  BY <1>6, <1>7 DEF JoinOfTwo
<1>9. Begins(lines, fw)
  BY <1>1, <1>5, <1>8 DEF Begins
<1>10. ASSUME NEW k \in 1..n PROVE EntryStands(lines, Len(fw) + 7 * (k - 1), order[k])
  <2> DEFINE b == Len(fw) + 7 * (k - 1)
  <2>1. \A j \in 1..7 : 7 * (k - 1) + j \in 1..(7 * n) /\ b + j = Len(fw) + (7 * (k - 1) + j)
    BY <1>1, <1>5
  <2>2. \A j \in 1..7 : lines[b + j] = EntryLines(order[k])[j]
    <3> HIDE DEF b
    <3> QED BY <1>7, <1>8, <2>1
  <2>3. order[k] \in Objects
    BY <1>1
  <2> HIDE DEF b
  <2>4. /\ lines[b + 1] = EntryLines(order[k])[1] /\ lines[b + 2] = EntryLines(order[k])[2]
        /\ lines[b + 3] = EntryLines(order[k])[3] /\ lines[b + 4] = EntryLines(order[k])[4]
        /\ lines[b + 5] = EntryLines(order[k])[5] /\ lines[b + 6] = EntryLines(order[k])[6]
        /\ lines[b + 7] = EntryLines(order[k])[7]
    BY <2>2
  <2>5. EntryStands(lines, b, order[k])
    BY <2>4 DEF EntryStands, EntryLines
  <2> QED BY <2>5 DEF b
<1>11. FirmwareLines(order) = lines
  BY DEF FirmwareLines, lines, fw, rest, seqs
<1> QED BY <1>8, <1>9, <1>10, <1>11 DEF n, fw

\* Where the n-th entry stands, and that each ends where the next one starts.
Place(k) == Len(FwbootmgrLines) + 7 * (k - 1)

LEMMA EntriesEnd ==
  ASSUME Typed
  PROVE  LET lines == FirmwareLines(order)
             n == Len(order)
         IN  /\ EndOfEntry(lines, 3) = Place(1) + 1
             /\ \A k \in 1..n : EndOfEntry(lines, Place(k) + 3) = Place(k + 1) + 1
<1> DEFINE lines == FirmwareLines(order)
           n == Len(order)
           fw == FwbootmgrLines
           N == Len(fw)
<1>1. /\ lines \in Seq(Lines) /\ Len(lines) = N + 7 * n /\ Begins(lines, fw)
      /\ \A k \in 1..n : EntryStands(lines, Place(k), order[k])
  BY FirmwareLinesAre DEF Place
<1>2. n \in Nat /\ N \in Nat /\ N >= 5 /\ \A k \in 4..N : fw[k].kind \in {"field", "item"}
  BY FwbootmgrKinds DEF Typed
<1> HIDE DEF lines, n, fw
<1>3. \A k \in 1..(n + 1) : Place(k) = N + 7 * (k - 1) /\ Place(k) \in Nat
  BY <1>2 DEF Place, fw
<1>4. \A k \in 1..n : lines[Place(k) + 1].kind = "blank"
  BY <1>1, PartsOf DEF EntryStands
<1>5. Place(n + 1) = Len(lines)
  BY <1>1, <1>2, <1>3
<1> HIDE DEF N
<1>6. EndOfEntry(lines, 3) = Place(1) + 1
  <2>1. 3 \in 1..Len(lines) /\ Len(lines) \in Nat
    BY <1>1, <1>2
  <2> DEFINE e == EndOfEntry(lines, 3)
  <2>2. /\ e \in 4..(Len(lines) + 1)
        /\ \A j \in 5..Len(lines) : j < e => lines[j].kind # "blank"
        /\ e # Len(lines) + 1 => e \in 5..Len(lines) /\ lines[e].kind = "blank"
    BY <2>1, EndOfEntryIs
  <2> HIDE DEF e
  <2>3. \A j \in 5..N : lines[j].kind # "blank"
    <3>1. ASSUME NEW j \in 5..N PROVE lines[j].kind # "blank"
      <4>1. j \in 1..N /\ j \in 4..N
        BY <1>2
      <4>2. lines[j] = fw[j]
        BY <1>1, <4>1 DEF Begins, N
      <4> QED BY <1>2, <4>1, <4>2
    <3> QED BY <3>1
  <2>4. Place(1) = N
    BY <1>2, <1>3
  <2>5. CASE n = 0
    <3>1. Len(lines) = N
      BY <1>1, <1>2, <2>5
    <3> QED BY <1>2, <2>2, <2>3, <2>4, <3>1 DEF e
  <2>6. CASE n # 0
    <3>1. N + 1 \in 5..Len(lines) /\ 1 \in 1..n
      BY <1>1, <1>2, <2>6
    <3>2. lines[N + 1].kind = "blank"
      BY <1>4, <2>4, <3>1
    <3>3. ~(N + 1 < e)
      BY <2>2, <3>1, <3>2
    <3>4. e \in Nat /\ e <= N + 1 /\ e # Len(lines) + 1 /\ e >= 5
      BY <1>2, <2>2, <3>1, <3>3
    <3>5. ~(e \in 5..N)
      BY <2>2, <2>3, <3>4
    <3>6. e = N + 1
      BY <1>2, <3>4, <3>5
    <3> QED BY <2>4, <3>6 DEF e
  <2> QED BY <2>5, <2>6
<1>7. ASSUME NEW k \in 1..n PROVE EndOfEntry(lines, Place(k) + 3) = Place(k + 1) + 1
  <2> DEFINE b == Place(k)
             e == EndOfEntry(lines, b + 3)
  <2>1. /\ b \in Nat /\ Place(k + 1) = b + 7 /\ b + 7 <= Len(lines) /\ Len(lines) \in Nat
        /\ k + 1 <= n => b + 8 <= Len(lines) /\ lines[b + 8].kind = "blank"
        /\ k = n => b + 7 = Len(lines)
    <3>1. b \in Nat /\ Place(k + 1) = b + 7 /\ b + 7 <= Len(lines) /\ Len(lines) \in Nat
      BY <1>1, <1>2, <1>3
    <3>2. k + 1 <= n => b + 8 <= Len(lines) /\ lines[b + 8].kind = "blank"
      <4>1. k + 1 <= n => k + 1 \in 1..n /\ (b + 7) + 1 = b + 8 /\ b + 8 <= Len(lines)
        BY <1>1, <1>2, <1>3
      <4> HIDE DEF b
      <4> QED BY <1>4, <3>1, <4>1
    <3>3. k = n => b + 7 = Len(lines)
      BY <1>1, <1>2, <1>3
    <3> QED BY <3>1, <3>2, <3>3
  <2>2. EntryStands(lines, b, order[k])
    BY <1>1
  <2> HIDE DEF b
  <2>3. lines[b + 5].kind # "blank" /\ lines[b + 6].kind # "blank" /\ lines[b + 7].kind # "blank"
    BY <2>2, PartsOf DEF EntryStands
  <2>4. b + 3 \in 1..Len(lines)
    BY <2>1
  <2>5. /\ e \in (b + 4)..(Len(lines) + 1)
        /\ \A j \in (b + 5)..Len(lines) : j < e => lines[j].kind # "blank"
        /\ e # Len(lines) + 1 => e \in (b + 5)..Len(lines) /\ lines[e].kind = "blank"
    <3>1. (b + 3) + 1 = b + 4 /\ (b + 3) + 2 = b + 5
      BY <2>1
    <3> QED BY <2>1, <2>4, <3>1, EndOfEntryIs
  <2> HIDE DEF e
  <2>6. e # b + 5 /\ e # b + 6 /\ e # b + 7 /\ e # b + 4
    BY <2>1, <2>3, <2>5
  <2>7. e >= b + 8 /\ e \in Nat
    BY <2>1, <2>5, <2>6, SMTT(30)
  <2>8. e <= b + 8
    <3>1. CASE k = n
      BY <2>1, <2>5, <3>1
    <3>2. CASE k + 1 <= n
      <4>1. b + 8 \in (b + 5)..Len(lines) /\ lines[b + 8].kind = "blank"
        BY <2>1, <3>2
      <4>2. ~(b + 8 < e)
        BY <2>5, <4>1
      <4> QED BY <2>1, <2>7, <4>2
    <3> QED BY <1>2, <3>1, <3>2
  <2>9. e = (b + 7) + 1
    BY <2>1, <2>7, <2>8
  <2> QED BY <2>1, <2>9 DEF b, e
<1> QED BY <1>6, <1>7 DEF lines, n

\* The enumeration read back: an entry for each that was printed, in that order.
LEMMA EnumIsRead ==
  ASSUME Typed, NEW kli, kli \cap FieldNames = {"displayorder"}
  PROVE  LET lines == FirmwareLines(order)
             entries == ParseEnum(lines, kli)
             n == Len(order)
         IN  /\ Len(entries) = n + 1 /\ DOMAIN entries = 1..(n + 1)
             /\ entries[1] = ParseEntry(lines, 3, kli)
             /\ \A k \in 1..n : ReadAs(entries[k + 1], order[k])
<1> DEFINE lines == FirmwareLines(order)
           n == Len(order)
           fw == FwbootmgrLines
           N == Len(fw)
           entry(k) == ParseEntry(lines, Place(k) + 3, kli)
           first == ParseEntry(lines, 3, kli)
<1>1. /\ lines \in Seq(Lines) /\ Len(lines) = N + 7 * n /\ Begins(lines, fw)
      /\ \A k \in 1..n : EntryStands(lines, Place(k), order[k])
  BY FirmwareLinesAre DEF Place
<1>2. /\ n \in Nat /\ N \in Nat /\ N >= 5 /\ \A k \in 1..n : order[k] \in Objects
      /\ fw[3].kind = "dashes" /\ \A k \in 1..2 : fw[k].kind # "dashes"
  BY FwbootmgrKinds DEF Typed
<1>3. /\ EndOfEntry(lines, 3) = Place(1) + 1
      /\ \A k \in 1..n : EndOfEntry(lines, Place(k) + 3) = Place(k + 1) + 1
  BY EntriesEnd
<1>4. first # None
  <2>1. EndOfEntry(lines, 3) = Len(FwbootmgrLines) + 1
    BY <1>2, <1>3 DEF Place
  <2> HIDE DEF lines
  <2> QED BY <1>1, <2>1, FwbootmgrEntryIs
<1> HIDE DEF lines, n
<1>5. \A k \in 1..(n + 1) : Place(k) = N + 7 * (k - 1) /\ Place(k) \in Nat
  BY <1>2 DEF Place
<1> HIDE DEF fw, N
<1>6. Place(n + 1) = Len(lines) /\ Place(1) = N
  BY <1>1, <1>2, <1>5
<1>7. ASSUME NEW k \in 1..n
      PROVE  /\ Place(k) \in Nat /\ Place(k + 1) = Place(k) + 7 /\ Place(k) + 7 <= Len(lines)
             /\ ReadAs(entry(k), order[k])
  <2>1. Place(k) \in Nat /\ Place(k + 1) = Place(k) + 7 /\ Place(k) + 7 <= Len(lines)
    BY <1>1, <1>2, <1>5
  <2>2. EndOfEntry(lines, Place(k) + 3) = Place(k) + 8
    BY <1>3, <2>1
  <2>3. order[k] \in Objects /\ EntryStands(lines, Place(k), order[k]) /\ lines \in Seq(Lines)
    BY <1>1, <1>2
  <2>4. ReadAs(entry(k), order[k])
    BY <2>1, <2>2, <2>3, EntryIsRead
  <2> QED BY <2>1, <2>4
<1>8. PICK from : /\ ParseEnum(lines, kli) = from[1] /\ from[Len(lines) + 1] = <<>>
                  /\ \A k \in 1..Len(lines) : from[k] = EntriesFrom(from, lines, k, kli)
  <2>1. Len(lines) \in Nat
    BY <1>1
  <2> QED BY ONLY <2>1, ParseEnumIs
<1> HIDE DEF entry, first
<1> DEFINE from1(k) == from[Place(k) + 1]
<1>9. ASSUME NEW k \in 1..n PROVE from1(k) = <<entry(k)>> \o from1(k + 1)
  <2> DEFINE b == Place(k)
  <2>1. /\ b \in Nat /\ b + 1 \in 1..Len(lines) /\ b + 2 \in 1..Len(lines) /\ b + 3 \in 1..Len(lines)
        /\ (b + 1) + 1 = b + 2 /\ (b + 2) + 1 = b + 3
    BY <1>1, <1>7
  <2>2. lines[b + 1].kind # "dashes" /\ lines[b + 2].kind # "dashes" /\ lines[b + 3].kind = "dashes"
    BY <1>1, PartsOf DEF EntryStands
  <2>3. entry(k) # None /\ entry(k) = ParseEntry(lines, b + 3, kli)
    BY <1>7 DEF ReadAs, entry
  <2>4. EndOfEntry(lines, b + 3) = Place(k + 1) + 1
    BY <1>3
  <2> HIDE DEF b
  <2>5. from[b + 1] = from[b + 2] /\ from[b + 2] = from[b + 3]
    BY <1>8, <2>1, <2>2 DEF EntriesFrom, ParsedAt
  <2>6. from[b + 3] = <<entry(k)>> \o from[Place(k + 1) + 1]
    BY <1>8, <2>1, <2>2, <2>3, <2>4 DEF EntriesFrom, ParsedAt
  <2> QED BY <2>5, <2>6 DEF b
<1>10. ParseEnum(lines, kli) = <<first>> \o from1(1)
  <2>1. /\ 1 \in 1..Len(lines) /\ 2 \in 1..Len(lines) /\ 3 \in 1..Len(lines)
        /\ lines[1] = fw[1] /\ lines[2] = fw[2] /\ lines[3] = fw[3]
    BY <1>1, <1>2 DEF Begins, N
  <2>2. from[1] = from[2] /\ from[2] = from[3]
    <3>1. lines[1].kind # "dashes" /\ lines[2].kind # "dashes" /\ 1 + 1 = 2 /\ 2 + 1 = 3
      BY <1>2, <2>1
    <3> QED BY <1>8, <2>1, <3>1 DEF EntriesFrom, ParsedAt
  <2>3. from[3] = <<first>> \o from[Place(1) + 1]
    <3>1. lines[3].kind = "dashes" /\ ParseEntry(lines, 3, kli) = first /\ first # None
      BY <1>2, <1>4, <2>1 DEF first
    <3> QED BY <1>3, <1>8, <2>1, <3>1 DEF EntriesFrom, ParsedAt
  <2> QED BY <1>8, <2>2, <2>3
<1> HIDE DEF from1
<1> DEFINE Good(m) == /\ from1(n - m + 1) \in Seq(Entries) /\ Len(from1(n - m + 1)) = m
                      /\ \A j \in 1..m : from1(n - m + 1)[j] = entry(n - m + j)
           T == {m \in 0..n : Good(m)}
<1>11. 0 \in T
  <2>1. from1(n + 1) = <<>> /\ n - 0 + 1 = n + 1
    BY <1>2, <1>6, <1>8 DEF from1
  <2>2. <<>> \in Seq(Entries) /\ Len(<<>>) = 0 /\ 0 \in 0..n
    BY <1>2
  <2>3. from1(n - 0 + 1) \in Seq(Entries) /\ Len(from1(n - 0 + 1)) = 0
    BY <2>1, <2>2, Zenon
  <2>4. \A j \in 1..0 : from1(n - 0 + 1)[j] = entry(n - 0 + j)
    OBVIOUS
  <2>5. Good(0)
    BY <2>3, <2>4, Zenon
  <2> HIDE DEF Good
  <2> QED BY <2>2, <2>5
<1>12. ASSUME NEW m \in 1..n, m - 1 \in T PROVE m \in T
  <2> DEFINE k == n - m + 1
             s == from1(k + 1)
  <2>1. k \in 1..n /\ n - (m - 1) + 1 = k + 1 /\ n - (m - 1) = k /\ n - m + 1 = k /\ m - 1 \in Nat
    BY <1>2
  <2>2. Good(m - 1)
    BY <1>12
  <2>3. s \in Seq(Entries) /\ Len(s) = m - 1 /\ \A j \in 1..(m - 1) : s[j] = entry(k + j)
    <3> HIDE DEF k
    <3> QED BY <2>1, <2>2
  <2>4. from1(k) = <<entry(k)>> \o s
    BY <1>9, <2>1
  <2>5. entry(k) \in Entries
    BY <1>7, <2>1 DEF ReadAs
  <2> HIDE DEF k, s
  <2> DEFINE t == <<entry(k)>> \o s
  <2>6. /\ t \in Seq(Entries) /\ Len(t) = m /\ t[1] = entry(k)
        /\ \A j \in 2..m : t[j] = s[j - 1]
    BY <2>1, <2>3, <2>5
  <2> HIDE DEF t
  <2>7. ASSUME NEW j \in 1..m PROVE t[j] = entry(n - m + j)
    <3>1. CASE j = 1
      BY <2>1, <2>6, <3>1
    <3>2. CASE j # 1
      <4>1. j \in 2..m /\ j - 1 \in 1..(m - 1) /\ k + (j - 1) = n - m + j
        BY <1>2, <2>1, <3>2
      <4> QED BY <2>3, <2>6, <4>1
    <3> QED BY <3>1, <3>2
  <2>8. Good(m)
    BY <2>1, <2>4, <2>6, <2>7 DEF t
  <2>9. m \in 0..n
    OBVIOUS
  <2> HIDE DEF Good
  <2> QED BY <2>8, <2>9
<1>13. Good(n)
  <2>1. n \in 0..n /\ \A m \in 1..n : m - 1 \in T => m \in T
    BY <1>2, <1>12
  <2> HIDE DEF T
  <2>2. n \in T
    BY <1>2, <1>11, <2>1, Along
  <2> QED BY <2>2 DEF T
<1> DEFINE s == from1(1)
           t == <<first>> \o s
<1>14. s \in Seq(Entries) /\ Len(s) = n /\ \A j \in 1..n : s[j] = entry(j)
  <2>1. n - n + 1 = 1 /\ \A j \in 1..n : n - n + j = j
    BY <1>2
  <2> QED BY <1>13, <2>1
<1> HIDE DEF s
<1>15. Len(t) = n + 1 /\ t[1] = first /\ DOMAIN t = 1..(n + 1) /\ \A j \in 1..n : t[j + 1] = s[j]
  BY <1>2, <1>14
<1> HIDE DEF t
<1>16. ParseEnum(lines, kli) = t
  BY <1>10 DEF s, t
<1>17. \A k \in 1..n : ReadAs(t[k + 1], order[k])
  BY <1>7, <1>14, <1>15
<1> QED BY <1>15, <1>16, <1>17 DEF lines, n, first

\* Whatever the order and the boot sequence are, what cmd_entry_enum returns has
\* them as they are, but for the head of the order: parse_enum loses no entry and
\* takes none twice.
THEOREM EnumIsReadBack == Spec => []EnumReadsBack
<1>1. ASSUME IInv PROVE EnumReadsBack
  <2> DEFINE n == Len(order)
             lines == FirmwareLines(order)
             entries == ParseEnum(lines, EnumFields)
             all == <<Fwbootmgr>> \o order
  <2>1. Typed
    BY <1>1 DEF IInv, Firmware, Typed
  <2>2. EnumFields \cap FieldNames = {"displayorder"}
    BY DEF EnumFields, FieldNames
  <2>3. /\ Len(entries) = n + 1 /\ DOMAIN entries = 1..(n + 1)
        /\ entries[1] = ParseEntry(lines, 3, EnumFields)
        /\ \A k \in 1..n : ReadAs(entries[k + 1], order[k])
    BY <2>1, <2>2, EnumIsRead
  <2>4. lines \in Seq(Lines) /\ Begins(lines, FwbootmgrLines)
    BY <2>1, FirmwareLinesAre
  <2>5. EndOfEntry(lines, 3) = Len(FwbootmgrLines) + 1
    <3>1. EndOfEntry(lines, 3) = Place(1) + 1 /\ Len(FwbootmgrLines) \in Nat
      BY <2>1, EntriesEnd, FwbootmgrKinds
    <3> QED BY <3>1 DEF Place
  <2> HIDE DEF lines
  <2>6. /\ entries[1].identifier = BracedGuid(Fwbootmgr)
        /\ DOMAIN entries[1].fields = {"timeout"}
                  \cup (IF order = <<>> THEN {} ELSE {"displayorder"})
                  \cup (IF sequence = None THEN {} ELSE {"bootsequence"})
        /\ order # <<>> => entries[1].fields["displayorder"]
                             = [k \in 1..(n - 1) |-> BracedGuid(order[k + 1])]
        /\ sequence # None => entries[1].fields["bootsequence"] = <<BracedGuid(sequence)>>
    BY <2>1, <2>2, <2>3, <2>4, <2>5, FwbootmgrEntryIs, SMTT(30)
  <2>7. n \in Nat /\ (order # <<>> => n - 1 \in Nat)
    BY <2>1 DEF Typed
  <2>8. all[1] = Fwbootmgr /\ \A k \in 1..n : all[k + 1] = order[k]
    BY <2>1 DEF Typed
  <2> DEFINE group == entries[1].fields
  <2> HIDE DEF n, entries, all
  <2>9. ASSUME NEW k \in 1..(n + 1) PROVE entries[k].identifier = BracedGuid(all[k])
    <3>1. CASE k = 1
      BY <2>6, <2>8, <3>1
    <3>2. CASE k # 1
      <4>1. k - 1 \in 1..n /\ (k - 1) + 1 = k
        BY <2>7, <3>2
      <4>2. entries[(k - 1) + 1].identifier = BracedGuid(order[k - 1]) /\ all[(k - 1) + 1] = order[k - 1]
        BY <2>3, <2>8, <4>1 DEF ReadAs
      <4> QED BY <4>1, <4>2
    <3> QED BY <3>1, <3>2
  <2>10. [k \in DOMAIN entries |-> entries[k].identifier] = [k \in 1..(n + 1) |-> BracedGuid(all[k])]
    BY <2>3, <2>9
  <2>11. order # <<>> => /\ "displayorder" \in DOMAIN group
                         /\ Len(group["displayorder"]) = n - 1
                         /\ \A k \in 2..n : group["displayorder"][k - 1].body = order[k]
    <3> HAVE order # <<>>
    <3>1. "displayorder" \in DOMAIN group /\ group["displayorder"] = [k \in 1..(n - 1) |-> BracedGuid(order[k + 1])]
      BY <2>6
    <3> DEFINE g == [k \in 1..(n - 1) |-> BracedGuid(order[k + 1])]
    <3>2. Len(g) = n - 1
      BY <2>7
    <3>3. ASSUME NEW k \in 2..n PROVE g[k - 1].body = order[k]
      <4>1. k - 1 \in 1..(n - 1) /\ (k - 1) + 1 = k
        BY <2>7
      <4>2. g[k - 1] = BracedGuid(order[(k - 1) + 1])
        BY <4>1
      <4>3. g[k - 1] = BracedGuid(order[k])
        BY <4>1, <4>2
      <4> HIDE DEF g
      <4> QED BY <4>3 DEF BracedGuid, Text
    <3> HIDE DEF g
    <3>4. group["displayorder"] = g
      BY <3>1 DEF g
    <3> HIDE DEF group
    <3> QED BY <3>1, <3>2, <3>3, <3>4
  <2>12. ASSUME NEW k \in 2..Len(entries) PROVE DOMAIN entries[k].fields = {"device", "description"}
    <3>1. k - 1 \in 1..n /\ (k - 1) + 1 = k
      BY <2>3, <2>7
    <3>2. ReadAs(entries[(k - 1) + 1], order[k - 1])
      BY <2>3, <3>1
    <3> QED BY <3>1, <3>2 DEF ReadAs
  <2> QED BY <2>6, <2>10, <2>11, <2>12 DEF EnumReadsBack, entries, n, all, lines
<1> QED BY <1>1, Invariant, PTL
=============================================================================
