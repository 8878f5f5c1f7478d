---------------------------- MODULE OptionProofs ----------------------------
(***************************************************************************)
(* Proofs about OptionLoops, for any options, requests and other bytes.    *)
(***************************************************************************)
EXTENDS OptionLoops, WellFoundedInduction, TLAPS

(***************************************************************************)
(* Induction and recursion along a list.                                   *)
(***************************************************************************)

LEMMA HasLeast ==
  ASSUME NEW T, T \subseteq Nat, T # {}
  PROVE  \E x \in T : \A y \in T : x <= y
<1> DEFINE R == OpToRel(<, Nat)
<1>1. IsWellFoundedOn(R, Nat)
  BY Zenon, NatLessThanWellFounded
<1>2. \A x, y \in Nat : <<y, x>> \in R <=> y < x
  BY DEF OpToRel
<1> HIDE DEF R
<1>3. PICK x \in T : \A y \in T : ~(<<y, x>> \in R)
  BY <1>1, WFMin
<1>4. ASSUME NEW y \in T PROVE x <= y
  <2>1. x \in Nat /\ y \in Nat /\ ~(y < x)
    BY <1>2, <1>3
  <2> QED BY <2>1
<1> QED BY <1>4

LEMMA Along ==
  ASSUME NEW n \in Nat, NEW T, 0 \in T, \A k \in 1..n : k - 1 \in T => k \in T
  PROVE  \A k \in 0..n : k \in T
<1> DEFINE bad == (0..n) \ T
<1>1. SUFFICES ASSUME bad # {} PROVE FALSE
  OBVIOUS
<1>2. bad \subseteq Nat
  OBVIOUS
<1>3. PICK x \in bad : \A y \in bad : x <= y
  BY <1>1, <1>2, HasLeast
<1>4. x \in 1..n /\ x - 1 \in 0..n /\ ~(x <= x - 1)
  OBVIOUS
<1>5. x - 1 \in T
  BY <1>3, <1>4
<1> QED BY <1>4, <1>5

Loop(f, base, g, m) == f[0] = base /\ \A k \in 1..m : f[k] = g[k][f[k - 1]]

LEMMA LoopExists ==
  ASSUME NEW n \in Nat, NEW A, NEW base \in A, NEW g \in [1..n -> [A -> A]]
  PROVE  \E f \in [0..n -> A] : Loop(f, base, g, n)
<1> DEFINE T == {m \in 0..n : \E f \in [0..m -> A] : Loop(f, base, g, m)}
<1>1. 0 \in T
  <2>1. [k \in 0..0 |-> base] \in [0..0 -> A] /\ Loop([k \in 0..0 |-> base], base, g, 0)
    BY DEF Loop
  <2> QED BY <2>1
<1>2. ASSUME NEW m \in 1..n, m - 1 \in T PROVE m \in T
  <2>1. PICK f \in [0..(m - 1) -> A] : Loop(f, base, g, m - 1)
    BY <1>2
  <2> DEFINE h == [k \in 0..m |-> IF k = m THEN g[m][f[m - 1]] ELSE f[k]]
  <2>2. g[m] \in [A -> A] /\ f[m - 1] \in A
    OBVIOUS
  <2>3. g[m][f[m - 1]] \in A
    BY <2>2
  <2>4. \A k \in 0..m : (k # m => k \in 0..(m - 1)) /\ h[k] \in A
    BY <2>3
  <2>5. h \in [0..m -> A]
    BY <2>4
  <2>6. h[0] = base
    BY <2>1 DEF Loop
  <2>7. ASSUME NEW k \in 1..m PROVE h[k] = g[k][h[k - 1]]
    <3>1. CASE k = m
      <4>1. m - 1 \in 0..m /\ m - 1 # m /\ m \in 0..m
        OBVIOUS
      <4>2. h[m - 1] = f[m - 1] /\ h[m] = g[m][f[m - 1]]
        BY <4>1
      <4> QED BY <3>1, <4>2
    <3>2. CASE k # m
      <4>1. k \in 1..(m - 1) /\ k \in 0..m /\ k - 1 \in 0..m /\ k - 1 # m
        BY <3>2
      <4>2. h[k] = f[k] /\ h[k - 1] = f[k - 1]
        BY <3>2, <4>1
      <4> QED BY <2>1, <4>1, <4>2 DEF Loop
    <3> QED BY <3>1, <3>2
  <2>8. Loop(h, base, g, m)
    BY <2>6, <2>7 DEF Loop
  <2> HIDE DEF h
  <2> QED BY <2>5, <2>8
<1>2a. \A k \in 1..n : k - 1 \in T => k \in T
  BY <1>2
<1> HIDE DEF T
<1>3. n \in T
  <2>1. n \in 0..n
    OBVIOUS
  <2> QED BY <1>1, <1>2a, <2>1, Along
<1> QED BY <1>3 DEF T

\* What FlattenSeq joins: each part is put behind those in front of it.
JoinedUp(f, seqs) == /\ f[0] = <<>>
                     /\ \A k \in 1..Len(seqs) : f[k] = f[k - 1] \o seqs[k]

LEMMA PrefixesExist ==
  ASSUME NEW S, NEW seqs \in Seq(Seq(S))
  PROVE  \E f \in [0..Len(seqs) -> Seq(S)] : JoinedUp(f, seqs)
<1> DEFINE n == Len(seqs)
           A == Seq(S)
           g == [k \in 1..n |-> [a \in A |-> a \o seqs[k]]]
<1>1. n \in Nat /\ \A k \in 1..n : seqs[k] \in A
  OBVIOUS
<1>2. <<>> \in A /\ \A a, b \in A : a \o b \in A
  OBVIOUS
<1>3. g \in [1..n -> [A -> A]]
  <2> HIDE DEF A, n
  <2> QED BY <1>1, <1>2
<1>4. PICK f \in [0..n -> A] : Loop(f, <<>>, g, n)
  <2> HIDE DEF g, n, A
  <2> QED BY <1>1, <1>2, <1>3, LoopExists
<1>5. ASSUME NEW k \in 1..n PROVE f[k] = f[k - 1] \o seqs[k]
  <2>1. f[k - 1] \in A
    <3> HIDE DEF A, n, g
    <3> QED BY <1>1, <1>4
  <2>2. f[k] = g[k][f[k - 1]]
    <3> HIDE DEF A, n, g
    <3> QED BY <1>4 DEF Loop
  <2> HIDE DEF A, n
  <2> QED BY <2>1, <2>2
<1>6. f[0] = <<>>
  BY <1>4 DEF Loop
<1> HIDE DEF g
<1> QED BY <1>4, <1>5, <1>6 DEF JoinedUp

LEMMA FlattenIs ==
  ASSUME NEW S, NEW seqs \in Seq(Seq(S))
  PROVE  \E f \in [0..Len(seqs) -> Seq(S)] :
            JoinedUp(f, seqs) /\ FlattenSeq(seqs) = f[Len(seqs)]
<1> DEFINE n == Len(seqs)
           Is(g) == g = [i \in 1..n |-> IF i = 1 THEN seqs[i] ELSE g[i - 1] \o seqs[i]]
           flat == CHOOSE g : Is(g)
<1>1. PICK f \in [0..n -> Seq(S)] : JoinedUp(f, seqs)
  BY PrefixesExist
<1>2. CASE n = 0
  <2>1. FlattenSeq(seqs) = seqs /\ seqs = <<>>
    BY <1>2 DEF FlattenSeq
  <2> QED BY <1>1, <1>2, <2>1 DEF JoinedUp
<1>3. CASE n # 0
  <2>1. FlattenSeq(seqs) = flat[n]
    BY <1>3 DEF FlattenSeq
  <2> DEFINE g == [i \in 1..n |-> f[i]]
  <2>2. \A i \in 1..n : i # 1 => i - 1 \in 1..n
    OBVIOUS
  <2>3. \A i \in 1..n : g[i] = IF i = 1 THEN seqs[i] ELSE g[i - 1] \o seqs[i]
    <3>1. ASSUME NEW i \in 1..n, i = 1 PROVE f[i] = seqs[i]
      <4>1. f[1] = f[0] \o seqs[1] /\ f[0] = <<>>
        <5>1. 1 - 1 = 0 /\ 1 \in 1..n
          BY <3>1
        <5> QED BY <1>1, <5>1 DEF JoinedUp
      <4>2. seqs[1] \in Seq(S)
        BY <3>1
      <4> QED BY <3>1, <4>1, <4>2
    <3> QED BY <1>1, <2>2, <3>1 DEF JoinedUp
  <2>4. Is(g)
    <3>1. g = [i \in 1..n |-> g[i]]
      OBVIOUS
    <3> HIDE DEF g
    <3> QED BY <2>3, <3>1
  <2>5. Is(flat)
    <3> HIDE DEF Is
    <3> QED BY <2>4
  <2> HIDE DEF flat
  <2>6. \A i \in 1..n : flat[i] = IF i = 1 THEN seqs[i] ELSE flat[i - 1] \o seqs[i]
    BY <2>5
  <2> DEFINE T == {m \in 0..n : m = 0 \/ flat[m] = f[m]}
  <2>7. ASSUME NEW m \in 1..n, m - 1 \in T PROVE m \in T
    <3>1. flat[m] = IF m = 1 THEN seqs[m] ELSE flat[m - 1] \o seqs[m]
      BY <2>6
    <3>2. f[m] = IF m = 1 THEN seqs[m] ELSE f[m - 1] \o seqs[m]
      <4>1. g[m] = f[m] /\ (m # 1 => g[m - 1] = f[m - 1])
        BY <2>2
      <4> HIDE DEF g
      <4> QED BY <2>3, <4>1
    <3>3. m # 1 => flat[m - 1] = f[m - 1]
      BY <2>7
    <3> QED BY <3>1, <3>2, <3>3
  <2>8. 0 \in T /\ n \in 0..n /\ n \in Nat
    OBVIOUS
  <2>9. n \in T
    <3>1. \A m \in 1..n : m - 1 \in T => m \in T
      BY <2>7
    <3> HIDE DEF T, n
    <3> QED BY <2>8, <3>1, Along
  <2> QED BY <1>1, <1>3, <2>1, <2>9
<1> QED BY <1>2, <1>3

\* One part more is put behind those joined.
LEMMA FlattenMore ==
  ASSUME NEW S, NEW seqs \in Seq(Seq(S)), NEW x \in Seq(S)
  PROVE  FlattenSeq(Append(seqs, x)) = FlattenSeq(seqs) \o x
<1> DEFINE n == Len(seqs)
           more == Append(seqs, x)
<1>1. n \in Nat /\ more \in Seq(Seq(S)) /\ Len(more) = n + 1 /\ more[n + 1] = x
      /\ \A k \in 1..n : more[k] = seqs[k]
  OBVIOUS
<1>2. PICK f \in [0..n -> Seq(S)] : JoinedUp(f, seqs) /\ FlattenSeq(seqs) = f[n]
  BY FlattenIs
<1> HIDE DEF more
<1>3. PICK g \in [0..Len(more) -> Seq(S)] : JoinedUp(g, more) /\ FlattenSeq(more) = g[Len(more)]
  BY <1>1, FlattenIs
<1> DEFINE T == {m \in 0..n : f[m] = g[m]}
<1>4. 0 \in T
  BY <1>1, <1>2, <1>3 DEF JoinedUp
<1>5. ASSUME NEW m \in 1..n, m - 1 \in T PROVE m \in T
  <2>1. f[m] = f[m - 1] \o seqs[m]
    BY <1>2 DEF JoinedUp
  <2>2. g[m] = g[m - 1] \o more[m]
    <3>1. m \in 1..Len(more)
      BY <1>1
    <3> QED BY <1>3, <3>1 DEF JoinedUp
  <2>3. m \in 0..n /\ f[m - 1] = g[m - 1] /\ more[m] = seqs[m]
    BY SMTT(20), <1>1, <1>5
  <2> QED BY <2>1, <2>2, <2>3
<1>6. n \in T
  <2>1. n \in 0..n
    BY <1>1
  <2>2. \A m \in 1..n : m - 1 \in T => m \in T
    BY <1>5
  <2> HIDE DEF T, n
  <2> QED BY <1>1, <1>4, <2>1, <2>2, Along
<1>7. g[n + 1] = g[n] \o more[n + 1]
  <2>1. n + 1 \in 1..Len(more) /\ (n + 1) - 1 = n
    BY <1>1
  <2> QED BY <1>3, <2>1 DEF JoinedUp
<1> QED BY <1>1, <1>2, <1>3, <1>6, <1>7 DEF more
-----------------------------------------------------------------------------
(***************************************************************************)
(* Slices of Python.                                                       *)
(***************************************************************************)

LEMMA MinOf ==
  ASSUME NEW x \in Int, NEW y \in Int
  PROVE  Min({x, y}) = IF x <= y THEN x ELSE y
<1> DEFINE m == IF x <= y THEN x ELSE y
           P(z) == z \in {x, y} /\ \A w \in {x, y} : z <= w
<1>1. P(m) /\ \A z : P(z) => z = m
  OBVIOUS
<1>2. Min({x, y}) = CHOOSE z \in {x, y} : \A w \in {x, y} : z <= w
  BY DEF Min
<1>3. Min({x, y}) = CHOOSE z : P(z)
  BY <1>2
<1> HIDE DEF P, m
<1>4. P(CHOOSE z : P(z))
  BY <1>1
<1>5. (CHOOSE z : P(z)) = m
  BY <1>1, <1>4
<1> QED BY <1>3, <1>5 DEF m

LEMMA SliceIs ==
  ASSUME NEW S, NEW d \in Seq(S), NEW a \in Nat, NEW b \in Nat, a <= b, b <= Len(d)
  PROVE  /\ PySlice(d, a, b) = SubSeq(d, a + 1, b) /\ PySlice(d, a, b) \in Seq(S)
         /\ Len(PySlice(d, a, b)) = b - a
         /\ \A k \in 1..(b - a) : PySlice(d, a, b)[k] = d[a + k]
<1>1. Min({b, Len(d)}) = b
  BY MinOf
<1>2. ~(b < 0)
  OBVIOUS
<1>3. PySlice(d, a, b) = SubSeq(d, a + 1, b)
  BY <1>1, <1>2, Zenon DEF PySlice
<1> QED BY <1>3

\* Whatever the bounds: a slice of the data, and one that has as many bytes as
\* were asked for is not cut.
LEMMA SliceTyped ==
  ASSUME NEW S, NEW d \in Seq(S), NEW a \in Nat, NEW b \in Int
  PROVE  PySlice(d, a, b) \in Seq(S)
<1> DEFINE e == IF b < 0 THEN Max({0, Len(d) + b}) ELSE Min({b, Len(d)})
<1>1. e \in Int /\ e <= Len(d)
  <2>1. CASE b < 0
    <3> DEFINE c == Len(d) + b
    <3>1. c \in Int /\ c <= Len(d) /\ Len(d) \in Nat
      BY <2>1
    <3>2. Max({0, c}) \in {0, c}
      <4> DEFINE P(z) == z \in {0, c} /\ \A w \in {0, c} : z >= w
      <4>1. P(IF c >= 0 THEN c ELSE 0)
        BY <3>1
      <4>2. Max({0, c}) = CHOOSE z : P(z)
        BY DEF Max
      <4>3. P(CHOOSE z : P(z))
        <5> HIDE DEF P
        <5> QED BY <4>1
      <4> QED BY <4>2, <4>3
    <3> QED BY <2>1, <3>1, <3>2
  <2>2. CASE ~(b < 0)
    BY <2>2, MinOf
  <2> QED BY <2>1, <2>2
<1> HIDE DEF e
<1>2. SubSeq(d, a + 1, e) \in Seq(S)
  <2>1. SubSeq(d, a + 1, e) = [i \in 1..(e - a) |-> d[a + i]] \/ SubSeq(d, a + 1, e) = <<>>
    BY <1>1
  <2> QED BY <1>1
<1> QED BY <1>2 DEF PySlice, e

LEMMA SliceWhole ==
  ASSUME NEW S, NEW d \in Seq(S), NEW a \in Nat, NEW n \in Nat, n > 0,
         Len(PySlice(d, a, a + n)) = n
  PROVE  a + n <= Len(d) /\ PySlice(d, a, a + n) = SubSeq(d, a + 1, a + n)
<1>1. CASE a + n <= Len(d)
  <2>1. a + n \in Nat /\ a <= a + n
    OBVIOUS
  <2> QED BY <1>1, <2>1, SliceIs
<1>2. CASE a + n > Len(d)
  <2>1. PySlice(d, a, a + n) = SubSeq(d, a + 1, Len(d))
    BY SMTT(20), <1>2, MinOf DEF PySlice
  <2> QED BY <1>2, <2>1
<1> QED BY <1>1, <1>2
-----------------------------------------------------------------------------
(***************************************************************************)
(* What is made of bytes, and that it is bytes.                            *)
(***************************************************************************)

\* Two sequences, one behind the other.
JoinOfTwo(all, s, t, S) ==
    /\ all \in Seq(S) /\ Len(all) = Len(s) + Len(t)
    /\ \A k \in 1..Len(s) : all[k] = s[k]
    /\ \A k \in 1..Len(t) : all[Len(s) + k] = t[k]

LEMMA Joined ==
  ASSUME NEW S, NEW s \in Seq(S), NEW t \in Seq(S)
  PROVE  JoinOfTwo(s \o t, s, t, S)
BY DEF JoinOfTwo

\* Pairs joined: where each of them stands.
Pairs(all, seqs) ==
    /\ Len(all) = 2 * Len(seqs)
    /\ \A k \in 1..Len(seqs), j \in 1..2 : all[2 * (k - 1) + j] = seqs[k][j]

LEMMA PairsJoined ==
  ASSUME NEW S, NEW seqs \in Seq(Seq(S)), \A k \in 1..Len(seqs) : Len(seqs[k]) = 2
  PROVE  FlattenSeq(seqs) \in Seq(S) /\ Pairs(FlattenSeq(seqs), seqs)
<1> DEFINE n == Len(seqs)
<1>1. PICK f \in [0..n -> Seq(S)] : JoinedUp(f, seqs) /\ FlattenSeq(seqs) = f[n]
  BY FlattenIs
<1>2. n \in Nat /\ \A k \in 1..n : seqs[k] \in Seq(S) /\ Len(seqs[k]) = 2
  OBVIOUS
<1> HIDE DEF n
<1> DEFINE Good(m) == /\ Len(f[m]) = 2 * m
                      /\ \A k \in 1..m, j \in 1..2 : f[m][2 * (k - 1) + j] = seqs[k][j]
           T == {m \in 0..n : Good(m)}
<1>3. 0 \in T
  <2>1. f[0] = <<>> /\ 0 \in 0..n
    BY <1>1, <1>2 DEF JoinedUp
  <2> QED BY <2>1
<1>4. ASSUME NEW m \in 1..n, m - 1 \in T PROVE m \in T
  <2>1. f[m] = f[m - 1] \o seqs[m] /\ f[m - 1] \in Seq(S) /\ seqs[m] \in Seq(S) /\ Len(seqs[m]) = 2
    <3>1. m \in 1..Len(seqs) /\ m - 1 \in 0..n
      BY <1>2 DEF n
    <3> QED BY <1>1, <1>2, <3>1 DEF JoinedUp
  <2>2. JoinOfTwo(f[m], f[m - 1], seqs[m], S)
    BY <2>1, Joined
  <2>3. Good(m - 1)
    BY <1>4
  <2>4. Len(f[m]) = 2 * m
    BY <2>1, <2>2, <2>3 DEF JoinOfTwo
  <2>5. ASSUME NEW k \in 1..m, NEW j \in 1..2 PROVE f[m][2 * (k - 1) + j] = seqs[k][j]
    <3>1. CASE k = m
      <4>1. f[m][Len(f[m - 1]) + j] = seqs[m][j]
        BY <2>1, <2>2 DEF JoinOfTwo
      <4> QED BY <2>3, <3>1, <4>1
    <3>2. CASE k # m
      <4>1. k \in 1..(m - 1) /\ 2 * (k - 1) + j \in 1..(2 * (m - 1))
        <5>1. m \in Nat
          BY <1>2
        <5>2. k \in 1..(m - 1)
          BY ONLY <3>2, <5>1
        <5>3. 2 * (k - 1) + j <= 2 * (m - 1) /\ 2 * (k - 1) + j >= 1 /\ 2 * (k - 1) + j \in Int
          BY ONLY <5>1, <5>2
        <5> QED BY ONLY <5>1, <5>2, <5>3
      <4>2. f[m - 1][2 * (k - 1) + j] = seqs[k][j]
        BY <2>3, <4>1
      <4>3. f[m][2 * (k - 1) + j] = f[m - 1][2 * (k - 1) + j]
        BY <2>2, <2>3, <4>1 DEF JoinOfTwo
      <4> QED BY <4>2, <4>3
    <3> QED BY <3>1, <3>2
  <2>6. m \in 0..n
    BY <1>2
  <2> QED BY <2>4, <2>5, <2>6
<1>5. n \in T
  <2>1. n \in 0..n
    BY <1>2
  <2> HIDE DEF T
  <2>2. \A m \in 1..n : m - 1 \in T => m \in T
    BY <1>4
  <2> QED BY <1>2, <1>3, <2>1, <2>2, Along
<1>6. Good(n)
  BY <1>5
<1> QED BY <1>1, <1>2, <1>6 DEF Pairs, n


LEMMA WiderItems ==
  ASSUME NEW S, NEW T, S \subseteq T, NEW s \in Seq(S)
  PROVE  s \in Seq(T)
OBVIOUS

LEMMA Between ==
  ASSUME NEW a \in Int, NEW b \in Int
  PROVE  \A x : x \in a..b <=> x \in Int /\ a <= x /\ x <= b
OBVIOUS

LEMMA UnitBounds ==
  Unit \subseteq Nat /\ \A x : x \in Unit <=> x \in Int /\ 1 <= x /\ x <= 65535
<1>1. PICK m \in Int : m = 65535
  OBVIOUS
<1>2. Unit = 1..m
  BY <1>1 DEF Unit
<1>3. \A x : x \in Unit <=> x \in Int /\ 1 <= x /\ x <= m
  BY <1>2, Between
<1>4. \A x : x \in Unit <=> x \in Int /\ 1 <= x /\ x <= 65535
  BY <1>1, <1>3
<1> QED BY <1>4

LEMMA ByteBounds ==
  Byte \subseteq Nat /\ \A x : x \in Byte <=> x \in Int /\ 0 <= x /\ x <= 255
<1>1. PICK m \in Int : m = 255
  OBVIOUS
<1>2. Byte = 0..m
  BY <1>1 DEF Byte
<1>3. \A x : x \in 0..m <=> x \in Int /\ 0 <= x /\ x <= m
  OBVIOUS
<1> QED BY <1>1, <1>2, <1>3

LEMMA EncodeIs ==
  ASSUME NEW units \in Seq(Nat)
  PROVE  /\ Encode(units) \in Seq(Nat) /\ Len(Encode(units)) = 2 * Len(units)
         /\ \A k \in 1..Len(units) : /\ Encode(units)[2 * k - 1] = units[k] % 256
                                     /\ Encode(units)[2 * k] = units[k] \div 256
<1> DEFINE n == Len(units)
           seqs == [i \in 1..n |-> LittleEndian16(units[i])]
           all == FlattenSeq(seqs)
<1>1. n \in Nat /\ \A i \in 1..n : units[i] \in Nat
  OBVIOUS
<1> HIDE DEF n
<1>2. ASSUME NEW i \in 1..n
      PROVE  /\ LittleEndian16(units[i]) \in Seq(Nat) /\ Len(LittleEndian16(units[i])) = 2
             /\ LittleEndian16(units[i])[1] = units[i] % 256
             /\ LittleEndian16(units[i])[2] = units[i] \div 256
  <2>1. units[i] % 256 \in Nat /\ units[i] \div 256 \in Nat
    BY <1>1
  <2> QED BY <2>1 DEF LittleEndian16
<1>3. seqs \in Seq(Seq(Nat)) /\ Len(seqs) = n /\ \A i \in 1..n : seqs[i] = LittleEndian16(units[i])
  BY <1>1, <1>2
<1>4. Encode(units) = all
  BY DEF Encode, n
<1> HIDE DEF seqs
<1>5. all \in Seq(Nat) /\ Pairs(all, seqs)
  <2>1. \A k \in 1..Len(seqs) : Len(seqs[k]) = 2
    <3>1. ASSUME NEW k \in 1..n PROVE Len(seqs[k]) = 2
      <4>1. seqs[k] = LittleEndian16(units[k]) /\ Len(LittleEndian16(units[k])) = 2
        BY <1>2, <1>3
      <4> QED BY <4>1
    <3> QED BY <1>3, <3>1
  <2> QED BY ONLY <1>3, <2>1, PairsJoined
<1> HIDE DEF all
<1>6. ASSUME NEW k \in 1..n PROVE all[2 * k - 1] = units[k] % 256 /\ all[2 * k] = units[k] \div 256
  <2>1. 2 * (k - 1) + 1 = 2 * k - 1 /\ 2 * (k - 1) + 2 = 2 * k
    BY <1>1
  <2>2. all[2 * (k - 1) + 1] = seqs[k][1] /\ all[2 * (k - 1) + 2] = seqs[k][2]
    BY SMTT(20), <1>3, <1>5 DEF Pairs
  <2> QED BY <1>2, <1>3, <2>1, <2>2
<1> QED BY <1>3, <1>4, <1>5, <1>6 DEF Pairs, n

LEMMA FillIs ==
  ASSUME NEW n \in Nat
  PROVE  Fill(n) \in Seq(Nat) /\ Len(Fill(n)) = n /\ \A k \in 1..n : Fill(n)[k] = 0
BY DEF Fill

LEMMA FieldTyped ==
  ASSUME NEW n \in Nat \ {0}, NEW f, NEW F
  PROVE  FieldBytes(n, f \in F) \in Seq(Nat)
<1>1. n - 1 \in Nat /\ n \in Nat
  OBVIOUS
<1>2. <<1>> \in Seq(Nat)
  OBVIOUS
<1>3. <<1>> \o Fill(n - 1) \in Seq(Nat)
  BY <1>1, <1>2, FillIs
<1> QED BY <1>1, <1>3, FillIs DEF FieldBytes

\* The first bytes of the nodes, one kind at a time.
LEMMA HeaderIs ==
  /\ DOMAIN Header = {"acpi", "pci", "nvme", "hd"}
  /\ \A k \in DOMAIN Header : /\ k \in Known /\ Header[k] \in Seq(Nat) /\ Len(Header[k]) = 4
                              /\ Header[k][3] \in 6..42 /\ Header[k][3] - 4 \in Nat
<1>1. DOMAIN Header = {"acpi", "pci", "nvme", "hd"}
  BY DEF Header
<1>2. /\ Header["acpi"] = <<2, 1, 12, 0>> /\ Header["pci"] = <<1, 1, 6, 0>>
      /\ Header["nvme"] = <<3, 23, 16, 0>> /\ Header["hd"] = <<4, 1, 42, 0>>
  BY DEF Header
<1>3. /\ Header["acpi"] \in Seq(Nat) /\ Len(Header["acpi"]) = 4 /\ Header["acpi"][3] = 12
      /\ Header["pci"] \in Seq(Nat) /\ Len(Header["pci"]) = 4 /\ Header["pci"][3] = 6
      /\ Header["nvme"] \in Seq(Nat) /\ Len(Header["nvme"]) = 4 /\ Header["nvme"][3] = 16
      /\ Header["hd"] \in Seq(Nat) /\ Len(Header["hd"]) = 4 /\ Header["hd"][3] = 42
  BY <1>2
<1>4. ASSUME NEW k \in DOMAIN Header
      PROVE  /\ k \in Known /\ Header[k] \in Seq(Nat) /\ Len(Header[k]) = 4
             /\ Header[k][3] \in 6..42 /\ Header[k][3] - 4 \in Nat
  <2> DEFINE h == Header[k]
  <2>1. h \in Seq(Nat) /\ Len(h) = 4 /\ (h[3] = 12 \/ h[3] = 6 \/ h[3] = 16 \/ h[3] = 42)
    BY <1>1, <1>3, Zenon
  <2> HIDE DEF h
  <2>2. h[3] \in 6..42 /\ h[3] - 4 \in Nat
    BY <2>1
  <2>3. k = "acpi" \/ k = "pci" \/ k = "nvme" \/ k = "hd"
    BY <1>1
  <2>4. k \in Known
    BY <2>3 DEF Known
  <2> QED BY <2>1, <2>2, <2>4 DEF h
<1> QED BY <1>1, <1>4

LEMMA FixedTyped ==
  ASSUME NEW c, c.kind \in DOMAIN Header
  PROVE  FixedBytes(c) \in Seq(Nat)
<1> DEFINE plain(f, size) == FieldBytes(size, f \in c.flaws)
<1>1. ASSUME NEW f PROVE plain(f, 1) \in Seq(Nat) /\ plain(f, 4) \in Seq(Nat) /\ plain(f, 8) \in Seq(Nat)
  <2>1. 1 \in Nat \ {0} /\ 4 \in Nat \ {0} /\ 8 \in Nat \ {0}
    OBVIOUS
  <2> QED BY <2>1, FieldTyped, Zenon
<1>2. \A k \in DOMAIN Header : Header[k] \in Seq(Nat) /\ Header[k][3] - 4 \in Nat
  BY HeaderIs
<1>3. Fill(16) \in Seq(Nat) /\ \A k \in DOMAIN Header : Fill(Header[k][3] - 4) \in Seq(Nat)
  BY <1>2, FillIs
<1>4. \A s, t \in Seq(Nat) : s \o t \in Seq(Nat)
  OBVIOUS
<1> HIDE DEF plain
<1>5. CASE c.kind = "pci"
  <2>1. plain("function", 1) \o plain("device", 1) \in Seq(Nat)
    BY <1>1, <1>4
  <2>2. FixedBytes(c) = Header[c.kind] \o (plain("function", 1) \o plain("device", 1))
    BY <1>5 DEF FixedBytes, plain
  <2> QED BY <1>2, <1>4, <2>1, <2>2
<1>6. CASE c.kind = "hd"
  <2> DEFINE fields == plain("partnum", 4) \o plain("startlba", 8) \o plain("size", 8)
                         \o Fill(16) \o plain("mbrtype", 1) \o plain("sigtype", 1)
  <2>1. fields \in Seq(Nat)
    BY <1>1, <1>3, <1>4
  <2>2. FixedBytes(c) = Header[c.kind] \o fields
    BY <1>6 DEF FixedBytes, plain
  <2> QED BY <1>2, <1>4, <2>1, <2>2
<1>7. CASE c.kind \notin {"pci", "hd"}
  <2>1. FixedBytes(c) = Header[c.kind] \o Fill(Header[c.kind][3] - 4)
    BY <1>7 DEF FixedBytes
  <2> QED BY <1>2, <1>3, <1>4, <2>1
<1> QED BY <1>5, <1>6, <1>7

\* The cells' bytes are bytes,
LEMMA CellTyped ==
  ASSUME NEW c \in OptionCell, c.kind # "len"
  PROVE  CellBytes(c) \in Seq(Nat)
<1>1. \A s, t \in Seq(Nat) : s \o t \in Seq(Nat)
  OBVIOUS
<1>2. <<0, 0>> \in Seq(Nat) /\ <<1>> \in Seq(Nat) /\ <<>> \in Seq(Nat)
  OBVIOUS
<1>3. Fill(2) \in Seq(Nat) /\ Fill(16) \in Seq(Nat)
  BY FillIs
<1>4. c.kind \in {"desc", "path", "opt"} => Units[c.val] \in Seq(Nat)
  <2>1. ASSUME c.kind \in {"desc", "path", "opt"} PROVE c.val \in DOMAIN Units
    <3>1. c.kind # "attr" /\ c.kind \notin NodeKinds \ {"path", "raw"}
      BY <2>1 DEF NodeKinds, Known
    <3> QED BY <2>1, <3>1 DEF OptionCell
  <2>2. ASSUME NEW t, t \in DOMAIN Units PROVE Units[t] \in Seq(Nat)
    <3>1. Units[t] \in Seq(Unit)
      BY <2>2, UnitsAssumption
    <3> QED BY ONLY <3>1, UnitBounds, WiderItems
  <2> QED BY <2>1, <2>2
<1>5. Whole(c) \in Seq(Nat)
  <2>1. CASE c.kind = "attr"
    <3>1. Whole(c) = <<1, 0, 0, 0>>
      BY <2>1, HeaderIs DEF Whole
    <3> QED BY <3>1
  <2>2. CASE c.kind = "desc"
    <3>1. Whole(c) = Encode(Units[c.val]) \o <<0, 0>>
      BY <2>2, HeaderIs DEF Whole, BuildDescription
    <3> QED BY <1>1, <1>2, <1>4, <2>2, <3>1, EncodeIs
  <2>3. CASE c.kind = "opt"
    <3>1. Whole(c) = Encode(Units[c.val])
      BY <2>3, HeaderIs DEF Whole
    <3> QED BY <1>4, <2>3, <3>1, EncodeIs
  <2>4. CASE c.kind = "end"
    BY <2>4, HeaderIs DEF Whole, EndHeader
  <2>5. CASE c.kind = "path"
    <3> DEFINE text == Encode(Units[c.val]) \o <<0, 0>> \o IF "odd" \in c.flaws THEN <<1>> ELSE <<>>
               size == IF "nodesize" \in c.flaws THEN 0 ELSE 4 + Len(text)
    <3>1. text \in Seq(Nat)
      BY <1>1, <1>2, <1>4, <2>5, EncodeIs
    <3>2. PathBytes(c) = PathHeader \o LittleEndian16(size) \o text
      BY DEF PathBytes
    <3> HIDE DEF text
    <3>3. size \in Nat
      BY <3>1
    <3> HIDE DEF size
    <3>4. LittleEndian16(size) \in Seq(Nat)
      BY <3>3 DEF LittleEndian16
    <3>5. PathHeader \in Seq(Nat)
      BY DEF PathHeader
    <3>6. Whole(c) = PathBytes(c)
      BY <2>5, HeaderIs DEF Whole
    <3> QED BY <1>1, <3>1, <3>2, <3>4, <3>5, <3>6
  <2>6. CASE c.kind \in DOMAIN Header
    <3>1. c.kind \notin {"attr", "desc", "opt", "end", "path", "usb", "fv", "stub"}
      BY <2>6, HeaderIs
    <3>2. Whole(c) = FixedBytes(c)
      BY <2>6, <3>1, Zenon DEF Whole
    <3> QED BY <2>6, <3>2, FixedTyped
  <2>7. CASE c.kind = "usb"
    BY <1>1, <1>3, <2>7, HeaderIs DEF Whole
  <2>8. CASE c.kind = "fv"
    BY <1>1, <1>3, <2>8, HeaderIs DEF Whole
  <2>9. CASE c.kind = "stub"
    BY <2>9, HeaderIs DEF Whole
  <2>10. c.kind \in {"attr", "desc", "opt", "end", "path", "usb", "fv", "stub"} \cup DOMAIN Header
    BY HeaderIs DEF OptionCell, NodeKinds, Known
  <2> QED BY <2>1, <2>2, <2>3, <2>4, <2>5, <2>6, <2>7, <2>8, <2>9, <2>10
<1> DEFINE all == Whole(c)
<1>6. SubSeq(all, 1, Len(all) - 1) \in Seq(Nat)
  <2> HIDE DEF all
  <2> QED BY <1>5 DEF all
<1> QED BY <1>5, <1>6 DEF CellBytes, Front

\* and so are those of any sequence of them.
LEMMA BareTyped ==
  ASSUME NEW cs \in Seq(OptionCell), \A i \in 1..Len(cs) : cs[i].kind # "len"
  PROVE  Bare(cs) \in Seq(Nat)
<1> DEFINE seqs == [i \in 1..Len(cs) |-> CellBytes(cs[i])]
<1>1. seqs \in Seq(Seq(Nat))
  <2>1. \A i \in 1..Len(cs) : CellBytes(cs[i]) \in Seq(Nat)
    BY CellTyped
  <2> QED BY <2>1
<1> HIDE DEF seqs
<1>2. FlattenSeq(seqs) \in Seq(Nat)
  <2>1. Len(seqs) \in 0..Len(seqs)
    BY <1>1
  <2> QED BY <1>1, <2>1, FlattenIs
<1> QED BY <1>2 DEF Bare, seqs

\* A length is one of what follows its description, so an option has one length.
LEMMA PartsTyped ==
  ASSUME NEW cs \in Options
  PROVE  [i \in 1..Len(cs) |-> IF cs[i].kind = "len"
                               THEN LittleEndian16(ListBytes(cs, i + 2, cs[i].n))
                               ELSE CellBytes(cs[i])] \in Seq(Seq(Nat))
<1> DEFINE n == Len(cs)
           part(i) == IF cs[i].kind = "len"
                      THEN LittleEndian16(ListBytes(cs, i + 2, cs[i].n))
                      ELSE CellBytes(cs[i])
           seqs == [i \in 1..n |-> part(i)]
<1>1. /\ n \in Nat /\ cs \in Seq(OptionCell) /\ \A i \in 1..n : cs[i] \in OptionCell
      /\ \A i, j \in 1..n : cs[i].kind = "len" /\ cs[j].kind = "len" => i = j
  BY OptionsAssumption
<1>2. ASSUME NEW i \in 1..n PROVE part(i) \in Seq(Nat)
  <2>1. CASE cs[i].kind # "len"
    BY <1>1, <2>1, CellTyped
  <2>2. CASE cs[i].kind = "len"
    <3> DEFINE first == i + 2
               k == cs[i].n
               last == Min({first + k - 1, n})
               list == SubSeq(cs, first, last)
    <3>1. k \in Nat
      <4>1. cs[i] \in [kind : {"len"}, n : Nat]
        BY <1>1, <2>2 DEF OptionCell, NodeKinds, Known
      <4> QED BY <4>1
    <3>2. last \in Int /\ last <= n /\ last <= first + k - 1 /\ first \in Nat /\ first >= 3
      <4> DEFINE e == first + k - 1
      <4>1. e \in Int /\ n \in Int /\ first \in Nat /\ first >= 3
        BY <1>1, <3>1
      <4> HIDE DEF e
      <4>2. last = IF e <= n THEN e ELSE n
        BY <4>1, MinOf DEF e
      <4> QED BY ONLY <4>1, <4>2 DEF e
    <3> HIDE DEF last, k, n
    <3>3. list \in Seq(OptionCell) /\ \A j \in 1..Len(list) : first - 1 + j \in 1..n /\ list[j] = cs[first - 1 + j]
      BY <1>1, <3>2 DEF n
    <3>4. \A j \in 1..Len(list) : list[j].kind # "len"
      BY <1>1, <2>2, <3>3
    <3> HIDE DEF list
    <3>5. Len(Bare(list)) \in Nat
      BY <3>3, <3>4, BareTyped
    <3> DEFINE m == Len(Bare(list)) + (first + k - 1 - last)
    <3>6. m \in Nat
      BY <3>1, <3>2, <3>5
    <3>7. m = ListBytes(cs, first, k)
      BY DEF ListBytes, last, list, n
    <3> HIDE DEF m
    <3>8. LittleEndian16(m) \in Seq(Nat)
      BY <3>6 DEF LittleEndian16
    <3> QED BY <2>2, <3>7, <3>8 DEF k
  <2> QED BY <2>1, <2>2
<1>3. seqs \in Seq(Seq(Nat))
  <2> HIDE DEF part, n
  <2> QED BY <1>1, <1>2
<1> QED BY <1>3

LEMMA BytesTyped ==
  ASSUME NEW cs \in Options
  PROVE  Bytes(cs) \in Seq(Nat)
<1> DEFINE seqs == [i \in 1..Len(cs) |-> IF cs[i].kind = "len"
                                         THEN LittleEndian16(ListBytes(cs, i + 2, cs[i].n))
                                         ELSE CellBytes(cs[i])]
<1>1. seqs \in Seq(Seq(Nat)) /\ Bytes(cs) = FlattenSeq(seqs)
  BY PartsTyped DEF Bytes
<1> HIDE DEF seqs
<1>2. Len(seqs) \in 0..Len(seqs)
  BY <1>1
<1> QED BY <1>1, <1>2, FlattenIs

LEMMA ToBytesTyped ==
  ASSUME NEW n \in Nat, NEW size \in Nat
  PROVE  ToBytes(n, size) \in Seq(Nat) /\ Len(ToBytes(n, size)) = size
<1>1. ASSUME NEW i \in 1..4 PROVE (n \div Weight[i]) % 256 \in Nat
  <2>1. i = 1 \/ i = 2 \/ i = 3 \/ i = 4
    OBVIOUS
  <2>2. Weight[1] = 1 /\ Weight[2] = 256 /\ Weight[3] = 65536 /\ Weight[4] = 16777216
    BY DEF Weight
  <2>3. /\ (n \div 1) % 256 \in Nat /\ (n \div 256) % 256 \in Nat
        /\ (n \div 65536) % 256 \in Nat /\ (n \div 16777216) % 256 \in Nat
    OBVIOUS
  <2> QED BY <2>1, <2>2, <2>3
<1>2. ASSUME NEW i \in 1..size
      PROVE  (IF i > 4 THEN 0 ELSE (n \div Weight[i]) % 256) \in Nat
  <2>1. i > 4 \/ i \in 1..4
    OBVIOUS
  <2> QED BY <1>1, <2>1
<1> QED BY <1>2 DEF ToBytes

\* The bytes of a GUID in the other order, twice: as they were.
Turned(k) == IF k <= 4 THEN 5 - k ELSE IF k <= 6 THEN 11 - k ELSE IF k <= 8 THEN 15 - k ELSE k

LEMMA PartIs ==
  ASSUME NEW S, NEW s \in Seq(S), NEW m \in Nat, NEW n \in Nat, m + n <= Len(s)
  PROVE  /\ SubSeq(s, m + 1, m + n) \in Seq(S) /\ Len(SubSeq(s, m + 1, m + n)) = n
         /\ \A k \in 1..n : SubSeq(s, m + 1, m + n)[k] = s[m + k]
BY SMTT(20)

TurnedFrom(t, s, j, n, S) == t \in Seq(S) /\ Len(t) = n /\ \A k \in 1..n : t[k] = s[j + 1 - k]

LEMMA TurnedPart ==
  ASSUME NEW S, NEW s \in Seq(S), NEW i \in Nat \ {0}, NEW j \in Nat, i <= j, j <= Len(s)
  PROVE  TurnedFrom(Reverse(SubSeq(s, i, j)), s, j, j + 1 - i, S)
<1> DEFINE p == SubSeq(s, i, j)
           n == j + 1 - i
<1>1. n \in Nat /\ p \in Seq(S) /\ Len(p) = n /\ \A k \in 1..n : p[k] = s[i + k - 1]
  OBVIOUS
<1> HIDE DEF p
<1>2. ASSUME NEW k \in 1..n PROVE n - k + 1 \in 1..n /\ p[n - k + 1] = s[j + 1 - k] /\ p[n - k + 1] \in S
  <2>1. n - k + 1 \in 1..n /\ i + (n - k + 1) - 1 = j + 1 - k
    OBVIOUS
  <2>2. p[n - k + 1] = s[i + (n - k + 1) - 1] /\ p[n - k + 1] \in S
    BY SMTT(20), <1>1, <2>1
  <2> QED BY <2>1, <2>2
<1> HIDE DEF n
<1>3. Reverse(p) = [k \in 1..n |-> p[n - k + 1]]
  BY <1>1 DEF Reverse
<1>4. Reverse(p) \in Seq(S) /\ Len(Reverse(p)) = n /\ \A k \in 1..n : Reverse(p)[k] = p[n - k + 1]
  BY <1>1, <1>2, <1>3
<1> QED BY <1>2, <1>4 DEF p, n, TurnedFrom

LEMMA BytesLeIs ==
  ASSUME NEW S, NEW guid \in Seq(S), Len(guid) = 16
  PROVE  /\ BytesLe(guid) \in Seq(S) /\ Len(BytesLe(guid)) = 16
         /\ \A k \in 1..16 : BytesLe(guid)[k] = guid[Turned(k)]
<1> DEFINE a == Reverse(SubSeq(guid, 1, 4))
           b == Reverse(SubSeq(guid, 5, 6))
           c == Reverse(SubSeq(guid, 7, 8))
           d == SubSeq(guid, 9, 16)
<1>0. /\ 1 \in Nat \ {0} /\ 5 \in Nat \ {0} /\ 7 \in Nat \ {0} /\ 4 \in Nat /\ 6 \in Nat /\ 8 \in Nat
      /\ 1 <= 4 /\ 5 <= 6 /\ 7 <= 8 /\ 4 <= Len(guid) /\ 6 <= Len(guid) /\ 8 <= Len(guid)
  OBVIOUS
<1>1. a \in Seq(S) /\ Len(a) = 4 /\ \A k \in 1..4 : a[k] = guid[5 - k]
  <2>1. TurnedFrom(a, guid, 4, 4 + 1 - 1, S)
    BY <1>0, TurnedPart
  <2>2. 4 + 1 - 1 = 4 /\ \A k \in 1..4 : 4 + 1 - k = 5 - k
    OBVIOUS
  <2> HIDE DEF a
  <2> QED BY <2>1, <2>2 DEF TurnedFrom
<1>2. b \in Seq(S) /\ Len(b) = 2 /\ \A k \in 1..2 : b[k] = guid[7 - k]
  <2>1. TurnedFrom(b, guid, 6, 6 + 1 - 5, S)
    BY <1>0, TurnedPart
  <2>2. 6 + 1 - 5 = 2 /\ \A k \in 1..2 : 6 + 1 - k = 7 - k
    OBVIOUS
  <2> HIDE DEF b
  <2> QED BY <2>1, <2>2 DEF TurnedFrom
<1>3. c \in Seq(S) /\ Len(c) = 2 /\ \A k \in 1..2 : c[k] = guid[9 - k]
  <2>1. TurnedFrom(c, guid, 8, 8 + 1 - 7, S)
    BY <1>0, TurnedPart
  <2>2. 8 + 1 - 7 = 2 /\ \A k \in 1..2 : 8 + 1 - k = 9 - k
    OBVIOUS
  <2> HIDE DEF c
  <2> QED BY <2>1, <2>2 DEF TurnedFrom
<1>4. d \in Seq(S) /\ Len(d) = 8 /\ \A k \in 1..8 : d[k] = guid[8 + k]
  <2>1. d = SubSeq(guid, 8 + 1, 8 + 8) /\ 8 + 8 <= Len(guid)
    OBVIOUS
  <2> QED BY ONLY <2>1, guid \in Seq(S), PartIs
<1>5. BytesLe(guid) = a \o b \o c \o d
  BY DEF BytesLe
<1> HIDE DEF a, b, c, d
<1> DEFINE ab == a \o b
           abc == ab \o c
           all == abc \o d
<1>6. JoinOfTwo(ab, a, b, S)
  BY ONLY <1>1, <1>2, Joined
<1> HIDE DEF ab
<1>7. JoinOfTwo(abc, ab, c, S)
  <2>1. ab \in Seq(S)
    BY <1>6 DEF JoinOfTwo
  <2> QED BY ONLY <1>3, <2>1, Joined
<1> HIDE DEF abc
<1>8. JoinOfTwo(all, abc, d, S)
  <2>1. abc \in Seq(S)
    BY <1>7 DEF JoinOfTwo
  <2> QED BY ONLY <1>4, <2>1, Joined
<1>9. all = BytesLe(guid)
  BY <1>5 DEF all, abc, ab
<1> HIDE DEF all
<1>10. Len(ab) = 6 /\ Len(abc) = 8 /\ all \in Seq(S) /\ Len(all) = 16
  BY <1>1, <1>2, <1>3, <1>4, <1>6, <1>7, <1>8 DEF JoinOfTwo
<1>11. ASSUME NEW k \in 1..16 PROVE all[k] = guid[Turned(k)]
  <2>1. CASE k <= 4
    BY <1>1, <1>6, <1>7, <1>8, <1>10, <2>1 DEF JoinOfTwo, Turned
  <2>2. CASE k \in 5..6
    <3>1. k - 4 \in 1..2 /\ 4 + (k - 4) = k /\ 7 - (k - 4) = 11 - k
      BY <2>2
    <3>2. ab[k] = b[k - 4] /\ abc[k] = ab[k] /\ all[k] = abc[k]
      BY <1>1, <1>2, <1>6, <1>7, <1>8, <1>10, <2>2, <3>1 DEF JoinOfTwo
    <3>3. Turned(k) = 11 - k
      BY <2>2 DEF Turned
    <3> QED BY <1>2, <3>1, <3>2, <3>3
  <2>3. CASE k \in 7..8
    <3>1. k - 6 \in 1..2 /\ 6 + (k - 6) = k /\ 9 - (k - 6) = 15 - k
      BY <2>3
    <3>2. abc[k] = c[k - 6] /\ all[k] = abc[k]
      BY SMTT(20), <1>3, <1>7, <1>8, <1>10, <2>3, <3>1 DEF JoinOfTwo
    <3>3. Turned(k) = 15 - k
      BY <2>3 DEF Turned
    <3> QED BY <1>3, <3>1, <3>2, <3>3
  <2>4. CASE k >= 9
    <3>1. k - 8 \in 1..8 /\ 8 + (k - 8) = k
      BY <2>4
    <3>2. all[k] = d[k - 8]
      <4>1. \A m \in 1..Len(d) : all[Len(abc) + m] = d[m]
        BY <1>8 DEF JoinOfTwo
      <4>2. Len(d) = 8 /\ Len(abc) = 8
        BY <1>4, <1>10
      <4>3. k - 8 \in 1..Len(d) /\ Len(abc) + (k - 8) = k
        BY ONLY <3>1, <4>2
      <4> QED BY ONLY <4>1, <4>3
    <3>3. Turned(k) = k
      BY <2>4 DEF Turned
    <3> QED BY <1>4, <3>1, <3>2, <3>3
  <2> QED BY <2>1, <2>2, <2>3, <2>4
<1> QED BY <1>9, <1>10, <1>11

LEMMA BuiltTyped ==
  ASSUME NEW node \in AskedNode, Taken(node)
  PROVE  Built(node) \in Seq(Nat)
<1>1. \A s, t \in Seq(Nat) : s \o t \in Seq(Nat)
  OBVIOUS
<1>2. <<0, 0>> \in Seq(Nat) /\ PathHeader \in Seq(Nat)
  BY DEF PathHeader
<1>3. Header.acpi \in Seq(Nat) /\ Header.pci \in Seq(Nat) /\ Header.hd \in Seq(Nat)
  BY HeaderIs
<1>4. \A m \in Nat : LittleEndian16(m) \in Seq(Nat)
  BY DEF LittleEndian16
<1>5. Number \subseteq Nat
  BY DEF Number
<1>6. CASE node.kind = "acpi"
  <2>1. node.uid \in Nat /\ node.eisa \in Eisa
    BY <1>5, <1>6 DEF AskedNode
  <2>2. node.eisa.product \in Nat /\ \A i \in 1..3 : node.eisa.vendor[i] \in Nat
    BY <1>6, <2>1 DEF Eisa, Taken
  <2> DEFINE code == 1024 * node.eisa.vendor[1] + 32 * node.eisa.vendor[2] + node.eisa.vendor[3]
  <2>3. code \in Nat
    BY <2>2
  <2>4. EisaToHid(node.eisa) = LittleEndian16(code) \o LittleEndian16(node.eisa.product)
    BY DEF EisaToHid
  <2> HIDE DEF code
  <2>5. EisaToHid(node.eisa) \in Seq(Nat)
    BY <1>1, <1>4, <2>2, <2>3, <2>4
  <2>6. ToBytes(node.uid, 4) \in Seq(Nat)
    BY <2>1, ToBytesTyped
  <2>7. Built(node) = Header.acpi \o EisaToHid(node.eisa) \o ToBytes(node.uid, 4)
    BY <1>6 DEF Built
  <2> QED BY <1>1, <1>3, <2>5, <2>6, <2>7
<1>7. CASE node.kind = "pci"
  <2>1. node.function \in Nat /\ node.device \in Nat
    BY <1>5, <1>7 DEF AskedNode
  <2>2. Built(node) = Header.pci \o <<node.function, node.device>>
    BY <1>7 DEF Built
  <2> QED BY <1>1, <1>3, <2>1, <2>2
<1>8. CASE node.kind = "hd"
  <2> DEFINE ends == <<node.mbrtype, node.sigtype>>
  <2>1. /\ node.partnum \in Nat /\ node.startlba \in Nat /\ node.size \in Nat
        /\ ends \in Seq(Nat) /\ node.guid \in Seq(Nat)
    <3>1. /\ node.partnum \in Nat /\ node.startlba \in Nat /\ node.size \in Nat
          /\ node.mbrtype \in Nat /\ node.sigtype \in Nat /\ node.guid \in Seq(Byte)
      BY <1>5, <1>8 DEF AskedNode
    <3>2. node.guid \in Seq(Nat)
      BY ONLY <3>1, ByteBounds, WiderItems
    <3> QED BY <3>1, <3>2
  <2>2. BytesLe(node.guid) \in Seq(Nat)
    <3>1. Len(node.guid) = 16
      BY <1>8 DEF Taken
    <3> QED BY <2>1, <3>1, BytesLeIs
  <2>3. /\ ToBytes(node.partnum, 4) \in Seq(Nat) /\ ToBytes(node.startlba, 8) \in Seq(Nat)
        /\ ToBytes(node.size, 8) \in Seq(Nat)
    BY <2>1, ToBytesTyped
  <2>4. Built(node) = Header.hd \o ToBytes(node.partnum, 4) \o ToBytes(node.startlba, 8)
                       \o ToBytes(node.size, 8) \o BytesLe(node.guid) \o ends
    BY <1>8 DEF Built
  <2> HIDE DEF ends
  <2> QED BY <1>1, <1>3, <2>1, <2>2, <2>3, <2>4
<1>9. CASE node.kind = "path"
  <2> DEFINE text == Encode(node.text) \o <<0, 0>>
  <2>1. node.text \in Seq(Nat)
    <3>1. node.text \in Seq(Unit)
      BY <1>9 DEF AskedNode
    <3> QED BY ONLY <3>1, UnitBounds, WiderItems
  <2>2. text \in Seq(Nat)
    BY <1>1, <1>2, <2>1, EncodeIs
  <2>3. Built(node) = PathHeader \o LittleEndian16(4 + Len(text)) \o text
    BY <1>9 DEF Built
  <2> HIDE DEF text
  <2>4. 4 + Len(text) \in Nat
    BY <2>2
  <2> QED BY <1>1, <1>2, <1>4, <2>2, <2>3, <2>4
<1>10. node.kind \in {"acpi", "pci", "hd", "path"}
  BY DEF AskedNode
<1> QED BY <1>6, <1>7, <1>8, <1>9, <1>10

\* The list set_evar_BootNNNN puts together of the nodes, and the whole option.
LEMMA OptionTyped ==
  ASSUME NEW r \in Requests, Buildable(r)
  PROVE  BuiltOption(r) \in Seq(Nat) /\ BuiltList(r.nodes) \in Seq(Nat)
<1> DEFINE seqs == [i \in 1..Len(r.nodes) |-> Built(r.nodes[i])]
           list == FlattenSeq(seqs) \o EndHeader
<1>1. /\ r.attributes \in Number /\ r.description \in Seq(Unit)
      /\ r.nodes \in Seq(AskedNode) /\ r.optdata \in Seq(Byte)
  BY RequestsAssumption
<1>2. \A s, t \in Seq(Nat) : s \o t \in Seq(Nat)
  OBVIOUS
<1>3. seqs \in Seq(Seq(Nat))
  <2>1. ASSUME NEW i \in 1..Len(r.nodes) PROVE Built(r.nodes[i]) \in Seq(Nat)
    BY <1>1, BuiltTyped DEF Buildable
  <2> QED BY <1>1, <2>1
<1> HIDE DEF seqs
<1>4. FlattenSeq(seqs) \in Seq(Nat)
  <2>1. Len(seqs) \in 0..Len(seqs)
    BY <1>3
  <2> QED BY <1>3, <2>1, FlattenIs
<1>5. list \in Seq(Nat)
  BY <1>4 DEF EndHeader
<1> HIDE DEF list
<1>6. ToBytes(r.attributes, 4) \in Seq(Nat) /\ ToBytes(Len(list), 2) \in Seq(Nat)
  <2>1. r.attributes \in Nat /\ Len(list) \in Nat
    BY <1>1, <1>5 DEF Number
  <2> QED BY <2>1, ToBytesTyped
<1>7. BuildDescription(r.description) \in Seq(Nat)
  <2>1. r.description \in Seq(Nat)
    BY ONLY <1>1, UnitBounds, WiderItems
  <2>2. Encode(r.description) \in Seq(Nat) /\ <<0, 0>> \in Seq(Nat)
    BY <2>1, EncodeIs
  <2> QED BY <1>2, <2>2 DEF BuildDescription
<1>8. r.optdata \in Seq(Nat)
  BY ONLY <1>1, ByteBounds, WiderItems
<1>9. BuiltOption(r) = ToBytes(r.attributes, 4) \o ToBytes(Len(list), 2)
                         \o BuildDescription(r.description) \o list \o r.optdata
  BY DEF BuiltOption, BuiltList, list, seqs
<1>10. BuiltList(r.nodes) = list
  BY DEF BuiltList, list, seqs
<1> QED BY <1>2, <1>5, <1>6, <1>7, <1>8, <1>9, <1>10
-----------------------------------------------------------------------------
(***************************************************************************)
(* The walk.  A node that is taken is as long as its header, or its own    *)
(* length, says, and whole.                                                *)
(***************************************************************************)
NodeRecord == [step : {"node"}, kind : Known, size : Nat, bytes : Seq(Nat), text : Seq(Nat)]

LEMMA NodeIs ==
  ASSUME NEW kind \in Known, NEW size \in Nat, NEW bytes \in Seq(Nat), NEW text \in Seq(Nat)
  PROVE  LET r == Node(kind, size, bytes, text)
         IN  /\ r \in NodeRecord /\ r.step = "node" /\ r.kind = kind /\ r.size = size
             /\ r.bytes = bytes /\ r.text = text
BY DEF Node, NodeRecord

LEMMA DecodeTyped ==
  ASSUME NEW d \in Seq(Nat)
  PROVE  Decode(d) \in Seq(Nat)
<1>1. Len(d) \div 2 \in Nat
  OBVIOUS
<1>2. ASSUME NEW i \in 1..(Len(d) \div 2) PROVE Value16(d, 2 * (i - 1)) \in Nat
  <2>1. 2 * (i - 1) + 1 \in 1..Len(d) /\ 2 * (i - 1) + 2 \in 1..Len(d)
    OBVIOUS
  <2> DEFINE lo == d[2 * (i - 1) + 1]
             hi == d[2 * (i - 1) + 2]
  <2>2. lo \in Nat /\ hi \in Nat
    BY <2>1
  <2>3. Value16(d, 2 * (i - 1)) = lo + 256 * hi
    BY DEF Value16
  <2> HIDE DEF lo, hi
  <2> QED BY ONLY <2>2, <2>3
<1> QED BY <1>1, <1>2 DEF Decode

\* s is the n items of d behind the first a.
IsPart(s, d, a, n, S) == s \in Seq(S) /\ Len(s) = n /\ \A k \in 1..n : s[k] = d[a + k]

LEMMA SliceAt ==
  ASSUME NEW S, NEW d \in Seq(S), NEW a \in 0..Len(d), NEW n \in Nat
  PROVE  IsPart(PySlice(d, a, a + n), d, a, IF a + n <= Len(d) THEN n ELSE Len(d) - a, S)
<1> DEFINE s == PySlice(d, a, a + n)
           e == IF a + n <= Len(d) THEN a + n ELSE Len(d)
<1>1. a + n \in Nat /\ ~(a + n < 0) /\ Len(d) \in Nat
  OBVIOUS
<1>2. Min({a + n, Len(d)}) = e
  BY <1>1, MinOf
<1>3. s = SubSeq(d, a + 1, e)
  BY <1>1, <1>2 DEF PySlice
<1>4. a \in Nat /\ e \in Nat /\ a <= e /\ e <= Len(d)
  OBVIOUS
<1> HIDE DEF s, e
<1>5. s \in Seq(S) /\ Len(s) = e - a /\ \A k \in 1..(e - a) : s[k] = d[a + k]
  BY <1>3, <1>4
<1>6. e - a = IF a + n <= Len(d) THEN n ELSE Len(d) - a
  BY <1>1 DEF e
<1> QED BY <1>5, <1>6 DEF IsPart, s

LEMMA SliceWithin ==
  ASSUME NEW S, NEW d \in Seq(S), NEW a \in Nat, NEW b \in Nat, a <= b, b <= Len(d)
  PROVE  IsPart(PySlice(d, a, b), d, a, b - a, S)
BY SliceIs DEF IsPart

\* The first bytes at a place tell the nodes apart.
LEMMA HeadersDiffer ==
  ASSUME NEW d \in Seq(Nat), NEW o \in 0..Len(d)
  PROVE  LET head == PySlice(d, o, o + 4)
             short == PySlice(d, o, o + 2)
         IN  /\ \A j, k \in DOMAIN Header : head = Header[j] /\ head = Header[k] => j = k
             /\ (\E k \in DOMAIN Header : head = Header[k]) =>
                  short # <<4>> /\ short # PathHeader /\ head # EndHeader
             /\ short = <<4>> => short # PathHeader /\ head # EndHeader
             /\ short = PathHeader => head # EndHeader
<1> DEFINE head == PySlice(d, o, o + 4)
           short == PySlice(d, o, o + 2)
           left == Len(d) - o
<1>1. /\ Header["acpi"] = <<2, 1, 12, 0>> /\ Header["pci"] = <<1, 1, 6, 0>>
      /\ Header["nvme"] = <<3, 23, 16, 0>> /\ Header["hd"] = <<4, 1, 42, 0>>
  BY DEF Header
<1>2. DOMAIN Header = {"acpi", "pci", "nvme", "hd"}
  BY HeaderIs
<1>3. left \in Nat /\ o \in Nat /\ (o + 4 <= Len(d) <=> left >= 4) /\ (o + 2 <= Len(d) <=> left >= 2)
  OBVIOUS
<1>4. IsPart(head, d, o, IF o + 4 <= Len(d) THEN 4 ELSE left, Nat)
  BY SliceAt
<1>5. IsPart(short, d, o, IF o + 2 <= Len(d) THEN 2 ELSE left, Nat)
  BY SliceAt
<1> HIDE DEF head, short, left
<1>5a. head \in Seq(Nat) /\ short \in Seq(Nat) /\ Len(head) \in Nat /\ Len(short) \in Nat
  <2>1. head \in Seq(Nat) /\ short \in Seq(Nat)
    BY <1>4, <1>5 DEF IsPart
  <2> QED BY <2>1
<1>6. ASSUME Len(head) = 4 PROVE Len(short) = 2 /\ short[1] = head[1] /\ short[2] = head[2]
  <2>1. left >= 4
    <3>1. Len(head) = IF o + 4 <= Len(d) THEN 4 ELSE left
      BY <1>4 DEF IsPart
    <3>2. CASE o + 4 <= Len(d)
      BY <1>3, <3>2
    <3>3. CASE ~(o + 4 <= Len(d))
      <4>1. left = 4
        BY ONLY <1>6, <3>1, <3>3
      <4> QED BY ONLY <4>1
    <3> QED BY <3>2, <3>3
  <2>2. IsPart(head, d, o, 4, Nat) /\ IsPart(short, d, o, 2, Nat)
    BY <1>3, <1>4, <1>5, <2>1
  <2> QED BY <2>2 DEF IsPart
<1>6a. /\ Header["acpi"][1] = 2 /\ Header["pci"][1] = 1 /\ Header["nvme"][1] = 3 /\ Header["hd"][1] = 4
       /\ Header["hd"][2] = 1
  BY <1>1
<1>7. ASSUME NEW j \in DOMAIN Header, NEW k \in DOMAIN Header, head = Header[j], head = Header[k]
      PROVE  j = k
  <2>1. head[1] = Header[j][1] /\ head[1] = Header[k][1]
    BY <1>7
  <2>2. \A x, y \in {"acpi", "pci", "nvme", "hd"} : Header[x][1] = Header[y][1] => x = y
    BY ONLY <1>6a
  <2> QED BY <1>2, <2>1, <2>2
<1>8. ASSUME NEW k \in DOMAIN Header, head = Header[k]
      PROVE  short # <<4>> /\ short # PathHeader /\ head # EndHeader
  <2>1. Len(head) = 4
    BY <1>8, HeaderIs
  <2>2. (head[1] = 1 \/ head[1] = 2 \/ head[1] = 3 \/ head[1] = 4) /\ (head[1] = 4 => head[2] = 1)
    BY <1>2, <1>6a, <1>8
  <2>3. Len(<< 4 >>) = 1 /\ PathHeader[1] = 4 /\ PathHeader[2] = 4 /\ EndHeader[1] = 127
    BY DEF PathHeader, EndHeader
  <2>4. Len(short) = 2 /\ short[1] = head[1] /\ short[2] = head[2]
    BY <1>6, <2>1
  <2>5. short # <<4>>
    <3>1. Len(short) # Len(<<4>>)
      BY ONLY <2>3, <2>4
    <3> QED BY ONLY <3>1
  <2>6. short # PathHeader /\ head # EndHeader
    BY <2>2, <2>3, <2>4
  <2> QED BY ONLY <2>5, <2>6
<1>9. short = <<4>> => short # PathHeader /\ head # EndHeader
  <2>1. Len(<<4>>) = 1 /\ Len(PathHeader) = 2 /\ Len(EndHeader) = 4
    BY DEF PathHeader, EndHeader
  <2> QED BY SMTT(20), <1>6, <2>1
<1>10. short = PathHeader => head # EndHeader
  <2>1. PathHeader[1] = 4 /\ EndHeader[1] = 127 /\ Len(EndHeader) = 4
    BY DEF PathHeader, EndHeader
  <2> QED BY <1>6, <2>1
<1> QED BY <1>7, <1>8, <1>9, <1>10 DEF head, short

LEMMA RoundIs ==
  ASSUME NEW d \in Seq(Nat), NEW o \in 0..Len(d)
  PROVE  LET head == PySlice(d, o, o + 4)
             short == PySlice(d, o, o + 2)
             known == \E k \in DOMAIN Header : head = Header[k]
         IN  /\ \A k \in DOMAIN Header :
                  LET node == PySlice(d, o, o + Header[k][3])
                  IN  head = Header[k] =>
                        Round(d, o) = IF FixedOk(node, k) THEN Node(k, Len(node), node, <<>>)
                                      ELSE Stop("corrupted")
             /\ short = <<4>> => Round(d, o) = Stop("raises")
             /\ short = PathHeader => Round(d, o) = PathNode(d, o)
             /\ head = EndHeader => Round(d, o) = Stop("end")
             /\ ~known /\ short # <<4>> /\ short # PathHeader /\ head # EndHeader =>
                  Round(d, o) = Stop("raw")
<1> DEFINE head == PySlice(d, o, o + 4)
           short == PySlice(d, o, o + 2)
           fixed(k) == LET node == PySlice(d, o, o + Header[k][3])
                       IN  IF FixedOk(node, k) THEN Node(k, Len(node), node, <<>>)
                           ELSE Stop("corrupted")
           found == CHOOSE k \in DOMAIN Header : head = Header[k]
           known == \E k \in DOMAIN Header : head = Header[k]
<1>1. /\ \A j, k \in DOMAIN Header : head = Header[j] /\ head = Header[k] => j = k
      /\ known => short # <<4>> /\ short # PathHeader /\ head # EndHeader
      /\ short = <<4>> => short # PathHeader /\ head # EndHeader
      /\ short = PathHeader => head # EndHeader
  BY HeadersDiffer
<1>2. known => found \in DOMAIN Header /\ head = Header[found]
  OBVIOUS
<1>3. Round(d, o) = CASE known -> fixed(found)
                      [] short = <<4>> -> Stop("raises")
                      [] short = PathHeader -> PathNode(d, o)
                      [] head = EndHeader -> Stop("end")
                      [] OTHER -> Stop("raw")
  BY DEF Round
<1> HIDE DEF head, short, found, fixed
<1>4. /\ known => Round(d, o) = fixed(found)
      /\ short = <<4>> => Round(d, o) = Stop("raises")
      /\ short = PathHeader => Round(d, o) = PathNode(d, o)
      /\ head = EndHeader => Round(d, o) = Stop("end")
      /\ ~known /\ short # <<4>> /\ short # PathHeader /\ head # EndHeader =>
           Round(d, o) = Stop("raw")
  BY <1>1, <1>3
<1>5. ASSUME NEW k \in DOMAIN Header, head = Header[k] PROVE Round(d, o) = fixed(k)
  BY <1>1, <1>2, <1>4, <1>5
<1> QED BY <1>4, <1>5 DEF head, short, fixed

LEMMA RoundTakes ==
  ASSUME NEW d \in Seq(Nat), NEW o \in 0..Len(d), Round(d, o).step = "node"
  PROVE  /\ Round(d, o) \in NodeRecord /\ Round(d, o).size > 0
         /\ o + Round(d, o).size <= Len(d)
         /\ Round(d, o).bytes = SubSeq(d, o + 1, o + Round(d, o).size)
<1> DEFINE head == PySlice(d, o, o + 4)
           short == PySlice(d, o, o + 2)
           r == Round(d, o)
<1>1. \A step : Stop(step).step = step
  BY DEF Stop
<1>2. ASSUME NEW k \in DOMAIN Header, head = Header[k]
      PROVE  /\ r \in NodeRecord /\ r.size > 0 /\ o + r.size <= Len(d)
             /\ r.bytes = SubSeq(d, o + 1, o + r.size)
  <2> DEFINE n == Header[k][3]
             node == PySlice(d, o, o + n)
  <2>1. k \in Known /\ n \in Nat /\ n > 0 /\ o \in Nat
    <3>1. k \in Known
      BY HeaderIs
    <3>2. n \in 6..42
      BY HeaderIs
    <3> HIDE DEF n
    <3> QED BY <3>1, <3>2
  <2>2. r = IF FixedOk(node, k) THEN Node(k, Len(node), node, <<>>) ELSE Stop("corrupted")
    BY <1>2, RoundIs
  <2>3. FixedOk(node, k) /\ r = Node(k, Len(node), node, <<>>)
    BY <1>1, <2>2
  <2>4. Len(node) = n
    BY <2>3 DEF FixedOk
  <2>5. o + n <= Len(d) /\ node = SubSeq(d, o + 1, o + n) /\ node \in Seq(Nat)
    <3> HIDE DEF n
    <3>1. o + n <= Len(d) /\ node = SubSeq(d, o + 1, o + n)
      BY <2>1, <2>4, SliceWhole
    <3>2. node \in Seq(Nat)
      BY <2>1, <3>1, SliceIs
    <3> QED BY <3>1, <3>2
  <2> HIDE DEF node, n, r
  <2>6. r.size = n /\ r.bytes = node /\ r \in NodeRecord
    <3>1. <<>> \in Seq(Nat)
      OBVIOUS
    <3>2. Len(node) = n /\ k \in Known /\ n \in Nat /\ node \in Seq(Nat)
      BY <2>1, <2>4, <2>5
    <3>3. r = Node(k, n, node, <<>>)
      BY <2>3, <3>2
    <3>4. Node(k, n, node, <<>>) \in NodeRecord
      BY <3>1, <3>2, NodeIs, Zenon
    <3> QED BY ONLY <3>3, <3>4 DEF Node
  <2> QED BY <2>1, <2>5, <2>6
<1>3. ASSUME short = PathHeader
      PROVE  /\ r \in NodeRecord /\ r.size > 0 /\ o + r.size <= Len(d)
             /\ r.bytes = SubSeq(d, o + 1, o + r.size)
  <2> DEFINE size == IF o + 4 <= Len(d) THEN Value16(d, o + 2) ELSE 0
             text == PySlice(d, o + 4, o + size - 2)
             node == PySlice(d, o, o + size)
  <2>1. r = PathNode(d, o)
    BY <1>3, RoundIs
  <2>2. /\ PathFits(size, Len(d) - o)
        /\ r = Node("path", size, node, Decode(text))
    BY <1>1, <2>1 DEF PathNode
  <2>3. size \in Nat
    <3>1. o + 4 <= Len(d) => o + 2 + 1 \in 1..Len(d) /\ o + 2 + 2 \in 1..Len(d)
      OBVIOUS
    <3>2. o + 4 <= Len(d) => d[o + 2 + 1] \in Nat /\ d[o + 2 + 2] \in Nat
      BY <3>1
    <3> QED BY <3>2 DEF Value16
  <2> HIDE DEF size
  <2>4. size > 0 /\ o + size <= Len(d)
    BY <2>2, <2>3 DEF PathFits
  <2>5. node = SubSeq(d, o + 1, o + size) /\ node \in Seq(Nat)
    <3>1. o \in Nat /\ o + size \in Nat /\ o <= o + size
      BY <2>3
    <3> QED BY <2>4, <3>1, SliceIs
  <2>6. Decode(text) \in Seq(Nat)
    <3>1. o + 4 \in Nat /\ o + size - 2 \in Int
      BY <2>3
    <3> QED BY <3>1, SliceTyped, DecodeTyped
  <2> HIDE DEF node, text, r
  <2>7. r.size = size /\ r.bytes = node /\ r \in NodeRecord
    <3> DEFINE units == Decode(text)
    <3>1. units \in Seq(Nat) /\ r = Node("path", size, node, units)
      BY <2>2, <2>6
    <3> HIDE DEF units
    <3>2. Node("path", size, node, units) \in NodeRecord
      <4>1. "path" \in Known
        BY DEF Known
      <4> QED BY <2>3, <2>5, <3>1, <4>1, NodeIs, Zenon
    <3> QED BY ONLY <3>1, <3>2 DEF Node
  <2> QED BY <2>4, <2>5, <2>7
<1>4. short = PathHeader \/ \E k \in DOMAIN Header : head = Header[k]
  <2>1. short = <<4>> => r = Stop("raises")
    BY RoundIs
  <2>2. head = EndHeader => r = Stop("end")
    BY RoundIs
  <2>3. (~\E k \in DOMAIN Header : head = Header[k]) /\ short # <<4>> /\ short # PathHeader
          /\ head # EndHeader => r = Stop("raw")
    BY RoundIs
  <2> HIDE DEF r, head, short
  <2> QED BY <1>1, <2>1, <2>2, <2>3 DEF r
<1> QED BY <1>2, <1>3, <1>4

LEMMA RoundTyped ==
  ASSUME NEW d \in Seq(Nat), NEW o \in 0..Len(d),
         Round(d, o).step \in {"end", "raw", "corrupted", "raises"}
  PROVE  Round(d, o) \in RoundRecord
<1> DEFINE head == PySlice(d, o, o + 4)
           short == PySlice(d, o, o + 2)
           r == Round(d, o)
<1>1. \A step \in {"end", "raw", "corrupted", "raises"} : Stop(step) \in RoundRecord
  BY DEF Stop, RoundRecord
<1>2. \A kind, size, bytes, text : Node(kind, size, bytes, text).step = "node"
  BY DEF Node
<1>3. ASSUME NEW k \in DOMAIN Header, head = Header[k] PROVE r \in RoundRecord
  <2> DEFINE node == PySlice(d, o, o + Header[k][3])
  <2>1. r = IF FixedOk(node, k) THEN Node(k, Len(node), node, <<>>) ELSE Stop("corrupted")
    BY <1>3, RoundIs
  <2> QED BY <1>1, <1>2, <2>1
<1>4. ASSUME short = PathHeader PROVE r \in RoundRecord
  <2>1. r = PathNode(d, o)
    BY <1>4, RoundIs
  <2> QED BY <1>1, <1>2, <2>1 DEF PathNode
<1>5. short = <<4>> => r = Stop("raises")
  BY RoundIs
<1>6. head = EndHeader => r = Stop("end")
  BY RoundIs
<1>7. (~\E k \in DOMAIN Header : head = Header[k]) /\ short # <<4>> /\ short # PathHeader
        /\ head # EndHeader => r = Stop("raw")
  BY RoundIs
<1> HIDE DEF r, head, short
<1> QED BY <1>1, <1>3, <1>4, <1>5, <1>6, <1>7 DEF r
-----------------------------------------------------------------------------
(***************************************************************************)
(* The parser as it runs.  Only the last round is no node, and that ends   *)
(* the walk.                                                               *)
(***************************************************************************)
Typed ==
    /\ data \in Seq(Nat)
    /\ pc \in {"fields", "walk", "rest", "done", "raised"}
    /\ start \in Nat /\ end \in Int /\ offset \in Nat
    /\ rounds \in Seq(RoundRecord)
OnlyLast == pc \in {"fields", "walk"} => \A i \in 1..Len(rounds) : rounds[i].step = "node"
Begins == pc = "fields" => start = 0 /\ end = 0 /\ offset = 0 /\ rounds = <<>>
TilingInv == Typed /\ OnlyLast /\ Begins /\ NodesTile

NodesOf(rs) == {i \in DOMAIN rs : rs[i].step = "node"}
BytesOf(rs) == [i \in NodesOf(rs) |-> rs[i].bytes]

LEMMA NoRounds ==
  FlattenSeq(BytesOf(<<>>)) = <<>>
<1>1. NodesOf(<<>>) = {}
  BY DEF NodesOf
<1>2. BytesOf(<<>>) = <<>>
  BY <1>1 DEF BytesOf
<1>3. <<>> \in Seq(Seq(Nat)) /\ Len(<<>>) = 0
  OBVIOUS
<1>4. PICK f \in [0..Len(<<>>) -> Seq(Nat)] : JoinedUp(f, <<>>) /\ FlattenSeq(<<>>) = f[Len(<<>>)]
  BY <1>3, FlattenIs
<1> QED BY <1>2, <1>3, <1>4 DEF JoinedUp

\* As long as every round is a node, the bytes of the nodes are those of the rounds.
LEMMA AllNodes ==
  ASSUME NEW rs \in Seq(RoundRecord), \A i \in 1..Len(rs) : rs[i].step = "node"
  PROVE  BytesOf(rs) \in Seq(Seq(Nat)) /\ BytesOf(rs) = [i \in 1..Len(rs) |-> rs[i].bytes]
<1>1. Len(rs) \in Nat /\ DOMAIN rs = 1..Len(rs)
  OBVIOUS
<1>2. NodesOf(rs) = 1..Len(rs)
  BY <1>1 DEF NodesOf
<1>3. \A i \in 1..Len(rs) : rs[i].bytes \in Seq(Nat)
  BY DEF NodeRecord, RoundRecord
<1> QED BY <1>1, <1>2, <1>3 DEF BytesOf

LEMMA OneNodeMore ==
  ASSUME NEW rs \in Seq(RoundRecord), \A i \in 1..Len(rs) : rs[i].step = "node",
         NEW r \in NodeRecord
  PROVE  BytesOf(Append(rs, r)) = Append(BytesOf(rs), r.bytes)
<1> DEFINE more == Append(rs, r)
           n == Len(rs)
<1>1. n \in Nat /\ Len(more) = n + 1 /\ more[n + 1] = r /\ \A i \in 1..n : more[i] = rs[i]
  OBVIOUS
<1>2. more \in Seq(RoundRecord)
  <2>1. r \in RoundRecord
    BY DEF NodeRecord, RoundRecord
  <2> QED BY <2>1
<1>3. r.step = "node" /\ r.bytes \in Seq(Nat)
  BY DEF NodeRecord
<1> HIDE DEF more, n
<1>4. \A i \in 1..Len(more) : more[i].step = "node"
  <2>1. \A i \in 1..Len(more) : i \in 1..n \/ i = n + 1
    BY <1>1
  <2> QED BY <1>1, <1>3, <2>1 DEF n
<1>5. BytesOf(more) = [i \in 1..(n + 1) |-> more[i].bytes] /\ BytesOf(more) \in Seq(Seq(Nat))
  BY <1>1, <1>2, <1>4, AllNodes
<1>6. BytesOf(rs) = [i \in 1..n |-> rs[i].bytes] /\ BytesOf(rs) \in Seq(Seq(Nat))
  BY AllNodes DEF n
<1> DEFINE T == Seq(Nat)
           old == BytesOf(rs)
           new == BytesOf(more)
           b == r.bytes
<1>7. /\ old \in Seq(T) /\ Len(old) = n /\ new \in Seq(T) /\ Len(new) = n + 1 /\ b \in T
      /\ new[n + 1] = b /\ \A i \in 1..n : new[i] = old[i]
  <2>1. n + 1 \in 1..(n + 1) /\ \A i \in 1..n : i \in 1..(n + 1)
    BY <1>1
  <2>2. old \in Seq(T) /\ Len(old) = n /\ \A i \in 1..n : old[i] = rs[i].bytes
    BY <1>1, <1>6
  <2>3. new \in Seq(T) /\ Len(new) = n + 1 /\ \A i \in 1..(n + 1) : new[i] = more[i].bytes
    BY <1>1, <1>5
  <2>4. b \in T /\ new[n + 1] = b
    BY <1>1, <1>3, <2>1, <2>3
  <2>5. ASSUME NEW i \in 1..n PROVE new[i] = old[i]
    BY <1>1, <2>1, <2>2, <2>3
  <2> QED BY <2>2, <2>3, <2>4, <2>5
<1> HIDE DEF T, old, new, b
<1>8. new = Append(old, b)
  BY ONLY <1>1, <1>7
<1> QED BY <1>8 DEF old, new, b, more

\* A round that is no node adds nothing.
LEMMA NoNodeMore ==
  ASSUME NEW rs \in Seq(RoundRecord), NEW r \in RoundRecord, r.step # "node"
  PROVE  BytesOf(Append(rs, r)) = BytesOf(rs)
<1> DEFINE more == Append(rs, r)
           n == Len(rs)
<1>1. /\ n \in Nat /\ DOMAIN rs = 1..n /\ DOMAIN more = 1..(n + 1) /\ more[n + 1] = r
      /\ \A i \in 1..n : more[i] = rs[i]
  OBVIOUS
<1> HIDE DEF more, n
<1>2. \A i : i \in 1..(n + 1) <=> i \in 1..n \/ i = n + 1
  BY <1>1
<1>3. NodesOf(more) = NodesOf(rs) /\ NodesOf(rs) \subseteq 1..n
  BY <1>1, <1>2 DEF NodesOf
<1>4. \A i \in NodesOf(rs) : more[i].bytes = rs[i].bytes
  BY <1>1, <1>3
<1> QED BY <1>3, <1>4 DEF BytesOf, more

\* Where the list begins.
LEMMA MinOfNats ==
  ASSUME NEW T, T \subseteq Nat, T # {}
  PROVE  Min(T) \in T /\ \A y \in T : Min(T) <= y
<1>1. \E x \in T : \A y \in T : x <= y
  BY HasLeast
<1> QED BY <1>1 DEF Min

LEMMA ListStartIs ==
  ASSUME data \in Seq(Nat), Len(data) >= 6, NullTerms(From(data, 6)) # {}
  PROVE  ListStart \in Nat /\ ListEnd \in Int
<1> DEFINE T == NullTerms(From(data, 6))
<1>1. From(data, 6) \in Seq(Nat)
  BY SliceTyped DEF From
<1>2. T \subseteq Nat
  BY <1>1 DEF NullTerms
<1>3. FirstNull(From(data, 6)) \in Nat
  BY <1>2, MinOfNats DEF FirstNull
<1>4. DescriptionSize(From(data, 6)) \in Nat
  BY <1>3 DEF DescriptionSize
<1>5. Value16(data, 4) \in Nat
  <2>1. data[5] \in Nat /\ data[6] \in Nat
    OBVIOUS
  <2> QED BY <2>1 DEF Value16
<1> QED BY SMTT(20), <1>4, <1>5 DEF ListStart, ListEnd

LEMMA Tiles ==
  NodesTile <=> /\ offset <= Len(List)
                /\ PySlice(List, 0, offset) = FlattenSeq(BytesOf(rounds))
BY DEF NodesTile, BytesOf, NodesOf

LEMMA ListTyped ==
  ASSUME Typed
  PROVE  List \in Seq(Nat)
BY SliceTyped DEF Typed, List

LEMMA DataTyped ==
  ASSUME Init
  PROVE  data \in Seq(Nat)
<1>1. CASE cells \in Options /\ data = Bytes(cells)
  BY <1>1, BytesTyped
<1>2. CASE asked \in Requests /\ Buildable(asked) /\ data = BuiltOption(asked)
  BY <1>2, OptionTyped
<1>3. CASE data \in Raws
  <2>1. data \in Seq(Byte)
    BY <1>3, RawsAssumption
  <2> QED BY ONLY <2>1, ByteBounds, WiderItems
<1> QED BY <1>1, <1>2, <1>3 DEF Init

LEMMA TilingInit ==
  Init => TilingInv
<1> SUFFICES ASSUME Init PROVE TilingInv
  OBVIOUS
<1>1. data \in Seq(Nat)
  BY DataTyped
<1>2. pc = "fields" /\ start = 0 /\ end = 0 /\ offset = 0 /\ rounds = <<>>
  BY DEF Init
<1>3. Typed /\ OnlyLast /\ Begins
  BY <1>1, <1>2 DEF Typed, OnlyLast, Begins
<1>4. NodesTile
  <2>1. List \in Seq(Nat)
    BY <1>3, ListTyped
  <2>2. PySlice(List, 0, 0) = <<>> /\ 0 <= Len(List)
    BY <2>1, SliceIs
  <2> QED BY <1>2, <2>2, NoRounds, Tiles
<1> QED BY <1>3, <1>4 DEF TilingInv

\* The list so far and the bytes behind it are the list so far of the next round.
LEMMA SliceMore ==
  ASSUME NEW d \in Seq(Nat), NEW o \in 0..Len(d), NEW n \in Nat, o + n <= Len(d)
  PROVE  PySlice(d, 0, o + n) = PySlice(d, 0, o) \o SubSeq(d, o + 1, o + n)
<1> DEFINE old == PySlice(d, 0, o)
           new == PySlice(d, 0, o + n)
           part == SubSeq(d, o + 1, o + n)
<1>1. o \in Nat /\ o + n \in Nat /\ o <= Len(d) /\ o <= o + n
  OBVIOUS
<1>2. old \in Seq(Nat) /\ Len(old) = o /\ \A k \in 1..o : old[k] = d[k]
  BY SMTT(20), <1>1, SliceIs
<1>3. new \in Seq(Nat) /\ Len(new) = o + n /\ \A k \in 1..(o + n) : new[k] = d[k]
  BY SMTT(20), <1>1, SliceIs
<1>4. part \in Seq(Nat) /\ Len(part) = n /\ \A k \in 1..n : part[k] = d[o + k]
  BY SMTT(20), <1>1
<1> HIDE DEF old, new, part
<1> DEFINE all == old \o part
<1>5. /\ all \in Seq(Nat) /\ Len(all) = o + n
      /\ \A k \in 1..o : all[k] = old[k]
      /\ \A k \in 1..n : all[o + k] = part[k]
  <2>1. JoinOfTwo(all, old, part, Nat)
    BY <1>2, <1>4, Joined
  <2> HIDE DEF all
  <2> QED BY <1>2, <1>4, <2>1 DEF JoinOfTwo
<1> HIDE DEF all
<1>6. ASSUME NEW k \in 1..(o + n) PROVE all[k] = new[k]
  <2>1. CASE k \in 1..o
    BY <1>2, <1>3, <1>5, <2>1
  <2>2. CASE ~(k \in 1..o)
    <3>1. PICK m \in 1..n : k = o + m
      <4>1. k - o \in 1..n /\ k = o + (k - o)
        BY <1>1, <2>2
      <4> QED BY <4>1
    <3> QED BY <1>3, <1>4, <1>5, <3>1
  <2> QED BY <2>1, <2>2
<1>7. all = new
  BY <1>3, <1>5, <1>6
<1> QED BY <1>7 DEF all, old, new, part

LEMMA TilingNode ==
  ASSUME TilingInv, TakeNode
  PROVE  TilingInv'
<1> DEFINE r == Round(List, offset)
<1>1. Typed /\ OnlyLast /\ NodesTile /\ pc = "walk" /\ offset < Len(List)
  BY DEF TilingInv, TakeNode, Walking
<1>2. /\ r.step = "node" /\ rounds' = Append(rounds, r) /\ offset' = offset + r.size
      /\ UNCHANGED <<input, pc, start, end, result>>
  BY DEF TakeNode, PayloadSize
<1>3. List \in Seq(Nat) /\ offset \in 0..Len(List)
  <2>1. List \in Seq(Nat)
    BY <1>1, ListTyped
  <2>2. offset \in Nat
    BY <1>1 DEF Typed
  <2> QED BY <1>1, <2>1, <2>2
<1>4. /\ r \in NodeRecord /\ r.size > 0 /\ offset + r.size <= Len(List)
      /\ r.bytes = SubSeq(List, offset + 1, offset + r.size)
  BY <1>2, <1>3, RoundTakes
<1>5. r.size \in Nat /\ r.bytes \in Seq(Nat) /\ r \in RoundRecord
  BY <1>4 DEF NodeRecord, RoundRecord
<1> HIDE DEF r
<1>6. rounds \in Seq(RoundRecord) /\ \A i \in 1..Len(rounds) : rounds[i].step = "node"
  BY <1>1 DEF Typed, OnlyLast
<1>7. Typed' /\ OnlyLast' /\ Begins'
  <2>1. Typed'
    <3>1. offset' \in Nat
      BY <1>2, <1>3, <1>5
    <3>2. rounds' \in Seq(RoundRecord)
      BY <1>2, <1>5, <1>6
    <3> QED BY <1>1, <1>2, <3>1, <3>2 DEF Typed, input
  <2>2. \A i \in 1..Len(rounds') : rounds'[i].step = "node"
    <3>1. /\ Len(rounds') = Len(rounds) + 1 /\ Len(rounds) \in Nat
          /\ \A i \in 1..Len(rounds') : rounds'[i] = IF i = Len(rounds) + 1 THEN r ELSE rounds[i]
      BY <1>2, <1>5, <1>6
    <3>2. ASSUME NEW i \in 1..Len(rounds') PROVE rounds'[i].step = "node"
      <4>1. CASE i = Len(rounds) + 1
        BY <1>2, <3>1, <4>1
      <4>2. CASE i # Len(rounds) + 1
        <5>1. i \in 1..Len(rounds)
          BY <3>1, <4>2
        <5> QED BY <1>6, <3>1, <4>2, <5>1
      <4> QED BY <4>1, <4>2
    <3> QED BY <3>2
  <2> QED BY <1>1, <1>2, <2>1, <2>2 DEF OnlyLast, Begins
<1>8. List' = List
  BY <1>2 DEF List, input
<1>9. PySlice(List, 0, offset) = FlattenSeq(BytesOf(rounds))
  BY <1>1, Tiles
<1>10. PySlice(List, 0, offset + r.size) = FlattenSeq(BytesOf(Append(rounds, r)))
  <2>1. PySlice(List, 0, offset + r.size) = PySlice(List, 0, offset) \o r.bytes
    BY <1>3, <1>4, <1>5, SliceMore
  <2>2. BytesOf(Append(rounds, r)) = Append(BytesOf(rounds), r.bytes)
    BY <1>4, <1>6, OneNodeMore
  <2>3. FlattenSeq(Append(BytesOf(rounds), r.bytes)) = FlattenSeq(BytesOf(rounds)) \o r.bytes
    <3>1. BytesOf(rounds) \in Seq(Seq(Nat))
      BY <1>6, AllNodes
    <3> QED BY <1>5, <3>1, FlattenMore
  <2> QED BY <1>9, <2>1, <2>2, <2>3
<1>11. NodesTile'
  <2>1. /\ offset' <= Len(List')
        /\ PySlice(List', 0, offset') = FlattenSeq(BytesOf(rounds'))
    BY <1>2, <1>4, <1>8, <1>10
  <2> QED BY <2>1 DEF NodesTile, BytesOf, NodesOf
<1> QED BY <1>7, <1>11 DEF TilingInv

\* The last round of a walk that ends is no node.
LEMMA TilingStop ==
  ASSUME TilingInv, Walking, NEW r \in RoundRecord, r.step # "node",
         rounds' = Append(rounds, r), pc' \in {"rest", "raised"},
         UNCHANGED <<input, start, end, offset, result>>
  PROVE  TilingInv'
<1>1. Typed /\ NodesTile
  BY DEF TilingInv
<1>2. rounds \in Seq(RoundRecord)
  BY <1>1 DEF Typed
<1>3. Typed' /\ OnlyLast' /\ Begins'
  <2>1. rounds' \in Seq(RoundRecord)
    BY <1>2
  <2> QED BY <1>1, <2>1 DEF Typed, OnlyLast, Begins, input
<1>4. BytesOf(rounds') = BytesOf(rounds)
  BY <1>2, NoNodeMore
<1>5. List' = List
  BY DEF List, input
<1>6. NodesTile'
  <2>1. offset <= Len(List) /\ PySlice(List, 0, offset) = FlattenSeq(BytesOf(rounds))
    BY <1>1, Tiles
  <2>2. offset' <= Len(List') /\ PySlice(List', 0, offset') = FlattenSeq(BytesOf(rounds'))
    BY <1>4, <1>5, <2>1
  <2> QED BY <2>2 DEF NodesTile, BytesOf, NodesOf
<1> QED BY <1>3, <1>6 DEF TilingInv

LEMMA TilingStays ==
  ASSUME TilingInv, UNCHANGED <<input, start, end, offset, rounds>>, pc' \in {"rest", "done"}
  PROVE  TilingInv'
<1>1. Typed' /\ OnlyLast' /\ Begins'
  BY DEF TilingInv, Typed, OnlyLast, Begins, input
<1>2. List' = List /\ rounds' = rounds /\ offset' = offset
  BY DEF List, input
<1>3. NodesTile'
  BY <1>2 DEF TilingInv, NodesTile
<1> QED BY <1>1, <1>3 DEF TilingInv

LEMMA TilingStep ==
  ASSUME TilingInv, [Next]_vars
  PROVE  TilingInv'
<1>1. CASE TooShort
  BY <1>1, TilingStays DEF TooShort, Refuse
<1>2. CASE ReadFields
  <2>1. ListStart \in Nat /\ ListEnd \in Int
    BY <1>2, ListStartIs DEF ReadFields, TilingInv, Typed
  <2>2. /\ start' = ListStart /\ end' = ListEnd /\ pc' = "walk"
        /\ offset' = 0 /\ rounds' = <<>> /\ data' = data
    BY <1>2 DEF ReadFields, TilingInv, Begins, input
  <2>3. Typed' /\ OnlyLast' /\ Begins'
    BY <2>1, <2>2 DEF TilingInv, Typed, OnlyLast, Begins
  <2>4. PySlice(List', 0, 0) = <<>> /\ 0 <= Len(List')
    <3>1. List' = PySlice(data, ListStart, ListEnd)
      BY <2>2 DEF List
    <3>2. PySlice(data, ListStart, ListEnd) \in Seq(Nat)
      BY <2>1, SliceTyped DEF TilingInv, Typed
    <3> QED BY <3>1, <3>2, SliceIs
  <2>5. NodesTile'
    <3>1. offset' <= Len(List') /\ PySlice(List', 0, offset') = FlattenSeq(BytesOf(rounds'))
      BY <2>2, <2>4, NoRounds
    <3> QED BY <3>1 DEF NodesTile, BytesOf, NodesOf
  <2> QED BY <2>3, <2>5 DEF TilingInv
<1>3. CASE ListTooLong
  BY <1>3, TilingStays DEF ListTooLong, Refuse
<1>4. CASE TakeNode
  BY <1>4, TilingNode
<1>5. CASE LeaveList
  <2>1. PICK r \in {Round(List, offset)} : /\ r.step \in {"end", "raw", "corrupted"}
                                           /\ rounds' = Append(rounds, r)
    BY <1>5 DEF LeaveList
  <2>2. r \in RoundRecord
    <3>1. List \in Seq(Nat) /\ offset \in 0..Len(List)
      <4>1. List \in Seq(Nat)
        BY ListTyped DEF TilingInv
      <4> QED BY <1>5, <4>1 DEF LeaveList, Walking, TilingInv, Typed
    <3> QED BY <2>1, <3>1, RoundTyped
  <2> QED BY <1>5, <2>1, <2>2, TilingStop DEF LeaveList
<1>6. CASE RaiseInList
  <2>1. Stop("raises") \in RoundRecord /\ Stop("raises").step # "node"
    BY DEF Stop, RoundRecord
  <2> QED BY <1>6, <2>1, TilingStop DEF RaiseInList
<1>7. CASE ListOver
  BY <1>7, TilingStays DEF ListOver
<1>8. CASE TakeRest
  BY <1>8, TilingStays DEF TakeRest
<1>9. CASE UNCHANGED vars
  <2>1. Typed' /\ OnlyLast' /\ Begins'
    BY <1>9 DEF TilingInv, Typed, OnlyLast, Begins, vars
  <2>2. List' = List /\ rounds' = rounds /\ offset' = offset
    BY <1>9 DEF List, vars
  <2> QED BY <2>1, <2>2 DEF TilingInv, NodesTile
<1> QED BY <1>1, <1>2, <1>3, <1>4, <1>5, <1>6, <1>7, <1>8, <1>9 DEF Next

\* The nodes the parser takes are the list byte for byte, whatever lengths they
\* give themselves (the data_walked and payload_size of parse_efi_elo_filepathlist).
THEOREM NodesAreTheList == Spec => []NodesTile
<1>1. TilingInv => NodesTile
  BY DEF TilingInv
<1> QED BY <1>1, TilingInit, TilingStep, PTL DEF Spec
-----------------------------------------------------------------------------
(***************************************************************************)
(* The description: where it stands in the bytes of an option, and where   *)
(* the search for two zero bytes ends.                                     *)
(***************************************************************************)

\* What is joined so far begins what is joined in the end.
StartsWith(all, s) == Len(s) <= Len(all) /\ \A i \in 1..Len(s) : all[i] = s[i]

LEMMA PrefixKept ==
  ASSUME NEW S, NEW seqs \in Seq(Seq(S)), NEW f \in [0..Len(seqs) -> Seq(S)],
         JoinedUp(f, seqs), NEW k \in 0..Len(seqs)
  PROVE  StartsWith(f[Len(seqs)], f[k])
<1> DEFINE n == Len(seqs)
           Begun(m) == Len(f[k]) <= Len(f[m]) /\ \A i \in 1..Len(f[k]) : f[m][i] = f[k][i]
           T == {m \in 0..n : m >= k => Begun(m)}
<1>1. n \in Nat /\ k \in Nat /\ k <= n /\ \A m \in 0..n : f[m] \in Seq(S) /\ Len(f[m]) \in Nat
  OBVIOUS
<1>2. Begun(k)
  BY <1>1
<1>3. 0 \in T
  <2>1. 0 >= k => k = 0
    BY <1>1
  <2> HIDE DEF Begun
  <2> QED BY <1>1, <1>2, <2>1
<1>4. ASSUME NEW m \in 1..n, m - 1 \in T PROVE m \in T
  <2>1. m - 1 \in 0..n /\ m \in 0..n /\ (m - 1 >= k => Begun(m - 1))
    BY <1>1, <1>4
  <2>2. CASE m <= k
    <3>1. m >= k => m = k
      BY <1>1, <2>2
    <3> HIDE DEF Begun
    <3> QED BY <1>2, <2>1, <3>1
  <2>3. CASE ~(m <= k)
    <3>1. Begun(m - 1)
      <4>1. m - 1 >= k
        BY <1>1, <2>3
      <4> QED BY <2>1, <4>1
    <3> DEFINE old == f[m - 1]
               new == f[m]
               part == seqs[m]
    <3>2. old \in Seq(S) /\ part \in Seq(S) /\ new = old \o part
      <4>1. f[m] = f[m - 1] \o seqs[m]
        BY DEF JoinedUp
      <4>2. f[m - 1] \in Seq(S) /\ seqs[m] \in Seq(S)
        BY <1>1, <2>1
      <4> QED BY <4>1, <4>2
    <3> HIDE DEF old, new, part
    <3>3. Len(old) <= Len(new) /\ \A i \in 1..Len(old) : new[i] = old[i]
      BY <3>2
    <3>4. Len(f[k]) <= Len(old) /\ \A i \in 1..Len(f[k]) : old[i] = f[k][i]
      BY <3>1 DEF old
    <3>5. Len(f[k]) \in Nat /\ Len(old) \in Nat /\ Len(new) \in Nat
      BY <1>1, <2>1 DEF old, new
    <3>6. Len(f[k]) <= Len(new) /\ \A i \in 1..Len(f[k]) : new[i] = f[k][i]
      BY ONLY <3>3, <3>4, <3>5
    <3>7. Begun(m)
      BY <3>6 DEF new
    <3> HIDE DEF Begun
    <3> QED BY <2>1, <3>7
  <2> QED BY <2>2, <2>3
<1>5. n \in T
  <2>1. n \in 0..n
    BY <1>1
  <2>2. \A m \in 1..n : m - 1 \in T => m \in T
    BY <1>4
  <2> HIDE DEF T, n
  <2> QED BY <1>1, <1>3, <2>1, <2>2, Along
<1>6. Begun(n)
  <2> HIDE DEF Begun
  <2> QED BY <1>1, <1>5
<1> QED BY <1>6 DEF StartsWith

\* s stands in d behind the first at items.
StandsAt(s, d, at) == at + Len(s) <= Len(d) /\ \A k \in 1..Len(s) : d[at + k] = s[k]

LEMMA BytesBegin ==
  ASSUME NEW cs \in Options, HeaderOk(cs)
  PROVE  /\ cs[3].val \in DOMAIN Units
         /\ StandsAt(BuildDescription(Units[cs[3].val]), Bytes(cs), 6)
<1> DEFINE n == Len(cs)
           part(i) == IF cs[i].kind = "len"
                      THEN LittleEndian16(ListBytes(cs, i + 2, cs[i].n))
                      ELSE CellBytes(cs[i])
           seqs == [i \in 1..n |-> part(i)]
           text == BuildDescription(Units[cs[3].val])
<1>1. /\ n \in Nat /\ n >= 3 /\ cs \in Seq(OptionCell)
      /\ cs[1].kind = "attr" /\ cs[2].kind = "len" /\ cs[3].kind = "desc"
  BY OptionsAssumption DEF HeaderOk
<1>2. 1 \in 1..n /\ 2 \in 1..n /\ 3 \in 1..n
  BY <1>1
<1>3. cs[1] \in OptionCell /\ cs[3] \in OptionCell
  BY <1>1, <1>2
<1>4. cs[3].val \in DOMAIN Units /\ cs[3].flaws = {}
  BY <1>1, <1>3 DEF OptionCell, NodeKinds, Known
<1>5. cs[1].flaws = {}
  BY <1>1, <1>3 DEF OptionCell, NodeKinds, Known
<1>6. part(1) = <<1, 0, 0, 0>>
  <2>1. Whole(cs[1]) = <<1, 0, 0, 0>>
    BY <1>1, HeaderIs DEF Whole
  <2> QED BY <1>1, <1>5, <2>1 DEF CellBytes
<1>7. \E lo, hi \in Nat : part(2) = <<lo, hi>>
  <2>1. seqs \in Seq(Seq(Nat))
    BY PartsTyped
  <2>2. part(2) \in Seq(Nat)
    BY <1>1, <1>2, <2>1
  <2>3. PICK m : part(2) = LittleEndian16(m)
    BY <1>1
  <2>4. part(2) = <<m % 256, m \div 256>>
    BY <2>3 DEF LittleEndian16
  <2> HIDE DEF part
  <2>5. Len(part(2)) = 2 /\ part(2) = <<part(2)[1], part(2)[2]>>
    BY <2>4
  <2>6. part(2)[1] \in Nat /\ part(2)[2] \in Nat
    BY <2>2, <2>5
  <2> QED BY <2>5, <2>6
<1>8. part(3) = text
  <2>1. Whole(cs[3]) = text
    BY <1>1, HeaderIs DEF Whole
  <2> QED BY <1>1, <1>4, <2>1 DEF CellBytes
<1>9. seqs \in Seq(Seq(Nat)) /\ Bytes(cs) = FlattenSeq(seqs) /\ Len(seqs) = n
  BY <1>1, PartsTyped DEF Bytes
<1>10. seqs[1] = <<1, 0, 0, 0>> /\ (\E lo, hi \in Nat : seqs[2] = <<lo, hi>>) /\ seqs[3] = text
  BY <1>2, <1>6, <1>7, <1>8
<1> HIDE DEF seqs, part, n, text
<1>11. PICK f \in [0..n -> Seq(Nat)] : JoinedUp(f, seqs) /\ Bytes(cs) = f[n]
  BY <1>9, FlattenIs
<1>12. f[0] = <<>> /\ f[1] = f[0] \o seqs[1] /\ f[2] = f[1] \o seqs[2] /\ f[3] = f[2] \o seqs[3]
  <2>1. f[1] = f[1 - 1] \o seqs[1] /\ f[2] = f[2 - 1] \o seqs[2] /\ f[3] = f[3 - 1] \o seqs[3]
    BY <1>2, <1>9, <1>11 DEF JoinedUp
  <2>2. f[0] = <<>>
    BY <1>11 DEF JoinedUp
  <2>3. 1 - 1 = 0 /\ 2 - 1 = 1 /\ 3 - 1 = 2
    OBVIOUS
  <2> QED BY ONLY <2>1, <2>2, <2>3
<1>13. f[2] \in Seq(Nat) /\ Len(f[2]) = 6 /\ text \in Seq(Nat)
  <2>1. f[1] = <<1, 0, 0, 0>>
    BY <1>10, <1>12
  <2>2. PICK lo, hi \in Nat : seqs[2] = <<lo, hi>>
    BY <1>10
  <2>3. f[2] \in Seq(Nat) /\ Len(f[2]) = 6
    <3>1. f[1] \in Seq(Nat) /\ Len(f[1]) = 4 /\ seqs[2] \in Seq(Nat) /\ Len(seqs[2]) = 2
      BY ONLY <2>1, <2>2
    <3> DEFINE a == f[1]
               b == seqs[2]
    <3>2. f[2] = a \o b /\ a \in Seq(Nat) /\ Len(a) = 4 /\ b \in Seq(Nat) /\ Len(b) = 2
      BY ONLY <1>12, <3>1
    <3> HIDE DEF a, b
    <3>3. JoinOfTwo(a \o b, a, b, Nat)
      BY <3>2, Joined
    <3> QED BY ONLY <3>2, <3>3 DEF JoinOfTwo
  <2>4. text \in Seq(Nat)
    BY <1>2, <1>9, <1>10
  <2> QED BY <2>3, <2>4
<1>14. Len(f[3]) = 6 + Len(text) /\ \A k \in 1..Len(text) : f[3][6 + k] = text[k]
  BY <1>10, <1>12, <1>13
<1>15. Len(f[3]) <= Len(f[n]) /\ \A i \in 1..Len(f[3]) : f[n][i] = f[3][i]
  <2>1. f \in [0..Len(seqs) -> Seq(Nat)] /\ 3 \in 0..Len(seqs)
    BY <1>1, <1>9, <1>11
  <2>2. JoinedUp(f, seqs) /\ seqs \in Seq(Seq(Nat))
    BY <1>9, <1>11
  <2>3. StartsWith(f[Len(seqs)], f[3])
    BY ONLY <2>1, <2>2, PrefixKept
  <2> QED BY <1>9, <2>3 DEF StartsWith
<1>16. Len(text) \in Nat /\ Len(f[n]) \in Nat
  <2>1. n \in 0..n
    BY <1>1
  <2> QED BY <1>11, <1>13, <2>1
<1>17. StandsAt(text, f[n], 6)
  <2>1. ASSUME NEW k \in 1..Len(text) PROVE f[n][6 + k] = text[k]
    <3>1. 6 + k \in 1..Len(f[3])
      BY <1>14, <1>16
    <3> QED BY <1>14, <1>15, <3>1
  <2> QED BY <1>14, <1>15, <1>16, <2>1 DEF StandsAt
<1> QED BY <1>4, <1>11, <1>17 DEF text

LEMMA UnitBytes ==
  ASSUME NEW u \in Unit
  PROVE  /\ u \in Nat /\ u % 256 \in Nat /\ u \div 256 \in Nat
         /\ u % 256 # 0 \/ u \div 256 # 0
         /\ u \div 256 = 0 <=> u < 256
         /\ (u % 256) + 256 * (u \div 256) = u
<1>1. u \in Int /\ 1 <= u
  BY UnitBounds
<1> QED BY <1>1

\* The bytes of a description behind the first at of d.
Spelled(d, at, units) ==
    /\ d \in Seq(Nat) /\ at \in Nat /\ at + 2 * Len(units) + 2 <= Len(d)
    /\ \A k \in 1..Len(units) : /\ d[at + 2 * k - 1] = units[k] % 256
                                /\ d[at + 2 * k] = units[k] \div 256
    /\ d[at + 2 * Len(units) + 1] = 0 /\ d[at + 2 * Len(units) + 2] = 0

LEMMA DescriptionSpelled ==
  ASSUME NEW units \in Seq(Unit), NEW d \in Seq(Nat), NEW at \in Nat,
         StandsAt(BuildDescription(units), d, at)
  PROVE  Spelled(d, at, units)
<1> DEFINE n == Len(units)
           code == Encode(units)
           text == code \o <<0, 0>>
<1>1. units \in Seq(Nat) /\ n \in Nat
  <2>1. units \in Seq(Nat)
    BY ONLY units \in Seq(Unit), UnitBounds, WiderItems
  <2> QED BY <2>1
<1>2. /\ code \in Seq(Nat) /\ Len(code) = 2 * n
      /\ \A k \in 1..n : code[2 * k - 1] = units[k] % 256 /\ code[2 * k] = units[k] \div 256
  BY <1>1, EncodeIs
<1>3. StandsAt(text, d, at)
  BY DEF BuildDescription
<1> HIDE DEF n, code
<1>4. /\ Len(text) = 2 * n + 2 /\ text[2 * n + 1] = 0 /\ text[2 * n + 2] = 0
      /\ \A i \in 1..(2 * n) : text[i] = code[i]
  BY SMTT(20), <1>1, <1>2
<1> HIDE DEF text
<1>5. at + (2 * n + 2) <= Len(d) /\ \A k \in 1..(2 * n + 2) : d[at + k] = text[k]
  BY <1>3, <1>4 DEF StandsAt
<1>6. ASSUME NEW k \in 1..n
      PROVE  d[at + 2 * k - 1] = units[k] % 256 /\ d[at + 2 * k] = units[k] \div 256
  <2>1. /\ 2 * k - 1 \in 1..(2 * n) /\ 2 * k \in 1..(2 * n)
        /\ at + (2 * k - 1) = at + 2 * k - 1
    BY <1>1
  <2>2. 2 * k - 1 \in 1..(2 * n + 2) /\ 2 * k \in 1..(2 * n + 2)
    BY <1>1
  <2>3. d[at + (2 * k - 1)] = text[2 * k - 1] /\ d[at + 2 * k] = text[2 * k]
    BY <1>5, <2>2
  <2> QED BY <1>2, <1>4, <2>1, <2>3
<1>7. d[at + 2 * n + 1] = 0 /\ d[at + 2 * n + 2] = 0
  <2>1. 2 * n + 1 \in 1..(2 * n + 2) /\ 2 * n + 2 \in 1..(2 * n + 2)
    BY <1>1
  <2>2. d[at + (2 * n + 1)] = 0 /\ d[at + (2 * n + 2)] = 0
    BY <1>4, <1>5, <2>1
  <2>3. at + (2 * n + 1) = at + 2 * n + 1 /\ at + (2 * n + 2) = at + 2 * n + 2
    BY <1>1
  <2> QED BY <2>2, <2>3
<1>8. at + 2 * n + 2 <= Len(d)
  BY <1>1, <1>5
<1> QED BY <1>6, <1>7, <1>8 DEF Spelled, n

\* The places that are tried up to the end of the description: an even one is
\* inside a character, or the end; an odd one takes the high byte of a character
\* and the low byte of the next.
LEMMA NullsOf ==
  ASSUME NEW units \in Seq(Unit), NEW d, Spelled(d, 0, units)
  PROVE  /\ NullTerms(d) \subseteq Nat /\ 2 * Len(units) \in NullTerms(d)
         /\ \A j \in 0..(Len(units) - 1) : 2 * j \notin NullTerms(d)
         /\ \A j \in 1..(Len(units) - 1) : 2 * j - 1 \in NullTerms(d) <=> j \in EarlyPairs(units)
<1> DEFINE n == Len(units)
           N == NullTerms(d)
<1>1. n \in Nat /\ d \in Seq(Nat) /\ 2 * n + 2 <= Len(d) /\ Len(d) \in Nat
  BY DEF Spelled
<1>2. \A k \in 1..n : d[2 * k - 1] = units[k] % 256 /\ d[2 * k] = units[k] \div 256
  <2>1. ASSUME NEW k \in 1..n PROVE d[2 * k - 1] = units[k] % 256 /\ d[2 * k] = units[k] \div 256
    <3>1. 0 + 2 * k - 1 = 2 * k - 1 /\ 0 + 2 * k = 2 * k
      BY <1>1
    <3>2. d[0 + 2 * k - 1] = units[k] % 256 /\ d[0 + 2 * k] = units[k] \div 256
      BY DEF Spelled
    <3> QED BY <3>1, <3>2
  <2> QED BY <2>1
<1>3. d[2 * n + 1] = 0 /\ d[2 * n + 2] = 0
  <2>1. d[0 + 2 * n + 1] = 0 /\ d[0 + 2 * n + 2] = 0
    BY DEF Spelled
  <2> QED BY <1>1, <2>1
<1>4. \A p : p \in N <=> p \in 0..(Len(d) - 2) /\ d[p + 1] + 256 * d[p + 2] = 0
  BY DEF NullTerms, Value16
<1>5. \A k \in 1..n : units[k] \in Unit
  OBVIOUS
<1> HIDE DEF n, N
<1>6. 2 * n \in N
  <2>1. 2 * n \in 0..(Len(d) - 2)
    BY <1>1
  <2>2. d[2 * n + 1] + 256 * d[2 * n + 2] = 0
    BY <1>3
  <2> QED BY <1>4, <2>1, <2>2
<1>7. ASSUME NEW j \in 0..(n - 1) PROVE 2 * j \notin N
  <2> DEFINE u == units[j + 1]
  <2>1. j + 1 \in 1..n /\ 2 * (j + 1) - 1 = 2 * j + 1 /\ 2 * (j + 1) = 2 * j + 2
    BY <1>1
  <2>2. d[2 * j + 1] = u % 256 /\ d[2 * j + 2] = u \div 256
    BY <1>2, <2>1
  <2>3. u % 256 \in Nat /\ u \div 256 \in Nat /\ (u % 256 # 0 \/ u \div 256 # 0)
    BY <1>5, <2>1, UnitBytes
  <2> HIDE DEF u
  <2> DEFINE lo == u % 256
             hi == u \div 256
  <2>4. lo + 256 * hi # 0
    <3> HIDE DEF lo, hi
    <3>1. lo \in Nat /\ hi \in Nat /\ (lo # 0 \/ hi # 0)
      BY <2>3 DEF lo, hi
    <3> QED BY <3>1
  <2> QED BY <1>4, <2>2, <2>4
<1>8. ASSUME NEW j \in 1..(n - 1) PROVE 2 * j - 1 \in N <=> j \in EarlyPairs(units)
  <2> DEFINE u == units[j]
             v == units[j + 1]
             lo == v % 256
             hi == u \div 256
  <2>1. /\ j \in 1..n /\ j + 1 \in 1..n /\ 2 * j = (2 * j - 1) + 1 /\ 2 * (j + 1) - 1 = (2 * j - 1) + 2
        /\ 2 * j - 1 \in 0..(Len(d) - 2)
    BY <1>1
  <2>2. d[(2 * j - 1) + 1] = hi /\ d[(2 * j - 1) + 2] = lo
    <3>1. d[2 * j] = hi /\ d[2 * (j + 1) - 1] = lo
      BY <1>2, <2>1
    <3> QED BY <2>1, <3>1
  <2>3. hi \in Nat /\ lo \in Nat /\ (hi = 0 <=> u < 256)
    <3>1. u \in Unit /\ v \in Unit
      BY <1>5, <2>1
    <3> HIDE DEF u, v
    <3>2. u \div 256 \in Nat /\ (u \div 256 = 0 <=> u < 256)
      BY <3>1, UnitBytes
    <3>3. v % 256 \in Nat
      BY <3>1, UnitBytes
    <3> QED BY <3>2, <3>3
  <2>4. j \in EarlyPairs(units) <=> u < 256 /\ lo = 0
    BY DEF EarlyPairs, n
  <2> HIDE DEF u, v, lo, hi
  <2>5. 2 * j - 1 \in N <=> hi + 256 * lo = 0
    BY <1>4, <2>1, <2>2
  <2>6. hi + 256 * lo = 0 <=> hi = 0 /\ lo = 0
    BY <2>3
  <2> QED BY <2>3, <2>4, <2>5, <2>6
<1>9. N \subseteq Nat
  BY <1>1, <1>4
<1> QED BY <1>6, <1>7, <1>8, <1>9 DEF n, N

LEMMA Halved ==
  ASSUME NEW m \in Nat
  PROVE  \E j \in Nat : m = 2 * j \/ (m = 2 * j - 1 /\ j >= 1)
<1>1. (m % 2 = 0 \/ m % 2 = 1) /\ m = 2 * (m \div 2) + (m % 2) /\ m \div 2 \in Nat
  <2>1. m % 2 = 0 \/ m % 2 = 1
    OBVIOUS
  <2>2. m \div 2 \in Nat
    OBVIOUS
  <2>3. m = 2 * (m \div 2) + (m % 2)
    OBVIOUS
  <2> QED BY <2>1, <2>2, <2>3
<1>2. CASE m % 2 = 0
  <2>1. m = 2 * (m \div 2)
    BY <1>1, <1>2
  <2> QED BY <1>1, <2>1
<1>3. CASE m % 2 = 1
  <2>1. m = 2 * (m \div 2 + 1) - 1 /\ m \div 2 + 1 \in Nat /\ m \div 2 + 1 >= 1
    BY <1>1, <1>3
  <2> QED BY <2>1
<1> QED BY <1>1, <1>2, <1>3

LEMMA EndFound ==
  ASSUME NEW units \in Seq(Unit), NEW d, Spelled(d, 0, units)
  PROVE  /\ WholeUpTo(units) \in 0..Len(units)
         /\ DescriptionSize(d) = 2 * WholeUpTo(units)
<1> DEFINE n == Len(units)
           N == NullTerms(d)
           E == EarlyPairs(units)
           w == WholeUpTo(units)
           m == FirstNull(d)
<1>1. n \in Nat
  OBVIOUS
<1>2. /\ N \subseteq Nat /\ 2 * n \in N /\ \A j \in 0..(n - 1) : 2 * j \notin N
      /\ \A j \in 1..(n - 1) : 2 * j - 1 \in N <=> j \in E
  BY NullsOf
<1>3. m \in N /\ \A p \in N : m <= p
  BY <1>2, MinOfNats DEF FirstNull
<1>4. w = IF E = {} THEN n ELSE Min(E)
  BY DEF WholeUpTo
<1>5. E \subseteq 1..(n - 1) /\ E \subseteq Nat
  BY DEF EarlyPairs
<1>6. DescriptionSize(d) = IF m % 2 = 0 THEN m ELSE m + 1
  BY DEF DescriptionSize
<1> HIDE DEF n, N, E, w, m
<1>7. m \in Nat /\ m <= 2 * n
  BY <1>1, <1>2, <1>3
<1>8. PICK j \in Nat : m = 2 * j \/ (m = 2 * j - 1 /\ j >= 1)
  BY <1>7, Halved
<1>9. DescriptionSize(d) = 2 * j /\ j <= n
  <2>1. (2 * j) % 2 = 0 /\ (2 * j - 1) % 2 = 1
    OBVIOUS
  <2> QED BY <1>1, <1>6, <1>7, <1>8, <2>1
<1>10. CASE E = {}
  <2>1. j >= n
    <3>1. CASE m = 2 * j
      BY <1>1, <1>2, <1>3, <3>1
    <3>2. CASE m = 2 * j - 1 /\ j >= 1
      BY <1>1, <1>2, <1>3, <1>10, <3>2
    <3> QED BY <1>8, <3>1, <3>2
  <2>2. w = n /\ j = n
    BY <1>1, <1>4, <1>9, <1>10, <2>1
  <2> QED BY <1>1, <1>9, <2>2 DEF n, w
<1>11. CASE E # {}
  <2>1. w \in E /\ \A x \in E : w <= x
    BY <1>4, <1>5, <1>11, MinOfNats
  <2>2. w \in 1..(n - 1) /\ 2 * w - 1 \in N
    BY <1>2, <1>5, <2>1
  <2>3. m <= 2 * w - 1
    BY <1>3, <2>2
  <2>4. CASE m = 2 * j
    <3>1. j \in 0..(n - 1)
      BY <1>1, <2>2, <2>3, <2>4
    <3> QED BY <1>2, <1>3, <2>4, <3>1
  <2>5. CASE m = 2 * j - 1 /\ j >= 1
    <3>1. j \in 1..(n - 1) /\ j <= w
      BY <1>1, <2>2, <2>3, <2>5
    <3>2. w <= j
      BY <1>2, <1>3, <2>1, <2>5, <3>1
    <3>3. j = w
      BY <2>2, <3>1, <3>2
    <3>4. w \in 0..n
      BY <1>1, <2>2
    <3> QED BY <1>9, <3>3, <3>4 DEF n, w
  <2> QED BY <1>8, <2>4, <2>5
<1> QED BY <1>10, <1>11 DEF n, w

LEMMA BehindIsSpelled ==
  ASSUME NEW units \in Seq(Unit), NEW d, NEW at \in Nat, Spelled(d, at, units)
  PROVE  Spelled(From(d, at), 0, units)
<1> DEFINE n == Len(units)
           e == From(d, at)
<1>1. n \in Nat /\ d \in Seq(Nat) /\ at + 2 * n + 2 <= Len(d) /\ Len(d) \in Nat
  BY DEF Spelled
<1>2. e \in Seq(Nat) /\ Len(e) = Len(d) - at /\ \A k \in 1..(Len(d) - at) : e[k] = d[at + k]
  <2>1. at <= Len(d)
    BY <1>1
  <2>2. IsPart(e, d, at, Len(d) - at, Nat)
    BY <1>1, <2>1, SliceWithin DEF From
  <2> QED BY <2>2 DEF IsPart
<1>3. /\ \A k \in 1..n : d[at + 2 * k - 1] = units[k] % 256 /\ d[at + 2 * k] = units[k] \div 256
      /\ d[at + 2 * n + 1] = 0 /\ d[at + 2 * n + 2] = 0
  BY DEF Spelled
<1> HIDE DEF n, e
<1>4. ASSUME NEW k \in 1..n
      PROVE  e[0 + 2 * k - 1] = units[k] % 256 /\ e[0 + 2 * k] = units[k] \div 256
  <2>1. /\ 2 * k - 1 \in 1..(Len(d) - at) /\ 2 * k \in 1..(Len(d) - at)
        /\ at + (2 * k - 1) = at + 2 * k - 1 /\ 0 + 2 * k - 1 = 2 * k - 1 /\ 0 + 2 * k = 2 * k
    BY <1>1
  <2>2. e[2 * k - 1] = d[at + (2 * k - 1)] /\ e[2 * k] = d[at + 2 * k]
    BY <1>2, <2>1
  <2> QED BY <1>3, <2>1, <2>2
<1>5. e[0 + 2 * n + 1] = 0 /\ e[0 + 2 * n + 2] = 0
  <2>1. /\ 2 * n + 1 \in 1..(Len(d) - at) /\ 2 * n + 2 \in 1..(Len(d) - at)
        /\ at + (2 * n + 1) = at + 2 * n + 1 /\ at + (2 * n + 2) = at + 2 * n + 2
        /\ 0 + 2 * n + 1 = 2 * n + 1 /\ 0 + 2 * n + 2 = 2 * n + 2
    BY <1>1
  <2>2. e[2 * n + 1] = d[at + (2 * n + 1)] /\ e[2 * n + 2] = d[at + (2 * n + 2)]
    BY <1>2, <2>1
  <2> QED BY <1>3, <2>1, <2>2
<1>6. 0 + 2 * n + 2 <= Len(e)
  BY <1>1, <1>2
<1> QED BY <1>2, <1>4, <1>5, <1>6 DEF Spelled, n, e

LEMMA DescriptionDecoded ==
  ASSUME NEW units \in Seq(Unit), NEW d, NEW at \in Nat, Spelled(d, at, units)
  PROVE  /\ DescriptionSize(From(d, at)) = 2 * WholeUpTo(units)
         /\ WholeUpTo(units) \in 0..Len(units)
         /\ Decode(PySlice(d, at, at + 2 * WholeUpTo(units))) = SubSeq(units, 1, WholeUpTo(units))
<1> DEFINE n == Len(units)
           w == WholeUpTo(units)
           s == PySlice(d, at, at + 2 * w)
           back == Decode(s)
<1>1. DescriptionSize(From(d, at)) = 2 * w /\ w \in 0..n
  BY BehindIsSpelled, EndFound
<1>2. n \in Nat /\ d \in Seq(Nat) /\ at + 2 * n + 2 <= Len(d) /\ Len(d) \in Nat /\ w \in Nat /\ w <= n
  <2>1. n \in Nat /\ d \in Seq(Nat) /\ at + 2 * n + 2 <= Len(d) /\ Len(d) \in Nat
    BY DEF Spelled
  <2> HIDE DEF n, w
  <2> QED BY <1>1, <2>1
<1>3. \A k \in 1..n : d[at + 2 * k - 1] = units[k] % 256 /\ d[at + 2 * k] = units[k] \div 256
  BY DEF Spelled
<1>4. \A k \in 1..n : units[k] \in Unit
  OBVIOUS
<1> HIDE DEF n, w
<1>5. s \in Seq(Nat) /\ Len(s) = 2 * w /\ \A k \in 1..(2 * w) : s[k] = d[at + k]
  <2> DEFINE b == at + 2 * w
  <2>1. b \in Nat /\ at <= b /\ b <= Len(d) /\ b - at = 2 * w
    BY <1>2
  <2> HIDE DEF b
  <2>2. IsPart(PySlice(d, at, b), d, at, b - at, Nat)
    BY <1>2, <2>1, SliceWithin
  <2> QED BY <2>1, <2>2 DEF b, IsPart
<1> HIDE DEF s
<1>6. back = [i \in 1..w |-> Value16(s, 2 * (i - 1))]
  <2>1. Len(s) \div 2 = w
    BY <1>2, <1>5
  <2> QED BY <2>1 DEF Decode
<1>7. ASSUME NEW i \in 1..w PROVE Value16(s, 2 * (i - 1)) = units[i]
  <2> DEFINE u == units[i]
             lo == u % 256
             hi == u \div 256
  <2>1. /\ i \in 1..n /\ 2 * (i - 1) + 1 = 2 * i - 1 /\ 2 * (i - 1) + 2 = 2 * i
        /\ 2 * i - 1 \in 1..(2 * w) /\ 2 * i \in 1..(2 * w) /\ at + (2 * i - 1) = at + 2 * i - 1
    BY <1>2
  <2>2. s[2 * (i - 1) + 1] = lo /\ s[2 * (i - 1) + 2] = hi
    <3>1. s[2 * i - 1] = d[at + (2 * i - 1)] /\ s[2 * i] = d[at + 2 * i]
      BY <1>5, <2>1
    <3> QED BY <1>3, <2>1, <3>1
  <2>3. lo + 256 * hi = u
    <3>1. u \in Unit
      BY <1>4, <2>1
    <3> HIDE DEF u
    <3> QED BY <3>1, UnitBytes
  <2> HIDE DEF lo, hi
  <2> QED BY <2>2, <2>3 DEF Value16
<1>8. SubSeq(units, 1, w) = [i \in 1..w |-> units[i]]
  <2>1. units \in Seq(Nat)
    BY ONLY units \in Seq(Unit), UnitBounds, WiderItems
  <2> QED BY <1>2, <2>1 DEF n
<1>9. back = SubSeq(units, 1, w)
  BY <1>6, <1>7, <1>8
<1> QED BY <1>1, <1>9 DEF back, s, n, w

\* What a run knows of its input and of what it has read.
ReadInv ==
    /\ cells # NoCells => cells \in Options /\ data = Bytes(cells)
    /\ pc \in {"walk", "rest"} => start = ListStart
    /\ result # Unparsed => result.description = Decode(PySlice(data, 6, ListStart - 2))

LEMMA ReadInit ==
  Init => ReadInv
BY DEF Init, ReadInv

LEMMA ReadStep ==
  ASSUME ReadInv, [Next]_vars
  PROVE  ReadInv'
<1>1. ASSUME UNCHANGED data PROVE ListStart' = ListStart
  BY <1>1 DEF ListStart
<1>2. ASSUME UNCHANGED <<input, start, result>>, pc' \in {"walk", "rest"} => pc \in {"walk", "rest"}
      PROVE  ReadInv'
  BY <1>1, <1>2 DEF ReadInv, input
<1>3. CASE TooShort \/ ListTooLong
  BY <1>2, <1>3 DEF TooShort, ListTooLong, Refuse
<1>4. CASE ReadFields
  BY <1>1, <1>4 DEF ReadFields, ReadInv, input
<1>5. CASE TakeNode
  BY <1>2, <1>5 DEF TakeNode
<1>6. CASE LeaveList
  BY <1>2, <1>6 DEF LeaveList, Walking
<1>7. CASE RaiseInList
  BY <1>2, <1>7 DEF RaiseInList
<1>8. CASE ListOver
  BY <1>2, <1>8 DEF ListOver
<1>9. CASE TakeRest
  <2>1. start = ListStart /\ ListStart' = ListStart
    BY <1>1, <1>9 DEF TakeRest, ReadInv, input
  <2>2. result'.description = Decode(PySlice(data, 6, start - 2))
    BY <1>9 DEF TakeRest
  <2>3. pc' = "done" /\ data' = data /\ cells' = cells
    BY <1>9 DEF TakeRest, input
  <2> QED BY <2>1, <2>2, <2>3 DEF ReadInv
<1>10. CASE UNCHANGED vars
  BY <1>2, <1>10 DEF vars, input
<1> QED BY <1>3, <1>4, <1>5, <1>6, <1>7, <1>8, <1>9, <1>10 DEF Next

LEMMA ReadsBack ==
  ReadInv => DescriptionReadsBack
<1> SUFFICES ASSUME ReadInv, result # Unparsed, Described(cells)
             PROVE  result.description = SubSeq(Units[cells[3].val], 1, WholeUpTo(Units[cells[3].val]))
  BY DEF DescriptionReadsBack
<1> DEFINE units == Units[cells[3].val]
<1>1. cells \in Options /\ data = Bytes(cells) /\ HeaderOk(cells)
  BY DEF ReadInv, Described
<1>2. cells[3].val \in DOMAIN Units /\ StandsAt(BuildDescription(units), data, 6)
  BY <1>1, BytesBegin
<1>3. units \in Seq(Unit) /\ data \in Seq(Nat)
  BY <1>1, <1>2, BytesTyped, UnitsAssumption
<1> HIDE DEF units
<1>4. Spelled(data, 6, units)
  BY <1>2, <1>3, DescriptionSpelled
<1>5. /\ DescriptionSize(From(data, 6)) = 2 * WholeUpTo(units) /\ WholeUpTo(units) \in 0..Len(units)
      /\ Decode(PySlice(data, 6, 6 + 2 * WholeUpTo(units))) = SubSeq(units, 1, WholeUpTo(units))
  BY <1>3, <1>4, DescriptionDecoded
<1>6. ListStart - 2 = 6 + 2 * WholeUpTo(units)
  BY <1>5 DEF ListStart
<1>7. result.description = Decode(PySlice(data, 6, ListStart - 2))
  BY DEF ReadInv
<1> QED BY <1>5, <1>6, <1>7 DEF units

\* A description ends at its terminator, or at the first character below 256 that
\* stands before one whose low byte is 0, and never behind it (data.find(_NULLTERM)
\* and the correction of an odd place in parse_efi_EFI_LOAD_OPTION).
THEOREM DescriptionIsReadBack == Spec => []DescriptionReadsBack
BY ReadInit, ReadStep, ReadsBack, PTL DEF Spec
-----------------------------------------------------------------------------
(***************************************************************************)
(* What the builders put together.  A number is its four bytes, and 0 in   *)
(* the bytes behind them.                                                  *)
(***************************************************************************)

LEMMA DividedTwice ==
  ASSUME NEW n \in Nat
  PROVE  /\ n \div 65536 = (n \div 256) \div 256
         /\ n \div 16777216 = (n \div 65536) \div 256
<1>1. n \div 65536 = (n \div 256) \div 256
  OBVIOUS
<1>2. n \div 16777216 = (n \div 65536) \div 256
  OBVIOUS
<1> QED BY <1>1, <1>2

LEMMA LowAndHigh ==
  ASSUME NEW n \in Nat
  PROVE  n % 256 \in Nat /\ n \div 256 \in Nat /\ n = (n % 256) + 256 * (n \div 256)
OBVIOUS

LEMMA FourBytes ==
  ASSUME NEW n \in Number
  PROVE  \E a, b, c, d \in Nat :
           /\ n = a + 256 * (b + 256 * (c + 256 * d))
           /\ a < 256 /\ b < 256 /\ c < 256 /\ d < 128
           /\ (n \div Weight[1]) % 256 = a /\ (n \div Weight[2]) % 256 = b
           /\ (n \div Weight[3]) % 256 = c /\ (n \div Weight[4]) % 256 = d
<1> DEFINE p == n \div 256
           q == n \div 65536
           r == n \div 16777216
<1>1. n \in Nat /\ q < 32768
  BY DEF Number
<1>2. q = p \div 256 /\ r = q \div 256 /\ p \in Nat /\ q \in Nat /\ r \in Nat
  BY <1>1, DividedTwice, LowAndHigh
<1>3. n = (n % 256) + 256 * p /\ n % 256 \in Nat /\ n % 256 < 256
  BY <1>1, LowAndHigh
<1> HIDE DEF p, q, r
<1>4. p = (p % 256) + 256 * q /\ p % 256 \in Nat /\ p % 256 < 256
  BY <1>2, LowAndHigh
<1>5. q = (q % 256) + 256 * r /\ q % 256 \in Nat /\ q % 256 < 256
  BY <1>2, LowAndHigh
<1>6. r < 128 /\ r % 256 = r
  BY <1>1, <1>2, <1>5
<1>7. /\ (n \div Weight[1]) % 256 = n % 256 /\ (n \div Weight[2]) % 256 = p % 256
      /\ (n \div Weight[3]) % 256 = q % 256 /\ (n \div Weight[4]) % 256 = r
  <2>1. Weight[1] = 1 /\ Weight[2] = 256 /\ Weight[3] = 65536 /\ Weight[4] = 16777216
    BY DEF Weight
  <2>2. n \div 1 = n
    BY <1>1
  <2> QED BY <1>6, <2>1, <2>2 DEF p, q, r
<1>8. n = (n % 256) + 256 * ((p % 256) + 256 * ((q % 256) + 256 * r))
  BY <1>1, <1>2, <1>3, <1>4, <1>5
<1> DEFINE a == n % 256
           b == p % 256
           c == q % 256
<1>9. /\ a \in Nat /\ b \in Nat /\ c \in Nat /\ r \in Nat
      /\ n = a + 256 * (b + 256 * (c + 256 * r)) /\ a < 256 /\ b < 256 /\ c < 256 /\ r < 128
      /\ (n \div Weight[1]) % 256 = a /\ (n \div Weight[2]) % 256 = b
      /\ (n \div Weight[3]) % 256 = c /\ (n \div Weight[4]) % 256 = r
  BY <1>2, <1>3, <1>4, <1>5, <1>6, <1>7, <1>8
<1> HIDE DEF a, b, c
<1> QED BY <1>9

\* The bytes of a number in s.
NumberIn(s, n, size) ==
    /\ s \in Seq(Nat) /\ Len(s) = size
    /\ \A i \in 1..size : s[i] = IF i > 4 THEN 0 ELSE (n \div Weight[i]) % 256

LEMMA ToBytesIs ==
  ASSUME NEW n \in Nat, NEW size \in Nat
  PROVE  NumberIn(ToBytes(n, size), n, size)
<1>1. ToBytes(n, size) \in Seq(Nat) /\ Len(ToBytes(n, size)) = size
  BY ToBytesTyped
<1> QED BY <1>1 DEF NumberIn, ToBytes

\* int.from_bytes takes the last byte first.
LEMMA FromBytesIs ==
  ASSUME NEW s \in Seq(Nat)
  PROVE  \E f \in [1..(Len(s) + 1) -> Nat] :
            /\ f[Len(s) + 1] = 0 /\ \A i \in 1..Len(s) : f[i] = s[i] + 256 * f[i + 1]
            /\ FromBytes(s) = f[1]
<1> DEFINE n == Len(s)
           g == [k \in 1..n |-> [a \in Nat |-> s[n + 1 - k] + 256 * a]]
           Is(from) == from = [i \in 1..(n + 1) |-> IF i > n THEN 0 ELSE s[i] + 256 * from[i + 1]]
<1>1. n \in Nat /\ \A i \in 1..n : s[i] \in Nat
  OBVIOUS
<1>2. g \in [1..n -> [Nat -> Nat]]
  <2>1. ASSUME NEW k \in 1..n, NEW a \in Nat PROVE s[n + 1 - k] + 256 * a \in Nat
    <3>1. n + 1 - k \in 1..n
      BY <1>1
    <3>2. s[n + 1 - k] \in Nat
      BY <1>1, <3>1
    <3> QED BY <3>2
  <2> QED BY <2>1
<1> HIDE DEF g, n
<1>3. PICK h \in [0..n -> Nat] : Loop(h, 0, g, n)
  BY <1>1, <1>2, LoopExists
<1> DEFINE f == [i \in 1..(n + 1) |-> h[n + 1 - i]]
<1>4. f \in [1..(n + 1) -> Nat]
  <2>1. \A i \in 1..(n + 1) : n + 1 - i \in 0..n
    BY <1>1
  <2> QED BY <1>3, <2>1
<1>5. f[n + 1] = 0
  <2>1. n + 1 \in 1..(n + 1) /\ n + 1 - (n + 1) = 0
    BY <1>1
  <2> QED BY <1>3, <2>1 DEF Loop
<1>6. ASSUME NEW i \in 1..n PROVE f[i] = s[i] + 256 * f[i + 1]
  <2> DEFINE k == n + 1 - i
  <2>1. k \in 1..n /\ k - 1 = n + 1 - (i + 1) /\ n + 1 - k = i /\ i \in 1..(n + 1) /\ i + 1 \in 1..(n + 1)
        /\ k - 1 \in 0..n
    BY <1>1
  <2>2. h[k] = g[k][h[k - 1]] /\ h[k - 1] \in Nat
    <3> HIDE DEF k
    <3> QED BY <1>3, <2>1 DEF Loop
  <2>3. g[k][h[k - 1]] = s[i] + 256 * h[k - 1]
    <3> HIDE DEF k
    <3>1. g[k] = [a \in Nat |-> s[n + 1 - k] + 256 * a]
      BY <2>1 DEF g
    <3>2. h[k - 1] \in Nat /\ n + 1 - k = i
      BY <2>1, <2>2
    <3> QED BY ONLY <3>1, <3>2, Zenon
  <2>4. f[i] = h[k] /\ f[i + 1] = h[k - 1]
    BY <2>1
  <2> QED BY <2>2, <2>3, <2>4
<1> HIDE DEF f
<1>7. Is(f)
  <2>1. f = [i \in 1..(n + 1) |-> f[i]]
    BY <1>4
  <2>2. ASSUME NEW i \in 1..(n + 1) PROVE f[i] = IF i > n THEN 0 ELSE s[i] + 256 * f[i + 1]
    <3>1. i > n => i = n + 1
      BY <1>1
    <3>2. ~(i > n) => i \in 1..n
      BY <1>1
    <3> QED BY <1>5, <1>6, <3>1, <3>2
  <2> QED BY <2>1, <2>2
<1> DEFINE c == CHOOSE from : Is(from)
<1>8. Is(c)
  <2> HIDE DEF Is
  <2> QED BY <1>7
<1>9. FromBytes(s) = c[1]
  BY DEF FromBytes, n
<1> HIDE DEF c
<1>10. c \in [1..(n + 1) -> Nat] /\ c[n + 1] = 0 /\ \A i \in 1..n : c[i] = s[i] + 256 * c[i + 1]
  <2>1. n + 1 \in 1..(n + 1) /\ n + 1 > n /\ \A i \in 1..n : i \in 1..(n + 1) /\ ~(i > n)
    BY <1>1
  <2>2. c[n + 1] = 0 /\ \A i \in 1..n : c[i] = s[i] + 256 * c[i + 1]
    BY <1>8, <2>1
  <2>3. DOMAIN c = 1..(n + 1)
    BY <1>8
  <2> DEFINE T == {k \in 0..n : c[n + 1 - k] \in Nat}
  <2>4. 0 \in T
    <3>1. n + 1 - 0 = n + 1 /\ 0 \in 0..n
      BY <1>1
    <3> QED BY <2>2, <3>1
  <2>5. ASSUME NEW k \in 1..n, k - 1 \in T PROVE k \in T
    <3>1. n + 1 - k \in 1..n /\ (n + 1 - k) + 1 = n + 1 - (k - 1) /\ k \in 0..n
      BY <1>1
    <3> DEFINE i == n + 1 - k
    <3>2. c[i + 1] \in Nat
      BY <2>5, <3>1
    <3>3. c[i] = s[i] + 256 * c[i + 1] /\ s[i] \in Nat
      BY <1>1, <2>2, <3>1
    <3>4. c[i] \in Nat
      <4> HIDE DEF i
      <4> QED BY <3>2, <3>3
    <3> QED BY <3>1, <3>4
  <2>6. \A k \in 0..n : k \in T
    <3>1. \A k \in 1..n : k - 1 \in T => k \in T
      BY <2>5
    <3> HIDE DEF T
    <3> QED BY <1>1, <2>4, <3>1, Along
  <2>7. ASSUME NEW i \in 1..(n + 1) PROVE c[i] \in Nat
    <3>1. n + 1 - i \in 0..n /\ n + 1 - (n + 1 - i) = i
      BY <1>1
    <3>2. n + 1 - i \in T
      BY <2>6, <3>1
    <3> QED BY <3>1, <3>2
  <2>8. c = [i \in 1..(n + 1) |-> c[i]]
    BY <1>8, <2>3
  <2> QED BY <2>2, <2>7, <2>8
<1> QED BY <1>9, <1>10 DEF n

\* A number of one byte, of four or of eight is read back; one that is not 0 has a
\* byte that is not.
LEMMA NumberReadBack ==
  ASSUME NEW n \in Number, NEW size \in {1, 4, 8}, FitsIn(n, size),
         NEW s, NumberIn(s, n, size)
  PROVE  FromBytes(s) = n /\ (n > 0 => FieldOk(s))
<1>1. PICK a \in Nat, b \in Nat, c \in Nat, d \in Nat :
         /\ n = a + 256 * (b + 256 * (c + 256 * d)) /\ a < 256 /\ b < 256 /\ c < 256 /\ d < 128
         /\ (n \div Weight[1]) % 256 = a /\ (n \div Weight[2]) % 256 = b
         /\ (n \div Weight[3]) % 256 = c /\ (n \div Weight[4]) % 256 = d
  BY FourBytes
<1>2. s \in Seq(Nat) /\ Len(s) = size /\ size \in Nat
  BY DEF NumberIn
<1>3. PICK f \in [1..(Len(s) + 1) -> Nat] :
         /\ f[Len(s) + 1] = 0 /\ \A i \in 1..Len(s) : f[i] = s[i] + 256 * f[i + 1]
         /\ FromBytes(s) = f[1]
  BY <1>2, FromBytesIs
<1>4. \A i \in 1..size : s[i] = IF i > 4 THEN 0 ELSE (n \div Weight[i]) % 256
  BY DEF NumberIn
<1>5. CASE size = 1
  <2>1. n < 256
    BY <1>5 DEF FitsIn, Weight
  <2>2. b = 0 /\ c = 0 /\ d = 0 /\ a = n
    BY <1>1, <2>1
  <2>3. s[1] = a
    BY <1>1, <1>4, <1>5
  <2>4. f[2] = 0 /\ f[1] = s[1] + 256 * f[2]
    BY <1>2, <1>3, <1>5
  <2>5. FromBytes(s) = n
    BY <1>3, <2>2, <2>3, <2>4
  <2>6. n > 0 => FieldOk(s)
    BY <1>2, <1>5, <2>2, <2>3 DEF FieldOk
  <2> QED BY <2>5, <2>6
<1>6. CASE size \in {4, 8}
  <2>1. s[1] = a /\ s[2] = b /\ s[3] = c /\ s[4] = d
    BY <1>1, <1>4, <1>6
  <2>2. 1 \in 1..Len(s) /\ 2 \in 1..Len(s) /\ 3 \in 1..Len(s) /\ 4 \in 1..Len(s)
    BY <1>2, <1>6
  <2>3. f[5] = 0
    <3>1. CASE size = 4
      BY <1>2, <1>3, <3>1
    <3>2. CASE size = 8
      <4>1. s[5] = 0 /\ s[6] = 0 /\ s[7] = 0 /\ s[8] = 0
        BY <1>4, <3>2
      <4>2. /\ f[9] = 0 /\ f[8] = s[8] + 256 * f[9] /\ f[7] = s[7] + 256 * f[8]
            /\ f[6] = s[6] + 256 * f[7] /\ f[5] = s[5] + 256 * f[6]
        BY <1>2, <1>3, <3>2
      <4> QED BY <4>1, <4>2
    <3> QED BY <1>6, <3>1, <3>2
  <2>4. /\ f[1] = s[1] + 256 * f[2] /\ f[2] = s[2] + 256 * f[3]
        /\ f[3] = s[3] + 256 * f[4] /\ f[4] = s[4] + 256 * f[5]
    BY <1>3, <2>2
  <2>5. FromBytes(s) = n
    BY <1>1, <1>3, <2>1, <2>3, <2>4
  <2>6. n > 0 => FieldOk(s)
    <3>1. n > 0 => s[1] # 0 \/ s[2] # 0 \/ s[3] # 0 \/ s[4] # 0
      BY <1>1, <2>1
    <3>2. n > 0 => \E i \in 1..Len(s) : s[i] # 0
      BY <2>2, <3>1
    <3>3. Len(s) = 8 => \E i \in 1..8 : s[i] # 255
      <4>1. ASSUME Len(s) = 8 PROVE 8 \in 1..8 /\ s[8] # 255
        BY <1>2, <1>4, <4>1
      <4> QED BY <4>1
    <3> QED BY <3>2, <3>3 DEF FieldOk
  <2> QED BY <2>5, <2>6
<1> QED BY <1>5, <1>6

\* One byte is its own number.
LEMMA ByteReadBack ==
  ASSUME NEW n \in Number, FitsIn(n, 1), NEW s \in Seq(Nat), Len(s) = 1, s[1] = n
  PROVE  FromBytes(s) = n /\ (n > 0 => FieldOk(s))
<1>1. n \in Nat /\ n < 256
  BY DEF FitsIn, Weight, Number
<1>2. PICK f \in [1..(Len(s) + 1) -> Nat] :
         /\ f[Len(s) + 1] = 0 /\ \A i \in 1..Len(s) : f[i] = s[i] + 256 * f[i + 1]
         /\ FromBytes(s) = f[1]
  BY FromBytesIs
<1>3. f[2] = 0 /\ f[1] = s[1] + 256 * f[2]
  BY <1>2
<1>4. FromBytes(s) = n
  BY <1>1, <1>2, <1>3
<1>5. n > 0 => FieldOk(s)
  BY DEF FieldOk
<1> QED BY <1>4, <1>5

LEMMA FunctionIsSeq ==
  ASSUME NEW S, NEW n \in Nat, NEW f \in [1..n -> S]
  PROVE  f \in Seq(S) /\ Len(f) = n
OBVIOUS

\* The three letters are five bits each.
LEMMA EisaReadBack ==
  ASSUME NEW eisa \in Eisa, EisaOk(eisa), eisa.product >= 0, NEW s, s = EisaToHid(eisa)
  PROVE  s \in Seq(Nat) /\ Len(s) = 4 /\ HidToEisa(s) = eisa
<1> DEFINE v == eisa.vendor
           p == eisa.product
<1>1. PICK a \in 1..26, b \in 1..26, c \in 1..26 : a = v[1] /\ b = v[2] /\ c = v[3]
  <2>1. v \in [1..3 -> 0..26] /\ v[1] # 0 /\ v[2] # 0 /\ v[3] # 0
    BY DEF Eisa, EisaOk
  <2>2. v[1] \in 1..26 /\ v[2] \in 1..26 /\ v[3] \in 1..26
    <3>1. v[1] \in 0..26 /\ v[2] \in 0..26 /\ v[3] \in 0..26
      BY <2>1
    <3> QED BY <2>1, <3>1
  <2> QED BY <2>2
<1>2. p \in Nat /\ eisa.length = 7 /\ p < 65536
  BY DEF Eisa, EisaOk
<1>3. v = <<a, b, c>>
  <2>1. v \in [1..3 -> 0..26]
    BY DEF Eisa
  <2>2. v \in Seq(0..26) /\ Len(v) = 3
    <3> DEFINE S == 0..26
    <3>1. v \in [1..3 -> S] /\ 3 \in Nat
      BY <2>1
    <3> HIDE DEF S, v
    <3>2. v \in Seq(S) /\ Len(v) = 3
      BY ONLY <3>1, FunctionIsSeq
    <3> QED BY <3>2 DEF S
  <2> QED BY <1>1, <2>2
<1>4. eisa = [length |-> 7, product |-> p, vendor |-> <<a, b, c>>]
  BY <1>2, <1>3 DEF Eisa
<1> DEFINE code == 1024 * a + 32 * b + c
<1>5. code \in Nat /\ (code \div 1024) % 32 = a /\ (code \div 32) % 32 = b /\ code % 32 = c
  <2>1. code \in Nat
    OBVIOUS
  <2>2. code \div 1024 = a /\ code \div 32 = 32 * a + b
    OBVIOUS
  <2>3. code % 32 = c
    OBVIOUS
  <2>4. a % 32 = a /\ (32 * a + b) % 32 = b
    OBVIOUS
  <2> HIDE DEF code
  <2> QED BY <2>1, <2>2, <2>3, <2>4
<1>6. EisaToHid(eisa) = LittleEndian16(code) \o LittleEndian16(p)
  BY <1>1 DEF EisaToHid
<1> HIDE DEF code, p, v
<1>7. /\ code % 256 \in Nat /\ code \div 256 \in Nat /\ code = (code % 256) + 256 * (code \div 256)
      /\ p % 256 \in Nat /\ p \div 256 \in Nat /\ p = (p % 256) + 256 * (p \div 256)
  BY <1>2, <1>5, LowAndHigh
<1> DEFINE w == code % 256
           x == code \div 256
           y == p % 256
           z == p \div 256
<1>8. s = <<w, x>> \o <<y, z>>
  BY <1>6 DEF LittleEndian16
<1>9. w \in Nat /\ x \in Nat /\ y \in Nat /\ z \in Nat /\ code = w + 256 * x /\ p = y + 256 * z
  BY <1>7
<1> HIDE DEF w, x, y, z
<1>10. s = <<w, x, y, z>>
  <2>1. <<w, x>> \in Seq(Nat) /\ <<y, z>> \in Seq(Nat) /\ Len(<<w, x>>) = 2 /\ Len(<<y, z>>) = 2
    BY <1>9
  <2>2. /\ s \in Seq(Nat) /\ Len(s) = 4 /\ s[1] = <<w, x>>[1] /\ s[2] = <<w, x>>[2]
        /\ s[3] = <<y, z>>[1] /\ s[4] = <<y, z>>[2]
    BY ONLY <1>8, <2>1
  <2>3. s \in Seq(Nat) /\ Len(s) = 4 /\ s[1] = w /\ s[2] = x /\ s[3] = y /\ s[4] = z
    BY <2>2
  <2> QED BY ONLY <2>3
<1>11. s \in Seq(Nat) /\ Len(s) = 4 /\ Value16(s, 0) = code /\ Value16(s, 2) = p
  BY <1>9, <1>10 DEF Value16
<1>12. HidToEisa(s) = [length |-> 7, product |-> p, vendor |-> <<a, b, c>>]
  <2> DEFINE eisaOf(vendor, number) == [length |-> 7, product |-> number, vendor |-> vendor]
             letters(n) == <<(n \div 1024) % 32, (n \div 32) % 32, n % 32>>
  <2>1. HidToEisa(s) = eisaOf(letters(Value16(s, 0)), Value16(s, 2))
    BY DEF HidToEisa
  <2>2. letters(code) = <<a, b, c>>
    BY <1>5
  <2>3. eisaOf(<<a, b, c>>, p) = [length |-> 7, product |-> p, vendor |-> <<a, b, c>>]
    OBVIOUS
  <2>4. Value16(s, 0) = code /\ Value16(s, 2) = p
    BY <1>11
  <2> HIDE DEF eisaOf, letters
  <2> QED BY ONLY <2>1, <2>2, <2>3, <2>4
<1> QED BY <1>4, <1>11, <1>12

LEMMA SameItems ==
  ASSUME NEW s \in Seq(Nat), NEW t \in Seq(Nat), Len(s) = Len(t),
         \A k \in 1..Len(s) : s[k] = t[k]
  PROVE  s = t
OBVIOUS

\* The first three groups turned round twice.
LEMMA BytesLeTwice ==
  ASSUME NEW guid \in Seq(Nat), Len(guid) = 16
  PROVE  BytesLe(BytesLe(guid)) = guid
<1> DEFINE g == BytesLe(guid)
           h == BytesLe(g)
<1>1. g \in Seq(Nat) /\ Len(g) = 16 /\ \A k \in 1..16 : g[k] = guid[Turned(k)]
  BY BytesLeIs
<1> HIDE DEF g
<1>2. h \in Seq(Nat) /\ Len(h) = 16 /\ \A k \in 1..16 : h[k] = g[Turned(k)]
  BY <1>1, BytesLeIs
<1> HIDE DEF h
<1>3. ASSUME NEW k \in 1..16 PROVE h[k] = guid[k]
  <2>1. Turned(k) \in 1..16 /\ Turned(Turned(k)) = k
    BY DEF Turned
  <2> QED BY <1>1, <1>2, <2>1
<1>4. h = guid
  <2>1. guid \in Seq(Nat) /\ Len(guid) = 16
    OBVIOUS
  <2>2. h \in Seq(Nat) /\ Len(h) = 16
    BY <1>2
  <2>3. \A k \in 1..16 : h[k] = guid[k]
    BY <1>3
  <2>4. Len(h) = Len(guid) /\ \A k \in 1..Len(h) : h[k] = guid[k]
    BY ONLY <2>1, <2>2, <2>3
  <2> QED BY ONLY <2>1, <2>2, <2>4, SameItems
<1> QED BY <1>4 DEF h, g
-----------------------------------------------------------------------------
(***************************************************************************)
(* Where the parts of a sequence stand.                                    *)
(***************************************************************************)

LEMMA StandsSlice ==
  ASSUME NEW s \in Seq(Nat), NEW d \in Seq(Nat), NEW at \in Nat, StandsAt(s, d, at),
         NEW to \in Nat, to = at + Len(s)
  PROVE  PySlice(d, at, to) = s
<1> DEFINE n == Len(s)
<1>1. n \in Nat /\ at + n <= Len(d) /\ \A k \in 1..n : d[at + k] = s[k]
  BY DEF StandsAt
<1>2. to <= Len(d) /\ at <= to /\ to - at = n
  BY <1>1
<1> HIDE DEF n
<1> DEFINE p == PySlice(d, at, to)
<1>3. IsPart(p, d, at, to - at, Nat)
  BY <1>2, SliceWithin
<1> HIDE DEF p
<1>4. p \in Seq(Nat) /\ Len(p) = n /\ \A k \in 1..n : p[k] = s[k]
  BY <1>1, <1>2, <1>3 DEF IsPart
<1>5. p = s
  BY SMTT(20), <1>4 DEF n
<1> QED BY <1>5 DEF p

LEMMA StandsLeft ==
  ASSUME NEW s \in Seq(Nat), NEW a \in Seq(Nat), NEW at \in Nat, StandsAt(s, a, at),
         NEW c \in Seq(Nat)
  PROVE  StandsAt(s, a \o c, at)
<1> DEFINE all == a \o c
<1>1. at + Len(s) <= Len(a) /\ \A k \in 1..Len(s) : a[at + k] = s[k]
  BY DEF StandsAt
<1>2. Len(s) \in Nat /\ Len(a) \in Nat /\ Len(c) \in Nat
  OBVIOUS
<1>3. Len(all) = Len(a) + Len(c) /\ \A k \in 1..Len(a) : all[k] = a[k]
  OBVIOUS
<1> HIDE DEF all
<1>4. ASSUME NEW k \in 1..Len(s) PROVE all[at + k] = s[k]
  <2>1. at + k \in 1..Len(a)
    BY <1>1, <1>2
  <2> QED BY <1>1, <1>3, <2>1
<1>5. at + Len(s) <= Len(all)
  BY <1>1, <1>2, <1>3
<1> QED BY <1>4, <1>5 DEF StandsAt, all

LEMMA StandsRight ==
  ASSUME NEW a \in Seq(Nat), NEW c \in Seq(Nat)
  PROVE  StandsAt(c, a \o c, Len(a))
<1> DEFINE all == a \o c
<1>1. Len(all) = Len(a) + Len(c) /\ \A k \in 1..Len(c) : all[Len(a) + k] = c[k]
  OBVIOUS
<1>2. Len(a) + Len(c) <= Len(all)
  BY <1>1
<1> HIDE DEF all
<1> QED BY <1>1, <1>2 DEF StandsAt, all

LEMMA StandsDeep ==
  ASSUME NEW s \in Seq(Nat), NEW b \in Seq(Nat), NEW d \in Seq(Nat), NEW i \in Nat, NEW o \in Nat,
         StandsAt(s, b, i), StandsAt(b, d, o)
  PROVE  StandsAt(s, d, o + i)
<1>1. i + Len(s) <= Len(b) /\ \A k \in 1..Len(s) : b[i + k] = s[k]
  BY DEF StandsAt
<1>2. o + Len(b) <= Len(d) /\ \A k \in 1..Len(b) : d[o + k] = b[k]
  BY DEF StandsAt
<1>3. Len(s) \in Nat /\ Len(b) \in Nat /\ Len(d) \in Nat
  OBVIOUS
<1>4. ASSUME NEW k \in 1..Len(s) PROVE d[(o + i) + k] = s[k]
  <2>1. i + k \in 1..Len(b) /\ (o + i) + k = o + (i + k)
    BY <1>1, <1>3
  <2>2. d[o + (i + k)] = b[i + k]
    BY <1>2, <2>1
  <2> QED BY <1>1, <2>1, <2>2
<1>5. (o + i) + Len(s) <= Len(d)
  BY <1>1, <1>2, <1>3
<1> QED BY <1>4, <1>5 DEF StandsAt

LEMMA StandsItself ==
  ASSUME NEW s \in Seq(Nat)
  PROVE  StandsAt(s, s, 0)
<1>1. Len(s) \in Nat /\ 0 + Len(s) <= Len(s) /\ \A k \in 1..Len(s) : 0 + k = k
  OBVIOUS
<1> QED BY <1>1 DEF StandsAt

\* A part more behind what has its parts at known places.
LEMMA PartBehind ==
  ASSUME NEW a \in Seq(Nat), NEW c \in Seq(Nat), NEW n \in Nat, NEW m \in Nat,
         Len(a) = n, Len(c) = m
  PROVE  /\ a \o c \in Seq(Nat) /\ Len(a \o c) = n + m /\ StandsAt(c, a \o c, n)
         /\ \A s \in Seq(Nat), at \in Nat : StandsAt(s, a, at) => StandsAt(s, a \o c, at)
<1>1. a \o c \in Seq(Nat) /\ Len(a \o c) = n + m
  BY SMTT(20)
<1>2. StandsAt(c, a \o c, n)
  BY StandsRight
<1>3. ASSUME NEW s \in Seq(Nat), NEW at \in Nat, StandsAt(s, a, at) PROVE StandsAt(s, a \o c, at)
  BY <1>3, StandsLeft
<1> QED BY <1>1, <1>2, <1>3
-----------------------------------------------------------------------------
(***************************************************************************)
(* Each node the builders make is read back by the round that meets it.    *)
(***************************************************************************)

LEMMA FixedRound ==
  ASSUME NEW k \in DOMAIN Header, NEW b \in Seq(Nat), NEW n \in Nat, n = Header[k][3], Len(b) = n,
         StandsAt(Header[k], b, 0), FixedOk(b, k),
         NEW d \in Seq(Nat), NEW o \in Nat, StandsAt(b, d, o)
  PROVE  Round(d, o) = Node(k, n, b, <<>>)
<1>1. Header[k] \in Seq(Nat) /\ Len(Header[k]) = 4
  BY HeaderIs
<1>2. o \in 0..Len(d)
  <2>1. o + n <= Len(d) /\ Len(d) \in Nat
    BY DEF StandsAt
  <2> QED BY <2>1
<1>3. PySlice(d, o, o + 4) = Header[k]
  <2> DEFINE h == Header[k]
  <2>1. StandsAt(h, d, o + 0)
    BY <1>1, StandsDeep, 0 \in Nat
  <2>2. o + 0 = o /\ o + 4 \in Nat
    OBVIOUS
  <2>3. h \in Seq(Nat) /\ o + 4 = o + Len(h) /\ StandsAt(h, d, o)
    BY <1>1, <2>1, <2>2
  <2> HIDE DEF h
  <2>4. PySlice(d, o, o + 4) = h
    BY <2>2, <2>3, StandsSlice
  <2> QED BY <2>4 DEF h
<1>4. PySlice(d, o, o + n) = b
  <2>1. o + n \in Nat
    OBVIOUS
  <2> QED BY <2>1, StandsSlice
<1>5. Round(d, o) = IF FixedOk(b, k) THEN Node(k, Len(b), b, <<>>) ELSE Stop("corrupted")
  BY <1>2, <1>3, <1>4, RoundIs
<1> QED BY <1>5

LEMMA EndRound ==
  ASSUME NEW d \in Seq(Nat), NEW o \in Nat, StandsAt(EndHeader, d, o)
  PROVE  Round(d, o) = Stop("end")
<1>1. EndHeader \in Seq(Nat) /\ Len(EndHeader) = 4
  BY DEF EndHeader
<1>2. o \in 0..Len(d) /\ o + 4 \in Nat
  <2>1. o + 4 <= Len(d) /\ Len(d) \in Nat
    BY <1>1 DEF StandsAt
  <2> QED BY <2>1
<1>3. PySlice(d, o, o + 4) = EndHeader
  BY <1>1, <1>2, StandsSlice
<1> QED BY <1>2, <1>3, RoundIs

\* A field at its place.
LEMMA ByteAt ==
  ASSUME NEW b \in Seq(Nat), NEW at \in Nat, NEW to \in Nat, to = at + 1, to <= Len(b),
         NEW n \in Number, FitsIn(n, 1), n > 0, b[to] = n
  PROVE  FieldOk(PySlice(b, at, to)) /\ FromBytes(PySlice(b, at, to)) = n
<1> DEFINE s == PySlice(b, at, to)
<1>1. at <= to /\ to - at = 1
  OBVIOUS
<1>2. IsPart(s, b, at, to - at, Nat)
  BY <1>1, SliceWithin
<1> HIDE DEF s
<1>3. s \in Seq(Nat) /\ Len(s) = 1 /\ s[1] = n
  BY <1>1, <1>2 DEF IsPart
<1>4. FromBytes(s) = n /\ FieldOk(s)
  BY <1>3, ByteReadBack
<1> QED BY <1>4 DEF s

LEMMA NumberAt ==
  ASSUME NEW b \in Seq(Nat), NEW at \in Nat, NEW to \in Nat, NEW size \in {1, 4, 8}, to = at + size,
         NEW n \in Number, FitsIn(n, size), n > 0, StandsAt(ToBytes(n, size), b, at)
  PROVE  FieldOk(PySlice(b, at, to)) /\ FromBytes(PySlice(b, at, to)) = n
<1> DEFINE s == ToBytes(n, size)
<1>1. n \in Nat /\ size \in Nat
  BY DEF Number
<1>2. NumberIn(s, n, size)
  BY <1>1, ToBytesIs
<1>3. s \in Seq(Nat) /\ Len(s) = size
  BY <1>2 DEF NumberIn
<1> HIDE DEF s
<1>4. PySlice(b, at, to) = s
  <2>1. StandsAt(s, b, at)
    BY DEF s
  <2> QED BY <1>3, <2>1, StandsSlice
<1>5. FromBytes(s) = n /\ FieldOk(s)
  BY <1>2, NumberReadBack
<1> QED BY <1>4, <1>5

\* What is shown of each kind: b is a whole node of its kind that the parser takes,
\* with the fields that were asked for.
TakenAs(b, kind, size, node) ==
    /\ b \in Seq(Nat) /\ Len(b) = size /\ size \in Nat /\ kind \in DOMAIN Header
    /\ size = Header[kind][3] /\ StandsAt(Header[kind], b, 0) /\ FixedOk(b, kind)
    /\ Read(Node(kind, size, b, <<>>)) = node

LEMMA PciTaken ==
  ASSUME NEW node \in AskedNode, node.kind = "pci", Taken(node)
  PROVE  TakenAs(Built(node), "pci", 6, node)
<1> DEFINE f == node.function
           e == node.device
           h == Header["pci"]
           t == <<f, e>>
           b == h \o t
<1>1. f \in Number /\ e \in Number /\ node = [kind |-> "pci", function |-> f, device |-> e]
  BY DEF AskedNode
<1>2. f > 0 /\ FitsIn(f, 1) /\ e > 0 /\ FitsIn(e, 1)
  BY DEF Taken, IsUint
<1>3. f \in Nat /\ e \in Nat
  BY <1>1 DEF Number
<1>4. Built(node) = b
  BY DEF Built
<1> HIDE DEF f, e
<1>5. h \in Seq(Nat) /\ Len(h) = 4 /\ t \in Seq(Nat) /\ Len(t) = 2 /\ t[1] = f /\ t[2] = e
  BY <1>3, HeaderIs
<1>6. h[3] = 6
  BY DEF Header
<1> HIDE DEF h, t
<1>7. /\ b \in Seq(Nat) /\ Len(b) = 4 + 2 /\ StandsAt(t, b, 4)
      /\ \A s \in Seq(Nat), at \in Nat : StandsAt(s, h, at) => StandsAt(s, b, at)
  BY <1>5, PartBehind, 4 \in Nat, 2 \in Nat
<1>8. StandsAt(h, b, 0)
  BY <1>5, <1>7, StandsItself, 0 \in Nat
<1> HIDE DEF b
<1>9. b \in Seq(Nat) /\ Len(b) = 6 /\ b[5] = f /\ b[6] = e
  BY <1>5, <1>7 DEF StandsAt
<1>10. /\ FieldOk(PySlice(b, 4, 5)) /\ FromBytes(PySlice(b, 4, 5)) = f
       /\ FieldOk(PySlice(b, 5, 6)) /\ FromBytes(PySlice(b, 5, 6)) = e
  <2>1. 4 \in Nat /\ 5 \in Nat /\ 6 \in Nat /\ 5 = 4 + 1 /\ 6 = 5 + 1 /\ 5 <= Len(b) /\ 6 <= Len(b)
    BY <1>9
  <2>2. FieldOk(PySlice(b, 4, 5)) /\ FromBytes(PySlice(b, 4, 5)) = f
    <3> DEFINE at == 4
               to == 5
    <3>1. f \in Number /\ FitsIn(f, 1) /\ f > 0 /\ b[to] = f /\ b \in Seq(Nat)
      BY <1>1, <1>2, <1>9
    <3>2. at \in Nat /\ to \in Nat /\ to = at + 1 /\ to <= Len(b)
      BY ONLY <2>1
    <3> HIDE DEF at, to
    <3>3. FieldOk(PySlice(b, at, to)) /\ FromBytes(PySlice(b, at, to)) = f
      BY ONLY <3>1, <3>2, ByteAt
    <3> QED BY <3>3 DEF at, to
  <2>3. FieldOk(PySlice(b, 5, 6)) /\ FromBytes(PySlice(b, 5, 6)) = e
    <3> DEFINE at == 5
               to == 6
    <3>1. e \in Number /\ FitsIn(e, 1) /\ e > 0 /\ b[to] = e /\ b \in Seq(Nat)
      BY <1>1, <1>2, <1>9
    <3>2. at \in Nat /\ to \in Nat /\ to = at + 1 /\ to <= Len(b)
      BY ONLY <2>1
    <3> HIDE DEF at, to
    <3>3. FieldOk(PySlice(b, at, to)) /\ FromBytes(PySlice(b, at, to)) = e
      BY ONLY <3>1, <3>2, ByteAt
    <3> QED BY <3>3 DEF at, to
  <2> QED BY <2>2, <2>3
<1>11. FixedOk(b, "pci")
  <2>1. /\ DOMAIN Fields["pci"] = {"function", "device"}
        /\ Fields["pci"]["function"] = <<4, 1>> /\ Fields["pci"]["device"] = <<5, 1>>
    BY DEF Fields
  <2>2. Header["pci"][3] = 6
    BY <1>6 DEF h
  <2> QED BY <1>9, <1>10, <2>1, <2>2 DEF FixedOk
<1>12. Read(Node("pci", 6, b, <<>>)) = node
  <2>1. Node("pci", 6, b, <<>>).kind = "pci" /\ Node("pci", 6, b, <<>>).bytes = b
    BY DEF Node
  <2>2. 4 + 1 = 5 /\ 5 + 1 = 6
    OBVIOUS
  <2> QED BY <1>1, <1>10, <2>1, <2>2 DEF Read
<1>13. "pci" \in DOMAIN Header
  BY HeaderIs
<1> QED BY <1>4, <1>6, <1>8, <1>9, <1>11, <1>12, <1>13 DEF TakenAs, h

LEMMA AcpiTaken ==
  ASSUME NEW node \in AskedNode, node.kind = "acpi", Taken(node)
  PROVE  TakenAs(Built(node), "acpi", 12, node)
<1> DEFINE u == node.uid
           e == node.eisa
           h == Header["acpi"]
           hid == EisaToHid(e)
           t == ToBytes(u, 4)
           a == h \o hid
           b == a \o t
<1>1. u \in Number /\ e \in Eisa /\ node = [kind |-> "acpi", uid |-> u, eisa |-> e]
  BY DEF AskedNode
<1>2. u > 0 /\ FitsIn(u, 4) /\ EisaOk(e) /\ e.product >= 0
  BY DEF Taken, IsUint
<1>3. Built(node) = b
  BY DEF Built
<1> HIDE DEF u, e
<1>4. hid \in Seq(Nat) /\ Len(hid) = 4 /\ HidToEisa(hid) = e
  BY <1>1, <1>2, EisaReadBack
<1>5. t \in Seq(Nat) /\ Len(t) = 4
  <2>1. u \in Nat /\ 4 \in Nat
    BY <1>1 DEF Number
  <2> QED BY <2>1, ToBytesTyped
<1>6. h \in Seq(Nat) /\ Len(h) = 4 /\ h[3] = 12
  <2>1. h[3] = 12
    BY DEF Header
  <2> QED BY <2>1, HeaderIs
<1> HIDE DEF h, hid, t
<1>7. /\ a \in Seq(Nat) /\ Len(a) = 4 + 4 /\ StandsAt(hid, a, 4)
      /\ \A s \in Seq(Nat), at \in Nat : StandsAt(s, h, at) => StandsAt(s, a, at)
  BY <1>4, <1>6, PartBehind, 4 \in Nat
<1> HIDE DEF a
<1>8. Len(a) = 8 /\ 8 \in Nat /\ 4 \in Nat /\ 0 \in Nat
  BY <1>7
<1>9. /\ b \in Seq(Nat) /\ Len(b) = 8 + 4 /\ StandsAt(t, b, 8)
      /\ \A s \in Seq(Nat), at \in Nat : StandsAt(s, a, at) => StandsAt(s, b, at)
  BY <1>5, <1>7, <1>8, PartBehind
<1>10. StandsAt(h, b, 0) /\ StandsAt(hid, b, 4)
  BY <1>4, <1>6, <1>7, <1>8, <1>9, StandsItself
<1> HIDE DEF b
<1>11. b \in Seq(Nat) /\ Len(b) = 12
  BY <1>9
<1>12. PySlice(b, 4, 8) = hid
  <2>1. 8 = 4 + Len(hid)
    BY <1>4
  <2> QED BY <1>4, <1>8, <1>10, <1>11, <2>1, StandsSlice
<1>13. FromBytes(PySlice(b, 8, 12)) = u
  <2>1. 12 = 8 + 4 /\ 12 \in Nat /\ 4 \in {1, 4, 8}
    OBVIOUS
  <2>2. StandsAt(ToBytes(u, 4), b, 8)
    BY <1>9 DEF t
  <2> QED BY <1>1, <1>2, <1>8, <1>11, <2>1, <2>2, NumberAt
<1>14. FixedOk(b, "acpi")
  <2>1. DOMAIN Fields["acpi"] = {}
    BY DEF Fields
  <2>2. Header["acpi"][3] = 12
    BY <1>6 DEF h
  <2> QED BY <1>11, <2>1, <2>2 DEF FixedOk
<1>15. Read(Node("acpi", 12, b, <<>>)) = node
  <2>1. Node("acpi", 12, b, <<>>).kind = "acpi" /\ Node("acpi", 12, b, <<>>).bytes = b
    BY DEF Node
  <2>2. 8 + 4 = 12
    OBVIOUS
  <2>3. Read(Node("acpi", 12, b, <<>>)) =
          [kind |-> "acpi", uid |-> FromBytes(PySlice(b, 8, 12)), eisa |-> HidToEisa(PySlice(b, 4, 8))]
    BY <2>1, <2>2 DEF Read
  <2> QED BY <1>1, <1>4, <1>12, <1>13, <2>3
<1>16. "acpi" \in DOMAIN Header
  BY HeaderIs
<1> QED BY <1>3, <1>6, <1>10, <1>11, <1>14, <1>15, <1>16 DEF TakenAs, h

LEMMA HardDriveTaken ==
  ASSUME NEW node \in AskedNode, node.kind = "hd", Taken(node)
  PROVE  TakenAs(Built(node), "hd", 42, node)
<1> DEFINE h == Header["hd"]
           p == node.partnum
           l == node.startlba
           z == node.size
           g == node.guid
           m == node.mbrtype
           y == node.sigtype
           sp == ToBytes(p, 4)
           sl == ToBytes(l, 8)
           sz == ToBytes(z, 8)
           sg == BytesLe(g)
           t == <<m, y>>
           b1 == h \o sp
           b2 == b1 \o sl
           b3 == b2 \o sz
           b4 == b3 \o sg
           b == b4 \o t
<1>1. /\ p \in Number /\ l \in Number /\ z \in Number /\ m \in Number /\ y \in Number /\ g \in Seq(Byte)
      /\ node = [kind |-> "hd", partnum |-> p, startlba |-> l, size |-> z,
                 guid |-> g, mbrtype |-> m, sigtype |-> y]
  BY DEF AskedNode
<1>2. /\ p > 0 /\ l > 0 /\ z > 0 /\ m > 0 /\ y > 0
      /\ FitsIn(p, 4) /\ FitsIn(l, 8) /\ FitsIn(z, 8) /\ FitsIn(m, 1) /\ FitsIn(y, 1)
      /\ Len(g) = 16
  BY DEF Taken, IsUint
<1>3. Built(node) = b
  BY DEF Built
<1> HIDE DEF p, l, z, g, m, y
<1>4. g \in Seq(Nat)
  BY ONLY <1>1, ByteBounds, WiderItems
<1>5. sg \in Seq(Nat) /\ Len(sg) = 16 /\ BytesLe(sg) = g
  BY <1>2, <1>4, BytesLeIs, BytesLeTwice
<1>6. p \in Nat /\ l \in Nat /\ z \in Nat /\ m \in Nat /\ y \in Nat
  BY <1>1 DEF Number
<1>7. /\ 0 \in Nat /\ 2 \in Nat /\ 4 \in Nat /\ 8 \in Nat /\ 16 \in Nat /\ 24 \in Nat /\ 40 \in Nat
      /\ 41 \in Nat /\ 42 \in Nat
  OBVIOUS
<1>8. /\ sp \in Seq(Nat) /\ Len(sp) = 4 /\ sl \in Seq(Nat) /\ Len(sl) = 8
      /\ sz \in Seq(Nat) /\ Len(sz) = 8
  BY <1>6, <1>7, ToBytesTyped
<1>9. t \in Seq(Nat) /\ Len(t) = 2 /\ t[1] = m /\ t[2] = y
  BY <1>6
<1>10. h \in Seq(Nat) /\ Len(h) = 4 /\ h[3] = 42
  <2>1. h[3] = 42
    BY DEF Header
  <2> QED BY <2>1, HeaderIs
<1> HIDE DEF h, sp, sl, sz, sg, t
<1>11. /\ b1 \in Seq(Nat) /\ Len(b1) = 8 /\ StandsAt(sp, b1, 4)
       /\ \A s \in Seq(Nat), at \in Nat : StandsAt(s, h, at) => StandsAt(s, b1, at)
  <2>1. 4 + 4 = 8
    OBVIOUS
  <2>2. /\ b1 \in Seq(Nat) /\ Len(b1) = 4 + 4 /\ StandsAt(sp, b1, 4)
        /\ \A s \in Seq(Nat), at \in Nat : StandsAt(s, h, at) => StandsAt(s, b1, at)
    BY <1>7, <1>8, <1>10, PartBehind
  <2> HIDE DEF b1
  <2> QED BY <2>1, <2>2
<1> HIDE DEF b1
<1>12. /\ b2 \in Seq(Nat) /\ Len(b2) = 16 /\ StandsAt(sl, b2, 8)
       /\ \A s \in Seq(Nat), at \in Nat : StandsAt(s, b1, at) => StandsAt(s, b2, at)
  <2>1. 8 + 8 = 16
    OBVIOUS
  <2>2. /\ b2 \in Seq(Nat) /\ Len(b2) = 8 + 8 /\ StandsAt(sl, b2, 8)
        /\ \A s \in Seq(Nat), at \in Nat : StandsAt(s, b1, at) => StandsAt(s, b2, at)
    BY <1>7, <1>8, <1>11, PartBehind
  <2> HIDE DEF b2
  <2> QED BY <2>1, <2>2
<1> HIDE DEF b2
<1>13. /\ b3 \in Seq(Nat) /\ Len(b3) = 24 /\ StandsAt(sz, b3, 16)
       /\ \A s \in Seq(Nat), at \in Nat : StandsAt(s, b2, at) => StandsAt(s, b3, at)
  <2>1. 16 + 8 = 24
    OBVIOUS
  <2>2. /\ b3 \in Seq(Nat) /\ Len(b3) = 16 + 8 /\ StandsAt(sz, b3, 16)
        /\ \A s \in Seq(Nat), at \in Nat : StandsAt(s, b2, at) => StandsAt(s, b3, at)
    BY <1>7, <1>8, <1>12, PartBehind
  <2> HIDE DEF b3
  <2> QED BY <2>1, <2>2
<1> HIDE DEF b3
<1>14. /\ b4 \in Seq(Nat) /\ Len(b4) = 40 /\ StandsAt(sg, b4, 24)
       /\ \A s \in Seq(Nat), at \in Nat : StandsAt(s, b3, at) => StandsAt(s, b4, at)
  <2>1. 24 + 16 = 40
    OBVIOUS
  <2>2. /\ b4 \in Seq(Nat) /\ Len(b4) = 24 + 16 /\ StandsAt(sg, b4, 24)
        /\ \A s \in Seq(Nat), at \in Nat : StandsAt(s, b3, at) => StandsAt(s, b4, at)
    BY <1>7, <1>5, <1>13, PartBehind
  <2> HIDE DEF b4
  <2> QED BY <2>1, <2>2
<1> HIDE DEF b4
<1>15. /\ b \in Seq(Nat) /\ Len(b) = 42 /\ StandsAt(t, b, 40)
       /\ \A s \in Seq(Nat), at \in Nat : StandsAt(s, b4, at) => StandsAt(s, b, at)
  <2>1. 40 + 2 = 42
    OBVIOUS
  <2>2. /\ b \in Seq(Nat) /\ Len(b) = 40 + 2 /\ StandsAt(t, b, 40)
        /\ \A s \in Seq(Nat), at \in Nat : StandsAt(s, b4, at) => StandsAt(s, b, at)
    BY <1>7, <1>9, <1>14, PartBehind
  <2> HIDE DEF b
  <2> QED BY <2>1, <2>2
<1> HIDE DEF b
<1>16. /\ StandsAt(h, b, 0) /\ StandsAt(sp, b, 4) /\ StandsAt(sl, b, 8)
       /\ StandsAt(sz, b, 16) /\ StandsAt(sg, b, 24)
  <2>1. StandsAt(h, h, 0)
    BY <1>10, StandsItself
  <2> QED BY Zenon, <1>5, <1>7, <1>8, <1>10, <1>11, <1>12, <1>13, <1>14, <1>15, <2>1
<1>17. b[41] = m /\ b[42] = y
  <2>1. b[40 + 1] = t[1] /\ b[40 + 2] = t[2]
    BY <1>9, <1>15 DEF StandsAt
  <2> QED BY <1>9, <2>1
<1>18. /\ FieldOk(PySlice(b, 4, 8)) /\ FromBytes(PySlice(b, 4, 8)) = p
       /\ FieldOk(PySlice(b, 8, 16)) /\ FromBytes(PySlice(b, 8, 16)) = l
       /\ FieldOk(PySlice(b, 16, 24)) /\ FromBytes(PySlice(b, 16, 24)) = z
  <2>1. 8 = 4 + 4 /\ 16 = 8 + 8 /\ 24 = 16 + 8 /\ 4 \in {1, 4, 8} /\ 8 \in {1, 4, 8}
    OBVIOUS
  <2>2. StandsAt(ToBytes(p, 4), b, 4) /\ StandsAt(ToBytes(l, 8), b, 8) /\ StandsAt(ToBytes(z, 8), b, 16)
    BY <1>16 DEF sp, sl, sz
  <2>3. FieldOk(PySlice(b, 4, 8)) /\ FromBytes(PySlice(b, 4, 8)) = p
    BY <1>1, <1>2, <1>7, <1>15, <2>1, <2>2, NumberAt
  <2>4. FieldOk(PySlice(b, 8, 16)) /\ FromBytes(PySlice(b, 8, 16)) = l
    BY <1>1, <1>2, <1>7, <1>15, <2>1, <2>2, NumberAt
  <2>5. FieldOk(PySlice(b, 16, 24)) /\ FromBytes(PySlice(b, 16, 24)) = z
    BY <1>1, <1>2, <1>7, <1>15, <2>1, <2>2, NumberAt
  <2> QED BY <2>3, <2>4, <2>5
<1>19. /\ FieldOk(PySlice(b, 40, 41)) /\ FromBytes(PySlice(b, 40, 41)) = m
       /\ FieldOk(PySlice(b, 41, 42)) /\ FromBytes(PySlice(b, 41, 42)) = y
  <2>1. 41 = 40 + 1 /\ 42 = 41 + 1 /\ 41 <= Len(b) /\ 42 <= Len(b)
    BY <1>15
  <2>2. FieldOk(PySlice(b, 40, 41)) /\ FromBytes(PySlice(b, 40, 41)) = m
    <3> DEFINE at == 40
               to == 41
    <3>1. b \in Seq(Nat) /\ m \in Number /\ FitsIn(m, 1) /\ m > 0 /\ b[to] = m
      BY <1>1, <1>2, <1>15, <1>17
    <3>2. at \in Nat /\ to \in Nat /\ to = at + 1 /\ to <= Len(b)
      BY <1>7, <2>1
    <3> HIDE DEF at, to
    <3>3. FieldOk(PySlice(b, at, to)) /\ FromBytes(PySlice(b, at, to)) = m
      BY ONLY <3>1, <3>2, ByteAt
    <3> QED BY <3>3 DEF at, to
  <2>3. FieldOk(PySlice(b, 41, 42)) /\ FromBytes(PySlice(b, 41, 42)) = y
    <3>1. b \in Seq(Nat) /\ y \in Number /\ FitsIn(y, 1) /\ y > 0 /\ b[42] = y
      BY <1>1, <1>2, <1>15, <1>17
    <3> QED BY ONLY <1>7, <2>1, <3>1, ByteAt
  <2> QED BY <2>2, <2>3
<1>20. PySlice(b, 24, 40) = sg
  <2>1. sg \in Seq(Nat) /\ 40 = 24 + Len(sg) /\ 24 \in Nat /\ 40 \in Nat
    BY <1>5
  <2>2. b \in Seq(Nat) /\ StandsAt(sg, b, 24)
    BY <1>15, <1>16
  <2> QED BY ONLY <2>1, <2>2, StandsSlice
<1>21. FixedOk(b, "hd")
  <2> DEFINE F == Fields["hd"]
  <2>1. /\ DOMAIN F = {"partnum", "startlba", "size", "mbrtype", "sigtype"}
        /\ F["partnum"] = <<4, 4>> /\ F["startlba"] = <<8, 8>> /\ F["size"] = <<16, 8>>
        /\ F["mbrtype"] = <<40, 1>> /\ F["sigtype"] = <<41, 1>>
    BY DEF Fields
  <2>2. Header["hd"][3] = 42
    BY <1>10 DEF h
  <2> HIDE DEF F
  <2>3. ASSUME NEW f \in DOMAIN F PROVE FieldOk(PySlice(b, F[f][1], F[f][1] + F[f][2]))
    <3>1. 4 + 4 = 8 /\ 8 + 8 = 16 /\ 16 + 8 = 24 /\ 40 + 1 = 41 /\ 41 + 1 = 42
      OBVIOUS
    <3> QED BY <1>18, <1>19, <2>1, <3>1
  <2> QED BY <1>15, <2>2, <2>3 DEF FixedOk, F
<1>22. Read(Node("hd", 42, b, <<>>)) = node
  <2>1. Node("hd", 42, b, <<>>).kind = "hd" /\ Node("hd", 42, b, <<>>).bytes = b
    BY DEF Node
  <2>2. 4 + 4 = 8 /\ 8 + 8 = 16 /\ 16 + 8 = 24 /\ 40 + 1 = 41 /\ 41 + 1 = 42
    OBVIOUS
  <2>3. Read(Node("hd", 42, b, <<>>)) =
          [kind |-> "hd", partnum |-> FromBytes(PySlice(b, 4, 8)),
           startlba |-> FromBytes(PySlice(b, 8, 16)), size |-> FromBytes(PySlice(b, 16, 24)),
           guid |-> BytesLe(PySlice(b, 24, 40)),
           mbrtype |-> FromBytes(PySlice(b, 40, 41)), sigtype |-> FromBytes(PySlice(b, 41, 42))]
    BY <2>1, <2>2 DEF Read
  <2> QED BY <1>1, <1>5, <1>18, <1>19, <1>20, <2>3
<1>23. "hd" \in DOMAIN Header
  BY HeaderIs
<1> QED BY <1>3, <1>7, <1>10, <1>15, <1>16, <1>21, <1>22, <1>23 DEF TakenAs, h

LEMMA DecodeEncode ==
  ASSUME NEW units \in Seq(Nat)
  PROVE  Decode(Encode(units)) = units
<1> DEFINE n == Len(units)
           code == Encode(units)
           back == Decode(code)
<1>1. n \in Nat /\ \A k \in 1..n : units[k] \in Nat
  OBVIOUS
<1>2. /\ code \in Seq(Nat) /\ Len(code) = 2 * n
      /\ \A k \in 1..n : code[2 * k - 1] = units[k] % 256 /\ code[2 * k] = units[k] \div 256
  BY EncodeIs
<1> HIDE DEF code, n
<1>3. back = [i \in 1..n |-> Value16(code, 2 * (i - 1))]
  <2>1. Len(code) \div 2 = n
    BY <1>1, <1>2
  <2> QED BY <2>1 DEF Decode
<1>4. ASSUME NEW i \in 1..n PROVE Value16(code, 2 * (i - 1)) = units[i]
  <2> DEFINE u == units[i]
             lo == u % 256
             hi == u \div 256
  <2>1. 2 * (i - 1) + 1 = 2 * i - 1 /\ 2 * (i - 1) + 2 = 2 * i
    BY <1>1
  <2>2. code[2 * (i - 1) + 1] = lo /\ code[2 * (i - 1) + 2] = hi
    BY <1>2, <2>1
  <2>3. u = lo + 256 * hi
    <3>1. u \in Nat
      BY <1>1
    <3> HIDE DEF u
    <3> QED BY <3>1, LowAndHigh
  <2> HIDE DEF lo, hi
  <2> QED BY <2>2, <2>3 DEF Value16
<1>5. units = [i \in 1..n |-> units[i]]
  <2>1. units \in Seq(Nat)
    OBVIOUS
  <2> QED BY <2>1 DEF n
<1> QED BY <1>3, <1>4, <1>5 DEF back, code

\* A path: its header, its length and its text, behind which two bytes are 0.
LEMMA PathStands ==
  ASSUME NEW node \in AskedNode, node.kind = "path",
         NEW b, b = Built(node), NEW size, size = 2 * Len(node.text) + 6
  PROVE  /\ size \in Nat /\ node.text \in Seq(Nat)
         /\ b \in Seq(Nat) /\ Len(b) = size /\ StandsAt(PathHeader, b, 0)
         /\ Value16(b, 2) = size /\ StandsAt(Encode(node.text), b, 4)
<1> DEFINE u == node.text
           n == Len(u)
           code == Encode(u)
           zeros == <<0, 0>>
           text == code \o zeros
           len == LittleEndian16(4 + Len(text))
           a == PathHeader \o len
           all == a \o text
<1>1. u \in Seq(Nat)
  <2>1. u \in Seq(Unit)
    BY DEF AskedNode
  <2> QED BY ONLY <2>1, UnitBounds, WiderItems
<1>2. n \in Nat
  BY <1>1
<1>3. code \in Seq(Nat) /\ Len(code) = 2 * n
  BY <1>1, EncodeIs
<1>4. b = all
  BY DEF Built
<1>5. zeros \in Seq(Nat) /\ Len(zeros) = 2 /\ PathHeader \in Seq(Nat) /\ Len(PathHeader) = 2
  BY DEF PathHeader
<1>6. size = 2 * n + 6
  OBVIOUS
<1> HIDE DEF u, n, code, zeros
<1>7. text \in Seq(Nat) /\ Len(text) = 2 * n + 2 /\ StandsAt(code, text, 0)
  <2>1. code \in Seq(Nat) /\ zeros \in Seq(Nat)
    BY <1>3, <1>5
  <2>2. JoinOfTwo(text, code, zeros, Nat)
    BY ONLY <2>1, Joined
  <2>3. StandsAt(code, text, 0)
    BY <1>3, <1>5, StandsItself, StandsLeft, 0 \in Nat
  <2> HIDE DEF text
  <2>4. text \in Seq(Nat) /\ Len(text) = Len(code) + Len(zeros)
    BY <2>2 DEF JoinOfTwo
  <2> QED BY <1>3, <1>5, <2>3, <2>4
<1> HIDE DEF text
<1>8. 4 + Len(text) = size /\ size \in Nat
  BY <1>2, <1>6, <1>7
<1>9. len \in Seq(Nat) /\ Len(len) = 2 /\ len[1] + 256 * len[2] = size
  <2> DEFINE lo == size % 256
             hi == size \div 256
  <2>1. len = <<lo, hi>>
    BY <1>8 DEF LittleEndian16
  <2>2. lo \in Nat /\ hi \in Nat /\ size = lo + 256 * hi
    <3>1. size \in Nat
      BY <1>8
    <3> QED BY ONLY <3>1, LowAndHigh
  <2> HIDE DEF lo, hi, len
  <2> QED BY <2>1, <2>2
<1> HIDE DEF len
<1>10. /\ a \in Seq(Nat) /\ Len(a) = 2 + 2 /\ StandsAt(len, a, 2)
       /\ \A s \in Seq(Nat), at \in Nat : StandsAt(s, PathHeader, at) => StandsAt(s, a, at)
  BY <1>5, <1>9, PartBehind, 2 \in Nat
<1> HIDE DEF a
<1>11. Len(a) = 4 /\ 4 \in Nat /\ 2 \in Nat /\ 0 \in Nat /\ 2 * n + 2 \in Nat
  BY <1>2, <1>10
<1>12. /\ all \in Seq(Nat) /\ Len(all) = 4 + (2 * n + 2) /\ StandsAt(text, all, 4)
       /\ \A s \in Seq(Nat), at \in Nat : StandsAt(s, a, at) => StandsAt(s, all, at)
  BY <1>7, <1>10, <1>11, PartBehind
<1> HIDE DEF all
<1>13. StandsAt(PathHeader, all, 0) /\ StandsAt(len, all, 2)
  BY <1>5, <1>9, <1>10, <1>11, <1>12, StandsItself
<1>14. StandsAt(code, all, 4)
  <2>1. StandsAt(code, all, 4 + 0)
    BY <1>3, <1>7, <1>11, <1>12, StandsDeep
  <2> QED BY <2>1
<1>15. Value16(all, 2) = size
  <2>1. all[2 + 1] = len[1] /\ all[2 + 2] = len[2]
    BY <1>9, <1>13 DEF StandsAt
  <2> QED BY <1>9, <2>1 DEF Value16
<1>16. Len(all) = size
  BY <1>2, <1>6, <1>12
<1> QED BY <1>1, <1>4, <1>8, <1>12, <1>13, <1>14, <1>15, <1>16 DEF u, code

LEMMA PathRound ==
  ASSUME NEW node \in AskedNode, node.kind = "path",
         NEW b, b = Built(node), NEW d \in Seq(Nat), NEW o \in Nat, StandsAt(b, d, o)
  PROVE  /\ b \in Seq(Nat)
         /\ Round(d, o) = Node("path", Len(b), b, node.text)
<1> DEFINE u == node.text
           n == Len(u)
           code == Encode(u)
           size == 2 * n + 6
<1>1. /\ size \in Nat /\ u \in Seq(Nat) /\ b \in Seq(Nat) /\ Len(b) = size
      /\ StandsAt(PathHeader, b, 0) /\ Value16(b, 2) = size /\ StandsAt(code, b, 4)
  BY PathStands
<1>2. n \in Nat
  BY <1>1
<1>3. code \in Seq(Nat) /\ Len(code) = 2 * n
  BY <1>1, EncodeIs
<1>4. Decode(code) = u
  BY <1>1, DecodeEncode
<1>5. size = 2 * n + 6
  OBVIOUS
<1> HIDE DEF u, n, code, size
<1>6. o + size <= Len(d) /\ \A k \in 1..size : d[o + k] = b[k]
  <2>1. o + Len(b) <= Len(d) /\ \A k \in 1..Len(b) : d[o + k] = b[k]
    BY DEF StandsAt
  <2>2. Len(b) = size
    BY <1>1
  <2> QED BY ONLY <2>1, <2>2
<1>7. o \in 0..Len(d) /\ o + 4 <= Len(d) /\ size # 0 /\ size <= Len(d) - o
  <2> DEFINE m == Len(d)
  <2>1. m \in Nat /\ o \in Nat /\ o + size <= m
    BY <1>6
  <2> HIDE DEF m
  <2>2. o \in 0..m /\ o + 4 <= m /\ size # 0 /\ size <= m - o
    BY ONLY <1>2, <1>5, <2>1
  <2> QED BY <2>2 DEF m
<1>8. PySlice(d, o, o + 2) = PathHeader
  <2>1. PathHeader \in Seq(Nat) /\ Len(PathHeader) = 2
    BY DEF PathHeader
  <2>2. StandsAt(PathHeader, d, o + 0)
    BY <1>1, <2>1, StandsDeep, 0 \in Nat
  <2>3. StandsAt(PathHeader, d, o) /\ o + 2 \in Nat /\ o + 2 = o + Len(PathHeader)
    BY <2>1, <2>2
  <2> QED BY ONLY <2>1, <2>3, d \in Seq(Nat), o \in Nat, StandsSlice
<1>9. Round(d, o) = PathNode(d, o)
  BY <1>7, <1>8, RoundIs
<1>10. Value16(d, o + 2) = size
  <2>1. 3 \in 1..size /\ 4 \in 1..size /\ o + 2 + 1 = o + 3 /\ o + 2 + 2 = o + 4
    BY <1>2, <1>5
  <2>2. d[o + 2 + 1] = b[3] /\ d[o + 2 + 2] = b[4]
    BY <1>6, <2>1
  <2>3. b[2 + 1] + 256 * b[2 + 2] = size
    BY <1>1 DEF Value16
  <2> QED BY <2>2, <2>3 DEF Value16
<1>11. PySlice(d, o + 4, o + size - 2) = code
  <2> DEFINE at == o + 4
             to == o + size - 2
  <2>1. StandsAt(code, d, at)
    BY <1>1, <1>3, StandsDeep, 4 \in Nat
  <2>2. at \in Nat /\ to \in Nat /\ to = at + Len(code)
    BY <1>2, <1>3, <1>5
  <2> HIDE DEF at, to
  <2>3. PySlice(d, at, to) = code
    BY <1>3, <2>1, <2>2, StandsSlice
  <2> QED BY <2>3 DEF at, to
<1>12. PySlice(d, o, o + size) = b
  <2> DEFINE to == o + size
  <2>1. to \in Nat /\ to = o + Len(b) /\ b \in Seq(Nat)
    BY <1>1
  <2>2. StandsAt(b, d, o) /\ d \in Seq(Nat) /\ o \in Nat
    OBVIOUS
  <2> HIDE DEF to
  <2>3. PySlice(d, o, to) = b
    BY ONLY <2>1, <2>2, StandsSlice
  <2> QED BY <2>3 DEF to
<1>13. Len(code) % 2 # 1
  BY <1>2, <1>3
<1>14. PathNode(d, o) = Node("path", size, b, u)
  BY <1>4, <1>7, <1>10, <1>11, <1>12, <1>13 DEF PathNode, PathFits
<1> QED BY <1>1, <1>9, <1>14 DEF u

\* Whatever kind: where a built node stands, its round gives the fields that were
\* asked for, and goes to what is behind the node.
GivesBack(round, node, size) == round.step = "node" /\ round.size = size /\ Read(round) = node

LEMMA NodeReadBack ==
  ASSUME NEW node \in AskedNode, Taken(node), NEW b, b = Built(node),
         NEW d \in Seq(Nat), NEW o \in Nat, StandsAt(b, d, o)
  PROVE  GivesBack(Round(d, o), node, Len(b))
<1>1. ASSUME NEW kind, NEW size, TakenAs(b, kind, size, node)
      PROVE  GivesBack(Round(d, o), node, Len(b))
  <2>1. /\ kind \in DOMAIN Header /\ b \in Seq(Nat) /\ size \in Nat /\ size = Header[kind][3]
        /\ Len(b) = size /\ StandsAt(Header[kind], b, 0) /\ FixedOk(b, kind)
        /\ Read(Node(kind, size, b, <<>>)) = node
    BY <1>1 DEF TakenAs
  <2>2. Round(d, o) = Node(kind, size, b, <<>>)
    BY <2>1, FixedRound
  <2>3. Node(kind, size, b, <<>>).step = "node" /\ Node(kind, size, b, <<>>).size = size
    BY DEF Node
  <2> QED BY <2>1, <2>2, <2>3 DEF GivesBack
<1>2. CASE node.kind = "acpi"
  BY <1>1, <1>2, AcpiTaken
<1>3. CASE node.kind = "pci"
  BY <1>1, <1>3, PciTaken
<1>4. CASE node.kind = "hd"
  BY <1>1, <1>4, HardDriveTaken
<1>5. CASE node.kind = "path"
  <2>1. Round(d, o) = Node("path", Len(b), b, node.text)
    BY <1>5, PathRound
  <2> DEFINE r == Node("path", Len(b), b, node.text)
  <2>2. r.step = "node" /\ r.size = Len(b) /\ r.kind = "path" /\ r.text = node.text
    BY DEF Node
  <2>3. node = [kind |-> "path", text |-> node.text]
    BY <1>5 DEF AskedNode
  <2> HIDE DEF r
  <2>4. Read(r) = node
    BY <2>2, <2>3 DEF Read
  <2> QED BY <2>1, <2>2, <2>4 DEF GivesBack, r
<1>6. node.kind \in {"acpi", "pci", "hd", "path"}
  BY DEF AskedNode
<1> QED BY <1>2, <1>3, <1>4, <1>5, <1>6

\* Where the nodes of a list stand, and its end node.
PlacesIn(p, nodes, list) ==
    /\ p[0] = 0
    /\ \A k \in 1..Len(nodes) :
         /\ StandsAt(Built(nodes[k]), list, p[k - 1])
         /\ p[k] = p[k - 1] + Len(Built(nodes[k]))
    /\ StandsAt(EndHeader, list, p[Len(nodes)])
    /\ Len(list) = p[Len(nodes)] + 4

LEMMA PlacesExist ==
  ASSUME NEW nodes \in Seq(AskedNode), \A i \in 1..Len(nodes) : Taken(nodes[i])
  PROVE  /\ BuiltList(nodes) \in Seq(Nat)
         /\ \E p \in [0..Len(nodes) -> Nat] : PlacesIn(p, nodes, BuiltList(nodes))
<1> DEFINE n == Len(nodes)
           seqs == [i \in 1..n |-> Built(nodes[i])]
           list == BuiltList(nodes)
<1>1. n \in Nat /\ \A i \in 1..n : nodes[i] \in AskedNode /\ Built(nodes[i]) \in Seq(Nat)
  BY BuiltTyped
<1>2. seqs \in Seq(Seq(Nat)) /\ Len(seqs) = n /\ \A i \in 1..n : seqs[i] = Built(nodes[i])
  BY <1>1
<1>3. list = FlattenSeq(seqs) \o EndHeader
  BY DEF BuiltList
<1> HIDE DEF n, seqs, list
<1>4. PICK f \in [0..n -> Seq(Nat)] : JoinedUp(f, seqs) /\ FlattenSeq(seqs) = f[n]
  BY <1>2, FlattenIs
<1>5. \A k \in 0..n : f[k] \in Seq(Nat) /\ Len(f[k]) \in Nat
  BY <1>4
<1>6. n \in 0..n /\ 0 \in 0..n
  BY <1>1
<1>7. EndHeader \in Seq(Nat) /\ Len(EndHeader) = 4
  BY DEF EndHeader
<1> DEFINE all == f[n]
<1>8. all \in Seq(Nat) /\ list = all \o EndHeader
  BY <1>3, <1>4, <1>5, <1>6
<1> DEFINE p == [k \in 0..n |-> Len(f[k])]
<1>9. p \in [0..n -> Nat] /\ \A k \in 0..n : p[k] = Len(f[k])
  BY <1>5
<1>10. p[0] = 0
  <2>1. f[0] = <<>>
    BY <1>4 DEF JoinedUp
  <2> QED BY <1>6, <1>9, <2>1
<1> HIDE DEF p, all
<1>11. ASSUME NEW k \in 1..n
       PROVE  /\ StandsAt(Built(nodes[k]), list, p[k - 1])
              /\ p[k] = p[k - 1] + Len(Built(nodes[k]))
  <2> DEFINE old == f[k - 1]
             new == f[k]
             b == Built(nodes[k])
             at == p[k - 1]
  <2>1. k - 1 \in 0..n /\ k \in 0..n /\ k \in 1..Len(seqs)
    BY <1>1, <1>2
  <2>2. new = old \o b
    BY <1>2, <1>4, <2>1 DEF JoinedUp
  <2>3. old \in Seq(Nat) /\ new \in Seq(Nat) /\ b \in Seq(Nat)
    BY <1>1, <1>5, <2>1
  <2>4. at = Len(old) /\ p[k] = Len(new) /\ at \in Nat
    BY <1>5, <1>9, <2>1
  <2>5. StandsAt(new, all, 0)
    <3>1. StartsWith(f[Len(seqs)], f[k])
      <4>1. f \in [0..Len(seqs) -> Seq(Nat)] /\ k \in 0..Len(seqs)
        BY <1>2, <1>4, <2>1
      <4> QED BY <1>2, <1>4, <4>1, PrefixKept
    <3>2. Len(new) <= Len(all) /\ \A i \in 1..Len(new) : all[i] = new[i]
      BY <1>2, <3>1 DEF StartsWith, all
    <3> HIDE DEF new
    <3>3. 0 + Len(new) = Len(new) /\ \A i \in 1..Len(new) : 0 + i = i
      BY <2>3
    <3> QED BY <3>2, <3>3 DEF StandsAt
  <2> HIDE DEF old, new, b, at
  <2>6. StandsAt(b, new, at) /\ Len(new) = at + Len(b)
    BY <2>2, <2>3, <2>4, StandsRight
  <2>7. StandsAt(b, all, at)
    <3>1. StandsAt(b, all, 0 + at)
      BY <1>8, <2>3, <2>4, <2>5, <2>6, StandsDeep, 0 \in Nat
    <3> QED BY <2>4, <3>1
  <2>8. StandsAt(b, list, at)
    BY <1>7, <1>8, <2>3, <2>4, <2>7, StandsLeft
  <2> QED BY <2>4, <2>6, <2>8 DEF b, at
<1>12. p[n] = Len(all)
  BY <1>6, <1>9 DEF all
<1>13. StandsAt(EndHeader, list, p[n]) /\ Len(list) = p[n] + 4 /\ list \in Seq(Nat)
  <2>1. StandsAt(EndHeader, list, Len(all))
    BY <1>7, <1>8, StandsRight
  <2>2. JoinOfTwo(all \o EndHeader, all, EndHeader, Nat)
    BY <1>7, <1>8, Joined
  <2>3. list \in Seq(Nat) /\ Len(list) = Len(all) + Len(EndHeader)
    BY <1>8, <2>2 DEF JoinOfTwo
  <2> QED BY <1>7, <1>12, <2>1, <2>3
<1>14. PlacesIn(p, nodes, list)
  BY <1>10, <1>11, <1>13 DEF PlacesIn, n
<1> QED BY <1>9, <1>13, <1>14 DEF n, list

\* Two bytes hold the length of a list that is not refused.
LEMMA LengthReadBack ==
  ASSUME NEW n \in Nat, n < 65536
  PROVE  ToBytes(n, 2) \in Seq(Nat) /\ Len(ToBytes(n, 2)) = 2
         /\ ToBytes(n, 2)[1] + 256 * ToBytes(n, 2)[2] = n
<1> DEFINE s == ToBytes(n, 2)
<1>1. n \in Number
  <2>1. n \div 65536 < 32768
    OBVIOUS
  <2> QED BY <2>1 DEF Number
<1>2. NumberIn(s, n, 2)
  BY ToBytesIs, 2 \in Nat
<1> HIDE DEF s
<1>3. PICK a \in Nat, b \in Nat, c \in Nat, d \in Nat :
         /\ n = a + 256 * (b + 256 * (c + 256 * d)) /\ a < 256 /\ b < 256 /\ c < 256 /\ d < 128
         /\ (n \div Weight[1]) % 256 = a /\ (n \div Weight[2]) % 256 = b
         /\ (n \div Weight[3]) % 256 = c /\ (n \div Weight[4]) % 256 = d
  BY <1>1, FourBytes
<1>4. s \in Seq(Nat) /\ Len(s) = 2 /\ s[1] = a /\ s[2] = b
  BY <1>2, <1>3 DEF NumberIn
<1>5. n = a + 256 * b
  <2>1. c + 256 * d = 0
    BY ONLY n \in Nat, n < 65536, <1>3
  <2> QED BY <1>3, <2>1
<1> QED BY <1>4, <1>5 DEF s

\* Where the parts of an option stand.
Laid(d, r, list, at) ==
    /\ d \in Seq(Nat) /\ list \in Seq(Nat) /\ list = BuiltList(r.nodes)
    /\ at = 6 + 2 * Len(r.description) + 2
    /\ StandsAt(BuildDescription(r.description), d, 6)
    /\ Value16(d, 4) = Len(list)
    /\ StandsAt(list, d, at) /\ StandsAt(r.optdata, d, at + Len(list))
    /\ Len(d) = at + Len(list) + Len(r.optdata)

LEMMA OptionLaid ==
  ASSUME NEW r \in Requests, Buildable(r), NEW at, at = 6 + 2 * Len(r.description) + 2
  PROVE  Laid(BuiltOption(r), r, BuiltList(r.nodes), at) /\ at \in Nat
<1> DEFINE list == BuiltList(r.nodes)
           d == BuiltOption(r)
           m == Len(list)
           n == Len(r.description)
           attr == ToBytes(r.attributes, 4)
           len == ToBytes(m, 2)
           text == BuildDescription(r.description)
           opt == r.optdata
           a1 == attr \o len
           a2 == a1 \o text
           a3 == a2 \o list
           a4 == a3 \o opt
<1>1. /\ r.attributes \in Number /\ r.description \in Seq(Unit)
      /\ r.nodes \in Seq(AskedNode) /\ r.optdata \in Seq(Byte)
  BY RequestsAssumption
<1>2. list \in Seq(Nat) /\ m \in Nat /\ m < 65536
  <2>1. list \in Seq(Nat)
    BY OptionTyped
  <2>2. m < 65536
    BY DEF Buildable
  <2> QED BY <2>1, <2>2
<1>3. opt \in Seq(Nat)
  BY ONLY <1>1, ByteBounds, WiderItems
<1>4. text \in Seq(Nat) /\ Len(text) = 2 * n + 2 /\ n \in Nat
  <2> DEFINE code == Encode(r.description)
             zeros == <<0, 0>>
  <2>1. r.description \in Seq(Nat)
    BY ONLY <1>1, UnitBounds, WiderItems
  <2>2. code \in Seq(Nat) /\ Len(code) = 2 * n /\ n \in Nat
    BY SMTT(20), <2>1, EncodeIs
  <2>3. zeros \in Seq(Nat) /\ Len(zeros) = 2
    OBVIOUS
  <2>4. text = code \o zeros
    BY DEF BuildDescription
  <2> HIDE DEF code, zeros, text
  <2>5. JoinOfTwo(text, code, zeros, Nat)
    BY <2>2, <2>3, <2>4, Joined
  <2> QED BY <2>2, <2>3, <2>5 DEF JoinOfTwo
<1>5. d = a4
  BY DEF BuiltOption
<1> HIDE DEF list
<1>6. attr \in Seq(Nat) /\ Len(attr) = 4
  <2>1. r.attributes \in Nat /\ 4 \in Nat
    BY <1>1 DEF Number
  <2> QED BY <2>1, ToBytesTyped
<1>7. len \in Seq(Nat) /\ Len(len) = 2 /\ len[1] + 256 * len[2] = m
  <2>1. m \in Nat /\ m < 65536
    BY <1>2
  <2> HIDE DEF m
  <2> QED BY ONLY <2>1, LengthReadBack
<1>8. at = 6 + 2 * n + 2
  OBVIOUS
<1> HIDE DEF m, n, attr, len, text, opt, d
<1>9. JoinOfTwo(a1, attr, len, Nat) /\ StandsAt(len, a1, 4)
  <2>1. JoinOfTwo(a1, attr, len, Nat)
    BY <1>6, <1>7, Joined
  <2>2. StandsAt(len, a1, Len(attr))
    BY <1>6, <1>7, StandsRight
  <2> QED BY <1>6, <2>1, <2>2
<1> HIDE DEF a1
<1>10. a1 \in Seq(Nat) /\ Len(a1) = 6
  BY <1>6, <1>7, <1>9 DEF JoinOfTwo
<1>11. JoinOfTwo(a2, a1, text, Nat) /\ StandsAt(text, a2, 6) /\ StandsAt(len, a2, 4)
  <2>1. JoinOfTwo(a2, a1, text, Nat)
    BY <1>4, <1>10, Joined
  <2>2. StandsAt(text, a2, Len(a1))
    BY <1>4, <1>10, StandsRight
  <2>3. StandsAt(len, a2, 4)
    BY <1>4, <1>7, <1>9, <1>10, StandsLeft, 4 \in Nat
  <2> QED BY <1>10, <2>1, <2>2, <2>3
<1> HIDE DEF a2
<1>12. a2 \in Seq(Nat) /\ Len(a2) = at /\ at \in Nat
  <2>1. a2 \in Seq(Nat) /\ Len(a2) = Len(a1) + Len(text)
    BY <1>11 DEF JoinOfTwo
  <2> QED BY ONLY <1>4, <1>8, <1>10, <2>1
<1>13. /\ JoinOfTwo(a3, a2, list, Nat) /\ StandsAt(list, a3, at)
       /\ StandsAt(text, a3, 6) /\ StandsAt(len, a3, 4)
  <2>1. JoinOfTwo(a3, a2, list, Nat)
    BY <1>2, <1>12, Joined
  <2>2. StandsAt(list, a3, Len(a2))
    BY <1>2, <1>12, StandsRight
  <2>3. StandsAt(text, a3, 6)
    BY <1>2, <1>4, <1>11, <1>12, StandsLeft, 6 \in Nat
  <2>4. StandsAt(len, a3, 4)
    BY <1>2, <1>7, <1>11, <1>12, StandsLeft, 4 \in Nat
  <2> QED BY <1>12, <2>1, <2>2, <2>3, <2>4
<1> HIDE DEF a3
<1>14. a3 \in Seq(Nat) /\ Len(a3) = at + m
  BY <1>12, <1>13 DEF JoinOfTwo, m
<1>15. /\ JoinOfTwo(a4, a3, opt, Nat) /\ StandsAt(opt, a4, at + m) /\ StandsAt(list, a4, at)
       /\ StandsAt(text, a4, 6) /\ StandsAt(len, a4, 4)
  <2>1. JoinOfTwo(a4, a3, opt, Nat)
    BY <1>3, <1>14, Joined
  <2>2. StandsAt(opt, a4, Len(a3))
    BY <1>3, <1>14, StandsRight
  <2>3. StandsAt(text, a4, 6)
    BY <1>3, <1>4, <1>13, <1>14, StandsLeft, 6 \in Nat
  <2>4. StandsAt(len, a4, 4)
    BY <1>3, <1>7, <1>13, <1>14, StandsLeft, 4 \in Nat
  <2>5. StandsAt(list, a4, at)
    BY <1>2, <1>3, <1>12, <1>13, <1>14, StandsLeft
  <2> QED BY <1>14, <2>1, <2>2, <2>3, <2>4, <2>5
<1> HIDE DEF a4
<1>16. a4 \in Seq(Nat) /\ Len(a4) = at + m + Len(opt)
  BY <1>14, <1>15 DEF JoinOfTwo
<1>17. Value16(a4, 4) = m
  <2>1. a4[4 + 1] = len[1] /\ a4[4 + 2] = len[2]
    BY <1>7, <1>15 DEF StandsAt
  <2> QED BY <1>7, <2>1 DEF Value16
<1>18. Laid(a4, r, list, at)
  <2>1. /\ a4 \in Seq(Nat) /\ list \in Seq(Nat) /\ StandsAt(text, a4, 6) /\ Value16(a4, 4) = m
        /\ StandsAt(list, a4, at) /\ StandsAt(opt, a4, at + m) /\ Len(a4) = at + m + Len(opt)
    BY <1>2, <1>15, <1>16, <1>17
  <2>2. m = Len(list) /\ opt = r.optdata /\ text = BuildDescription(r.description)
    BY DEF m, opt, text
  <2>3. Laid(a4, r, list, at) <=>
          /\ a4 \in Seq(Nat) /\ list \in Seq(Nat) /\ list = BuiltList(r.nodes)
          /\ at = 6 + 2 * Len(r.description) + 2
          /\ StandsAt(BuildDescription(r.description), a4, 6)
          /\ Value16(a4, 4) = Len(list)
          /\ StandsAt(list, a4, at) /\ StandsAt(r.optdata, a4, at + Len(list))
          /\ Len(a4) = at + Len(list) + Len(r.optdata)
    BY Zenon DEF Laid
  <2>4. list = BuiltList(r.nodes) /\ at = 6 + 2 * Len(r.description) + 2
    BY DEF list
  <2> QED BY ONLY <2>1, <2>2, <2>3, <2>4, Zenon
<1> QED BY <1>5, <1>12, <1>18 DEF d, list

\* What the parser makes of it, before the walk and behind it.
FieldsRead(d, r, list, at) ==
    /\ Len(d) >= 6 /\ NullTerms(From(d, 6)) # {}
    /\ 6 + DescriptionSize(From(d, 6)) + 2 = at
    /\ Value16(d, 4) = Len(list) /\ Len(list) <= Len(From(d, at))
    /\ PySlice(d, at, at + Len(list)) = list
    /\ Decode(PySlice(d, 6, at - 2)) = r.description
    /\ From(d, at + Len(list)) = r.optdata

LEMMA LaidIsRead ==
  ASSUME NEW r, r.description \in Seq(Unit), r.optdata \in Seq(Nat),
         EarlyPairs(r.description) = {},
         NEW d, NEW list, NEW at \in Nat, Laid(d, r, list, at)
  PROVE  FieldsRead(d, r, list, at)
<1> DEFINE units == r.description
           n == Len(units)
           opt == r.optdata
           m == Len(list)
           text == BuildDescription(units)
           to == at + m
<1>1. /\ d \in Seq(Nat) /\ list \in Seq(Nat) /\ at = 6 + 2 * n + 2
      /\ StandsAt(text, d, 6) /\ Value16(d, 4) = m
      /\ StandsAt(list, d, at) /\ StandsAt(opt, d, to)
      /\ Len(d) = to + Len(opt)
  BY DEF Laid
<1>2. n \in Nat /\ m \in Nat /\ to \in Nat /\ opt \in Seq(Nat) /\ Len(opt) \in Nat /\ Len(d) \in Nat
  <2>1. n \in Nat /\ opt \in Seq(Nat) /\ Len(opt) \in Nat
    OBVIOUS
  <2>2. m \in Nat /\ Len(d) \in Nat
    <3>1. d \in Seq(Nat) /\ list \in Seq(Nat)
      BY <1>1
    <3> QED BY ONLY <3>1
  <2> HIDE DEF n, opt, m
  <2>3. to \in Nat
    BY <2>2
  <2> QED BY <2>1, <2>2, <2>3
<1>3. Spelled(d, 6, units)
  <2>1. units \in Seq(Unit)
    OBVIOUS
  <2> HIDE DEF units, text
  <2>2. StandsAt(BuildDescription(units), d, 6)
    BY <1>1 DEF text
  <2> QED BY <1>1, <2>1, <2>2, DescriptionSpelled, 6 \in Nat
<1>4. WholeUpTo(units) = n
  BY DEF WholeUpTo
<1>5. /\ DescriptionSize(From(d, 6)) = 2 * n
      /\ Decode(PySlice(d, 6, 6 + 2 * n)) = SubSeq(units, 1, n)
  <2>1. units \in Seq(Unit) /\ 6 \in Nat
    OBVIOUS
  <2> HIDE DEF units
  <2>2. DescriptionSize(From(d, 6)) = 2 * WholeUpTo(units)
    BY <1>3, <2>1, DescriptionDecoded
  <2>3. Decode(PySlice(d, 6, 6 + 2 * WholeUpTo(units))) = SubSeq(units, 1, WholeUpTo(units))
    BY <1>3, <2>1, DescriptionDecoded
  <2> QED BY <1>4, <2>2, <2>3
<1>6. SubSeq(units, 1, n) = units
  <2>1. units \in Seq(Nat)
    BY ONLY r.description \in Seq(Unit), UnitBounds, WiderItems
  <2> QED BY <2>1
<1>7. NullTerms(From(d, 6)) # {}
  <2> DEFINE e == From(d, 6)
  <2>1. Spelled(e, 0, units)
    <3>1. units \in Seq(Unit) /\ 6 \in Nat
      OBVIOUS
    <3> HIDE DEF units
    <3> QED BY <1>3, <3>1, BehindIsSpelled
  <2>2. units \in Seq(Unit)
    OBVIOUS
  <2> HIDE DEF e, units
  <2>3. 2 * Len(units) \in NullTerms(e)
    BY <2>1, <2>2, NullsOf
  <2> QED BY <2>3 DEF e
<1> HIDE DEF units, n, opt, m, text, to
<1>8. Len(d) >= 6 /\ at <= Len(d) /\ at - 2 = 6 + 2 * n /\ 6 + 2 * n + 2 = at /\ to = at + m
  BY SMTT(20), <1>1, <1>2 DEF to
<1>9. PySlice(d, at, to) = list
  BY <1>1, <1>2, <1>8, StandsSlice DEF m
<1>10. From(d, to) = opt
  BY <1>1, <1>2, StandsSlice DEF From
<1>11. m <= Len(From(d, at))
  <2> DEFINE e == From(d, at)
  <2>1. IsPart(e, d, at, Len(d) - at, Nat)
    BY <1>1, <1>2, <1>8, SliceWithin DEF From
  <2> HIDE DEF e
  <2>2. Len(e) = Len(d) - at
    BY <2>1 DEF IsPart
  <2>3. m <= Len(e)
    BY <1>1, <1>2, <1>8, <2>2
  <2> QED BY <2>3 DEF e
<1>12. Decode(PySlice(d, 6, at - 2)) = units
  BY <1>5, <1>6, <1>8
<1>13. 6 + DescriptionSize(From(d, 6)) + 2 = at
  BY <1>5, <1>8
<1> QED BY <1>1, <1>7, <1>8, <1>9, <1>10, <1>11, <1>12, <1>13 DEF FieldsRead, units, opt, m, to

\* A round at the place of a node gives it back; behind the last stands the end.
NodeAt(round, node, size) == GivesBack(round, node, size) /\ size > 0

LEMMA RoundAtPlace ==
  ASSUME NEW nodes \in Seq(AskedNode), \A i \in 1..Len(nodes) : Taken(nodes[i]),
         NEW list \in Seq(Nat), NEW p \in [0..Len(nodes) -> Nat], PlacesIn(p, nodes, list),
         NEW k \in 0..(Len(nodes) - 1)
  PROVE  /\ NodeAt(Round(list, p[k]), nodes[k + 1], Len(Built(nodes[k + 1])))
         /\ p[k] < Len(list) /\ p[k] \in Nat /\ k + 1 \in 1..Len(nodes)
         /\ p[k + 1] = p[k] + Len(Built(nodes[k + 1]))
<1> DEFINE n == Len(nodes)
           node == nodes[k + 1]
           b == Built(node)
           o == p[k]
           r == Round(list, o)
<1>1. n \in Nat /\ k \in 0..n /\ k + 1 \in 1..n /\ (k + 1) - 1 = k
  OBVIOUS
<1>2. node \in AskedNode /\ Taken(node)
  BY <1>1
<1>3. b \in Seq(Nat)
  BY <1>2, BuiltTyped
<1>4. o \in Nat
  BY <1>1
<1>5. StandsAt(b, list, o) /\ p[k + 1] = o + Len(b)
  BY <1>1 DEF PlacesIn
<1> HIDE DEF n, node, b, o
<1>6. GivesBack(r, node, Len(b))
  BY <1>2, <1>4, <1>5, NodeReadBack DEF b
<1>7. o \in 0..Len(list)
  BY <1>3, <1>4, <1>5 DEF StandsAt
<1>8. r.size > 0 /\ o + r.size <= Len(list) /\ r.size = Len(b)
  <2>1. r.step = "node" /\ r.size = Len(b)
    BY <1>6 DEF GivesBack
  <2> QED BY <1>7, <2>1, RoundTakes
<1> HIDE DEF r
<1>9. Len(b) > 0 /\ o < Len(list)
  BY <1>3, <1>4, <1>8
<1> QED BY <1>1, <1>4, <1>5, <1>6, <1>9 DEF NodeAt, n, node, b, o, r

LEMMA RoundAtEnd ==
  ASSUME NEW nodes \in Seq(AskedNode),
         NEW list \in Seq(Nat), NEW p \in [0..Len(nodes) -> Nat], PlacesIn(p, nodes, list)
  PROVE  /\ Round(list, p[Len(nodes)]) = Stop("end")
         /\ p[Len(nodes)] < Len(list) /\ p[Len(nodes)] \in Nat
<1> DEFINE o == p[Len(nodes)]
<1>1. o \in Nat
  OBVIOUS
<1>2. StandsAt(EndHeader, list, o) /\ Len(list) = o + 4
  BY DEF PlacesIn
<1> HIDE DEF o
<1>3. Round(list, o) = Stop("end")
  BY <1>1, <1>2, EndRound
<1>4. o < Len(list)
  BY <1>1, <1>2
<1> QED BY <1>1, <1>3, <1>4 DEF o
-----------------------------------------------------------------------------
\* An option of the builders as the parser goes through it.
AskedList == BuiltList(asked.nodes)
AskedStart == 6 + 2 * Len(asked.description) + 2
AskedEnd == AskedStart + Len(AskedList)
Sound == asked # NoCells /\ EarlyPairs(asked.description) = {}
GivenBack(m) == \A i \in 1..m : rounds[i].step = "node" /\ Read(rounds[i]) = asked.nodes[i]

AskedIs == asked # NoCells =>
    asked \in Requests /\ Buildable(asked) /\ data = BuiltOption(asked)

\* Walked so far, the whole list, the option.
WalkIs == pc = "walk" =>
    /\ Len(rounds) <= Len(asked.nodes) /\ GivenBack(Len(rounds))
    /\ \E p \in [0..Len(asked.nodes) -> Nat] :
         PlacesIn(p, asked.nodes, AskedList) /\ offset = p[Len(rounds)]
ListIs == pc \in {"rest", "done"} =>
    /\ Len(rounds) = Len(asked.nodes) + 1 /\ rounds[Len(asked.nodes) + 1] = Stop("end")
    /\ GivenBack(Len(asked.nodes))
ResultIs == pc = "done" =>
    result = [description |-> asked.description, rounds |-> rounds,
              start |-> AskedStart, end |-> AskedEnd, optdata |-> asked.optdata]
SoundIs ==
    /\ pc \in {"fields", "walk", "rest", "done"}
    /\ pc # "fields" => start = AskedStart /\ end = AskedEnd
    /\ WalkIs /\ ListIs /\ ResultIs
BuiltInv == AskedIs /\ (Sound => SoundIs)

LEMMA AskedRead ==
  ASSUME AskedIs, Sound
  PROVE  /\ FieldsRead(data, asked, AskedList, AskedStart)
         /\ AskedStart \in Nat /\ AskedEnd \in Nat /\ AskedList \in Seq(Nat)
         /\ asked.description \in Seq(Nat) /\ asked.optdata \in Seq(Nat)
         /\ asked.nodes \in Seq(AskedNode) /\ \A i \in 1..Len(asked.nodes) : Taken(asked.nodes[i])
<1>1. asked \in Requests /\ Buildable(asked) /\ data = BuiltOption(asked) /\ EarlyPairs(asked.description) = {}
  BY DEF AskedIs, Sound
<1>2. asked.description \in Seq(Unit) /\ asked.nodes \in Seq(AskedNode) /\ asked.optdata \in Seq(Byte)
  BY <1>1, RequestsAssumption
<1>3. asked.description \in Seq(Nat) /\ asked.optdata \in Seq(Nat)
  <2>1. asked.description \in Seq(Nat)
    BY ONLY <1>2, UnitBounds, WiderItems
  <2>2. asked.optdata \in Seq(Nat)
    BY ONLY <1>2, ByteBounds, WiderItems
  <2> QED BY <2>1, <2>2
<1>4. Laid(data, asked, AskedList, AskedStart) /\ AskedStart \in Nat
  BY <1>1, OptionLaid DEF AskedList, AskedStart
<1>5. FieldsRead(data, asked, AskedList, AskedStart)
  BY <1>1, <1>2, <1>3, <1>4, LaidIsRead
<1>6. AskedList \in Seq(Nat)
  BY <1>4 DEF Laid
<1>7. AskedEnd \in Nat
  BY <1>4, <1>6 DEF AskedEnd
<1>8. \A i \in 1..Len(asked.nodes) : Taken(asked.nodes[i])
  BY ONLY <1>1 DEF Buildable
<1> QED BY ONLY <1>2, <1>3, <1>4, <1>5, <1>6, <1>7, <1>8

LEMMA AskedSlices ==
  ASSUME AskedIs, Sound
  PROVE  /\ Len(data) >= 6 /\ NullTerms(From(data, 6)) # {} /\ ListFits
         /\ ListStart = AskedStart /\ ListEnd = AskedEnd
         /\ PySlice(data, AskedStart, AskedEnd) = AskedList
         /\ Decode(PySlice(data, 6, AskedStart - 2)) = asked.description
         /\ From(data, AskedEnd) = asked.optdata
<1>1. FieldsRead(data, asked, AskedList, AskedStart)
  BY AskedRead
<1>2. /\ Len(data) >= 6 /\ NullTerms(From(data, 6)) # {}
      /\ ListStart = AskedStart /\ Value16(data, 4) = Len(AskedList)
      /\ Len(AskedList) <= Len(From(data, AskedStart))
  BY <1>1 DEF FieldsRead, ListStart
<1>3. ListEnd = AskedEnd /\ ListFits
  BY <1>2 DEF ListEnd, AskedEnd, ListFits
<1> QED BY <1>1, <1>2, <1>3 DEF FieldsRead, AskedEnd

\* What was asked for does not change, nor what is made of it.
LEMMA AskedStays ==
  ASSUME UNCHANGED <<asked, data>>
  PROVE  /\ AskedList' = AskedList /\ AskedStart' = AskedStart /\ AskedEnd' = AskedEnd
         /\ (Sound' <=> Sound) /\ (AskedIs => AskedIs')
BY DEF AskedList, AskedStart, AskedEnd, Sound, AskedIs

LEMMA BuiltInit ==
  Init => BuiltInv
<1> SUFFICES ASSUME Init PROVE BuiltInv
  OBVIOUS
<1>1. AskedIs
  BY DEF Init, AskedIs
<1>2. pc = "fields"
  BY DEF Init
<1> QED BY <1>1, <1>2 DEF BuiltInv, SoundIs, WalkIs, ListIs, ResultIs

LEMMA BuiltFields ==
  ASSUME TilingInv, AskedIs, Sound, SoundIs, ReadFields
  PROVE  SoundIs'
<1>1. ListStart = AskedStart /\ ListEnd = AskedEnd
  BY AskedSlices
<1>2. /\ start' = AskedStart /\ end' = AskedEnd /\ pc' = "walk"
      /\ UNCHANGED <<asked, data>> /\ offset' = 0 /\ rounds' = <<>>
  BY <1>1 DEF ReadFields, input, TilingInv, Begins
<1>3. AskedStart' = AskedStart /\ AskedEnd' = AskedEnd /\ AskedList' = AskedList
  BY <1>2, AskedStays
<1>4. asked.nodes \in Seq(AskedNode) /\ \A i \in 1..Len(asked.nodes) : Taken(asked.nodes[i])
  BY AskedRead
<1>5. PICK p \in [0..Len(asked.nodes) -> Nat] : PlacesIn(p, asked.nodes, AskedList)
  BY <1>4, PlacesExist DEF AskedList
<1>6. p[0] = 0
  BY <1>5 DEF PlacesIn
<1>7. WalkIs'
  <2>1. Len(rounds') = 0 /\ Len(asked.nodes) \in Nat
    BY <1>2, <1>4
  <2>2. Len(rounds') <= Len(asked.nodes) /\ \A i \in 1..Len(rounds') : FALSE
    BY <2>1
  <2>3. offset' = p[Len(rounds')]
    BY <1>2, <1>6, <2>1
  <2> QED BY <1>2, <1>3, <1>5, <2>2, <2>3 DEF WalkIs, GivenBack
<1> QED BY <1>2, <1>3, <1>7 DEF SoundIs, ListIs, ResultIs

\* What the walk stands on.
LEMMA WalkStands ==
  ASSUME TilingInv, AskedIs, Sound, SoundIs, pc = "walk"
  PROVE  /\ List = AskedList /\ rounds \in Seq(RoundRecord) /\ AskedList \in Seq(Nat)
         /\ asked.nodes \in Seq(AskedNode) /\ \A i \in 1..Len(asked.nodes) : Taken(asked.nodes[i])
         /\ Len(rounds) \in 0..Len(asked.nodes) /\ GivenBack(Len(rounds))
         /\ \E p \in [0..Len(asked.nodes) -> Nat] :
              PlacesIn(p, asked.nodes, AskedList) /\ offset = p[Len(rounds)]
<1>1. start = AskedStart /\ end = AskedEnd
  BY DEF SoundIs
<1>2. List = AskedList
  BY <1>1, AskedSlices DEF List
<1>3. /\ asked.nodes \in Seq(AskedNode) /\ \A i \in 1..Len(asked.nodes) : Taken(asked.nodes[i])
      /\ AskedList \in Seq(Nat)
  BY AskedRead
<1>4. rounds \in Seq(RoundRecord)
  BY DEF TilingInv, Typed
<1>5. Len(rounds) <= Len(asked.nodes) /\ GivenBack(Len(rounds))
  BY DEF SoundIs, WalkIs
<1>6. \E p \in [0..Len(asked.nodes) -> Nat] :
         PlacesIn(p, asked.nodes, AskedList) /\ offset = p[Len(rounds)]
  BY DEF SoundIs, WalkIs
<1>7. Len(rounds) \in 0..Len(asked.nodes)
  BY <1>3, <1>4, <1>5
<1> QED BY <1>2, <1>3, <1>4, <1>5, <1>6, <1>7

LEMMA BuiltNode ==
  ASSUME TilingInv, AskedIs, Sound, SoundIs, TakeNode
  PROVE  SoundIs'
<1> DEFINE n == Len(asked.nodes)
           k == Len(rounds)
           r == Round(List, offset)
<1>1. /\ pc = "walk" /\ r.step = "node" /\ rounds' = Append(rounds, r) /\ offset' = offset + r.size
      /\ UNCHANGED <<asked, data, pc, start, end>>
  BY DEF TakeNode, Walking, PayloadSize, input
<1>2. /\ List = AskedList /\ rounds \in Seq(RoundRecord) /\ AskedList \in Seq(Nat)
      /\ asked.nodes \in Seq(AskedNode) /\ \A i \in 1..n : Taken(asked.nodes[i])
      /\ k \in 0..n /\ GivenBack(k)
  BY <1>1, WalkStands
<1>3. PICK p \in [0..n -> Nat] : PlacesIn(p, asked.nodes, AskedList) /\ offset = p[k]
  BY <1>1, WalkStands
<1>4. n \in Nat /\ k \in Nat
  BY <1>2
<1>5. k # n
  <2>1. Round(AskedList, p[n]) = Stop("end")
    BY <1>2, <1>3, RoundAtEnd
  <2>2. Stop("end").step = "end"
    BY DEF Stop
  <2> QED BY <1>1, <1>2, <1>3, <2>1, <2>2
<1>6. k \in 0..(n - 1)
  BY <1>2, <1>4, <1>5
<1>7. /\ NodeAt(Round(AskedList, p[k]), asked.nodes[k + 1], Len(Built(asked.nodes[k + 1])))
      /\ p[k + 1] = p[k] + Len(Built(asked.nodes[k + 1])) /\ k + 1 \in 1..n
  BY <1>2, <1>3, <1>6, RoundAtPlace
<1>8. r.size = Len(Built(asked.nodes[k + 1])) /\ Read(r) = asked.nodes[k + 1]
  BY <1>2, <1>3, <1>7 DEF NodeAt, GivesBack
<1>9. offset' = p[k + 1]
  BY <1>1, <1>3, <1>7, <1>8
<1> HIDE DEF n, k, r
<1>10. /\ Len(rounds') = k + 1 /\ rounds'[k + 1] = r
       /\ \A i \in 1..k : rounds'[i] = rounds[i]
  BY <1>1, <1>2, <1>4 DEF k
<1>11. AskedList' = AskedList /\ AskedStart' = AskedStart /\ AskedEnd' = AskedEnd
  BY <1>1, AskedStays
<1>12. ASSUME NEW i \in 1..(k + 1)
       PROVE  rounds'[i].step = "node" /\ Read(rounds'[i]) = asked.nodes[i]
  <2>1. CASE i = k + 1
    BY <1>1, <1>8, <1>10, <2>1
  <2>2. CASE i # k + 1
    <3>1. i \in 1..k
      BY <1>4, <2>2
    <3> QED BY <1>2, <1>10, <3>1 DEF GivenBack
  <2> QED BY <2>1, <2>2
<1>13. GivenBack(Len(rounds))'
  BY <1>1, <1>10, <1>12 DEF GivenBack
<1>14. WalkIs'
  <2>1. Len(rounds') <= Len(asked'.nodes)
    BY <1>1, <1>4, <1>7, <1>10 DEF n
  <2>2. PlacesIn(p, asked'.nodes, AskedList') /\ offset' = p[Len(rounds')] /\ p \in [0..Len(asked'.nodes) -> Nat]
    BY <1>1, <1>3, <1>9, <1>10, <1>11 DEF n
  <2> QED BY <1>13, <2>1, <2>2 DEF WalkIs
<1> QED BY <1>1, <1>11, <1>14 DEF SoundIs, ListIs, ResultIs

LEMMA BuiltEnd ==
  ASSUME TilingInv, AskedIs, Sound, SoundIs, LeaveList
  PROVE  SoundIs'
<1> DEFINE n == Len(asked.nodes)
           k == Len(rounds)
           r == Round(List, offset)
<1>1. /\ pc = "walk" /\ r.step \in {"end", "raw", "corrupted"} /\ rounds' = Append(rounds, r)
      /\ pc' = "rest" /\ UNCHANGED <<asked, data, start, end>>
  BY DEF LeaveList, Walking, input
<1>2. /\ List = AskedList /\ rounds \in Seq(RoundRecord) /\ AskedList \in Seq(Nat)
      /\ asked.nodes \in Seq(AskedNode) /\ \A i \in 1..n : Taken(asked.nodes[i])
      /\ k \in 0..n /\ GivenBack(k)
  BY <1>1, WalkStands
<1>3. PICK p \in [0..n -> Nat] : PlacesIn(p, asked.nodes, AskedList) /\ offset = p[k]
  BY <1>1, WalkStands
<1>4. n \in Nat /\ k \in Nat
  BY <1>2
<1>5. k = n
  <2>1. SUFFICES ASSUME k # n PROVE FALSE
    OBVIOUS
  <2>2. k \in 0..(n - 1)
    BY <1>2, <1>4, <2>1
  <2>3. NodeAt(Round(AskedList, p[k]), asked.nodes[k + 1], Len(Built(asked.nodes[k + 1])))
    BY <1>2, <1>3, <2>2, RoundAtPlace
  <2>4. r.step = "node"
    BY <1>2, <1>3, <2>3 DEF NodeAt, GivesBack
  <2> QED BY <1>1, <2>4
<1>6. r = Stop("end")
  BY <1>2, <1>3, <1>5, RoundAtEnd
<1> HIDE DEF n, k, r
<1>7. /\ Len(rounds') = n + 1 /\ rounds'[n + 1] = Stop("end")
      /\ \A i \in 1..n : rounds'[i] = rounds[i]
  BY <1>1, <1>2, <1>4, <1>5, <1>6 DEF k
<1>8. AskedStart' = AskedStart /\ AskedEnd' = AskedEnd
  BY <1>1, AskedStays
<1>9. ListIs'
  <2>1. \A i \in 1..n : rounds'[i].step = "node" /\ Read(rounds'[i]) = asked.nodes[i]
    BY <1>2, <1>5, <1>7 DEF GivenBack
  <2> QED BY <1>1, <1>7, <2>1 DEF ListIs, GivenBack, n
<1> QED BY <1>1, <1>8, <1>9 DEF SoundIs, WalkIs, ResultIs

\* The walk of such a list neither raises nor runs out of it.
LEMMA BuiltStops ==
  ASSUME TilingInv, AskedIs, Sound, SoundIs
  PROVE  ~RaiseInList /\ ~ListOver
<1> SUFFICES ASSUME pc = "walk"
             PROVE  Round(List, offset).step # "raises" /\ ~(offset >= Len(List))
  BY DEF RaiseInList, ListOver, Walking
<1> DEFINE n == Len(asked.nodes)
           k == Len(rounds)
<1>2. /\ List = AskedList /\ rounds \in Seq(RoundRecord) /\ AskedList \in Seq(Nat)
      /\ asked.nodes \in Seq(AskedNode) /\ \A i \in 1..n : Taken(asked.nodes[i])
      /\ k \in 0..n
  BY WalkStands
<1>3. PICK p \in [0..n -> Nat] : PlacesIn(p, asked.nodes, AskedList) /\ offset = p[k]
  BY WalkStands
<1>4. n \in Nat /\ k \in Nat /\ Len(AskedList) \in Nat
  BY <1>2
<1>5. CASE k = n
  <2>1. Round(AskedList, p[n]) = Stop("end") /\ p[n] < Len(AskedList) /\ p[n] \in Nat
    BY <1>2, <1>3, RoundAtEnd
  <2>2. Stop("end").step = "end"
    BY DEF Stop
  <2> QED BY <1>2, <1>3, <1>4, <1>5, <2>1, <2>2
<1>6. CASE k # n
  <2>1. k \in 0..(n - 1)
    BY <1>2, <1>4, <1>6
  <2>2. /\ NodeAt(Round(AskedList, p[k]), asked.nodes[k + 1], Len(Built(asked.nodes[k + 1])))
        /\ p[k] < Len(AskedList) /\ p[k] \in Nat
    BY <1>2, <1>3, <2>1, RoundAtPlace
  <2>3. Round(AskedList, p[k]).step = "node"
    BY <2>2 DEF NodeAt, GivesBack
  <2> QED BY <1>2, <1>3, <1>4, <2>2, <2>3
<1> QED BY <1>5, <1>6

LEMMA BuiltRest ==
  ASSUME AskedIs, Sound, SoundIs, TakeRest
  PROVE  SoundIs'
<1>1. pc = "rest" /\ pc' = "done" /\ UNCHANGED <<asked, data, start, end, rounds>>
  BY DEF TakeRest, input
<1>2. start = AskedStart /\ end = AskedEnd
  BY <1>1 DEF SoundIs
<1>3. result' = [description |-> Decode(PySlice(data, 6, AskedStart - 2)), rounds |-> rounds,
                 start |-> AskedStart, end |-> AskedEnd, optdata |-> From(data, AskedEnd)]
  BY <1>2 DEF TakeRest
<1>4. Decode(PySlice(data, 6, AskedStart - 2)) = asked.description
      /\ From(data, AskedEnd) = asked.optdata
  BY AskedSlices
<1>5. AskedStart' = AskedStart /\ AskedEnd' = AskedEnd
  BY <1>1, AskedStays
<1>6. ResultIs'
  BY <1>1, <1>3, <1>4, <1>5 DEF ResultIs
<1>7. ListIs'
  BY <1>1 DEF SoundIs, ListIs, GivenBack
<1> QED BY <1>1, <1>2, <1>5, <1>6, <1>7 DEF SoundIs, WalkIs

LEMMA BuiltStep ==
  ASSUME TilingInv, BuiltInv, [Next]_vars
  PROVE  BuiltInv'
<1>1. UNCHANGED <<asked, data>>
  BY DEF Next, vars, input, TooShort, ListTooLong, Refuse, ReadFields, TakeNode, LeaveList,
         RaiseInList, ListOver, TakeRest
<1>2. AskedIs' /\ (Sound' <=> Sound)
  BY <1>1, AskedStays DEF BuiltInv
<1>3. ASSUME Sound PROVE SoundIs'
  <2>1. AskedIs /\ SoundIs
    BY <1>3 DEF BuiltInv
  <2>2. ~TooShort /\ ~ListTooLong
    BY <1>3, <2>1, AskedSlices DEF TooShort, ListTooLong
  <2>3. ~RaiseInList /\ ~ListOver
    BY <1>3, <2>1, BuiltStops
  <2>4. CASE ReadFields
    BY <1>3, <2>1, <2>4, BuiltFields
  <2>5. CASE TakeNode
    BY <1>3, <2>1, <2>5, BuiltNode
  <2>6. CASE LeaveList
    BY <1>3, <2>1, <2>6, BuiltEnd
  <2>7. CASE TakeRest
    BY <1>3, <2>1, <2>7, BuiltRest
  <2>8. CASE UNCHANGED vars
    <3>1. AskedStart' = AskedStart /\ AskedEnd' = AskedEnd /\ AskedList' = AskedList
      BY <1>1, AskedStays
    <3> QED BY <2>1, <2>8, <3>1 DEF SoundIs, WalkIs, ListIs, ResultIs, GivenBack, vars
  <2> QED BY <2>2, <2>3, <2>4, <2>5, <2>6, <2>7, <2>8 DEF Next
<1> QED BY <1>2, <1>3 DEF BuiltInv

LEMMA BuiltIs ==
  ASSUME TilingInv, BuiltInv
  PROVE  BuiltReadsBack
<1> SUFFICES ASSUME pc \in Ended, asked # NoCells, EarlyPairs(asked.description) = {}
             PROVE  /\ pc = "done" /\ result # Unparsed
                    /\ result.description = asked.description
                    /\ result.optdata = asked.optdata
                    /\ Len(result.rounds) = Len(asked.nodes) + 1
                    /\ Last(result.rounds) = Stop("end")
                    /\ \A i \in 1..Len(asked.nodes) :
                         result.rounds[i].step = "node" /\ Read(result.rounds[i]) = asked.nodes[i]
  BY DEF BuiltReadsBack
<1>1. Sound /\ AskedIs /\ SoundIs
  BY DEF Sound, BuiltInv
<1>2. pc = "done"
  BY <1>1 DEF SoundIs, Ended
<1>3. /\ result = [description |-> asked.description, rounds |-> rounds,
                   start |-> AskedStart, end |-> AskedEnd, optdata |-> asked.optdata]
      /\ Len(rounds) = Len(asked.nodes) + 1 /\ rounds[Len(asked.nodes) + 1] = Stop("end")
      /\ GivenBack(Len(asked.nodes))
  BY <1>1, <1>2 DEF SoundIs, ResultIs, ListIs
<1>4. result \in ParsedOption
  <2>1. /\ AskedStart \in Nat /\ AskedEnd \in Int
        /\ asked.description \in Seq(Nat) /\ asked.optdata \in Seq(Nat)
    BY <1>1, AskedRead
  <2>2. rounds \in Seq(RoundRecord)
    BY DEF TilingInv, Typed
  <2> QED BY <1>3, <2>1, <2>2 DEF ParsedOption
<1>5. result # Unparsed
  BY <1>4, ResultAssumption
<1> QED BY <1>2, <1>3, <1>5 DEF GivenBack, Last

\* What set_evar_BootNNNN puts together of the nodes its builders take, the
\* parser takes apart to the same: the description, every node with its fields,
\* the end node behind them and the optional data.
THEOREM BuiltIsReadBack == Spec => []BuiltReadsBack
BY TilingInit, TilingStep, BuiltInit, BuiltStep, BuiltIs, PTL DEF Spec
=============================================================================
