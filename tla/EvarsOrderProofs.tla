-------------------------- MODULE EvarsOrderProofs --------------------------
(***************************************************************************)
(* Proofs about EvarsOrder, for any number of programs, any names they     *)
(* move and any bytes of BootOrder at the start.                           *)
(*                                                                         *)
(* The invariant has two parts.  One is about the control: what was read   *)
(* is a list of names or None, and a program about to write has a list.    *)
(* The other speaks of every list there is, the boot order, what a program *)
(* read, however long ago, and what it is about to write: each keeps the   *)
(* entries of the start, and lists none twice.  A list with one entry      *)
(* moved to the first place does so again.                                 *)
(***************************************************************************)
EXTENDS EvarsOrder, SequenceTheorems, WellFoundedInduction, TLAPS

\* The two sets of numbers by their bounds.
LEMMA Between ==
  ASSUME NEW m \in Int
  PROVE  \A k : k \in 0..m <=> k \in Int /\ 0 <= k /\ k <= m
OBVIOUS

\* The numbers a byte can hold, by their bounds.
LEMMA ByteBounds == \A k : k \in Byte <=> k \in Int /\ 0 <= k /\ k <= 255
<1>1. PICK m \in Int : m = 255
  OBVIOUS
<1>2. Byte = 0..m
  BY <1>1 DEF Byte
<1>3. \A k : k \in Byte <=> k \in Int /\ 0 <= k /\ k <= m
  BY <1>2, Between
<1> QED BY <1>1, <1>3

\* The same for the numbers a word can hold.
LEMMA WordBounds == \A k : k \in Word <=> k \in Int /\ 0 <= k /\ k <= 65535
<1>1. PICK m \in Int : m = 65535
  OBVIOUS
<1>2. Word = 0..m
  BY <1>1 DEF Word
<1>3. \A k : k \in Word <=> k \in Int /\ 0 <= k /\ k <= m
  BY <1>2, Between
<1> QED BY <1>1, <1>3

\* A 16-bit number is the word made of its two bytes.
LEMMA TwoBytes ==
  ASSUME NEW n \in Word
  PROVE  /\ n % 256 \in Byte
         /\ n \div 256 \in Byte
         /\ n = (n % 256) + 256 * (n \div 256)
<1>1. n \in Int /\ 0 <= n /\ n <= 65535
  BY WordBounds
<1> DEFINE high == n \div 256
           low == n % 256
<1>2. high \in Int /\ 0 <= low /\ low <= 255 /\ low \in Int /\ n = low + 256*high
  BY <1>1
<1> HIDE DEF high, low
<1>3. 0 <= high /\ high <= 255
  BY <1>1, <1>2
<1>4. high \in Byte /\ low \in Byte
  BY <1>2, <1>3, ByteBounds
<1> QED BY <1>2, <1>4 DEF high, low

\* The two bytes of a number are bytes.
LEMMA BytesOfWord ==
  ASSUME NEW n \in Word
  PROVE  /\ LittleEndian(n) \in Seq(Byte) /\ Len(LittleEndian(n)) = 2
         /\ LittleEndian(n)[1] \in Byte /\ LittleEndian(n)[2] \in Byte
         /\ LittleEndian(n)[1] + 256 * LittleEndian(n)[2] = n
BY TwoBytes DEF LittleEndian

\* The four digits of a 16-bit number are digits, and spell that number again.
LEMMA DigitsSpellNumber ==
  ASSUME NEW n \in Word
  PROVE  /\ BootName(n) \in Entry
         /\ EntryValue(BootName(n)) = n
<1> DEFINE high == n \div 256
           low == n % 256
           a == high \div 16
           b == high % 16
           c == low \div 16
           d == low % 16
<1>1. BootName(n) = [kind |-> "str", boot |-> TRUE, rest |-> <<a, b, c, d>>]
  BY DEF BootName
<1>2. high \in Byte /\ low \in Byte /\ n = low + 256*high
  BY TwoBytes
<1> HIDE DEF high, low
<1>3. a \in 0..15 /\ b \in 0..15 /\ high = b + 16*a
  BY <1>2, ByteBounds
<1>4. c \in 0..15 /\ d \in 0..15 /\ low = d + 16*c
  BY <1>2, ByteBounds
<1> HIDE DEF a, b, c, d
<1>5. n = d + 16*c + 256*b + 4096*a
  BY <1>2, <1>3, <1>4
<1>6. <<a, b, c, d>> \in Seq(0..NonHex) /\ Len(<<a, b, c, d>>) = 4
  BY <1>3, <1>4 DEF NonHex
<1>7. HexValue(<<a, b, c, d>>) = d + 16*c + 256*b + 4096*a
  BY <1>3, <1>4, <1>6 DEF HexValue
<1>8. BootName(n) \in Entry
  BY <1>1, <1>6 DEF Entry
<1> QED BY <1>1, <1>5, <1>7, <1>8 DEF EntryValue

\* Two bytes make a word, whose bytes they are.
LEMMA SplitWord ==
  ASSUME NEW x \in Byte, NEW y \in Byte
  PROVE  x + 256*y \in Word /\ LittleEndian(x + 256*y) = <<x, y>>
<1> DEFINE m == x + 256*y
           q == m \div 256
           r == m % 256
<1>1. x \in Int /\ y \in Int /\ 0 <= x /\ x <= 255 /\ 0 <= y /\ y <= 255
  BY ByteBounds
<1>2. m \in Int /\ 0 <= m /\ m <= 65535 /\ m = x + 256*y
  BY <1>1
<1> HIDE DEF m
<1>3. m \in Word
  BY <1>2, WordBounds
<1>4. q \in Byte /\ r \in Byte /\ m = r + 256*q
  BY <1>3, TwoBytes
<1> HIDE DEF q, r
<1>5. q = y /\ r = x
  BY <1>1, <1>2, <1>4, ByteBounds
<1>6. LittleEndian(m) = <<x, y>>
  BY <1>5 DEF q, r, LittleEndian
<1> QED BY <1>3, <1>6 DEF m

\* Writing the word read at place k gives the two bytes that stand there.
LEMMA BytesOfWordAt ==
  ASSUME NEW s \in Seq(Byte), NEW i \in Nat, 1 <= i, 2*i <= Len(s)
  PROVE  /\ WordAt(s, i) \in Word
         /\ LittleEndian(WordAt(s, i)) = <<s[2*i - 1], s[2*i]>>
<1>1. 2*i - 1 \in 1..Len(s) /\ 2*i \in 1..Len(s)
  OBVIOUS
<1>2. s[2*i - 1] \in Byte /\ s[2*i] \in Byte
  BY <1>1
<1> QED BY <1>2, SplitWord DEF WordAt

\* The items of a sequence, and of two of them one behind the other.
LEMMA Items ==
  ASSUME NEW S, NEW r \in Seq(S)
  PROVE  Len(r) \in Nat /\ \A k \in 1..Len(r) : r[k] \in S
OBVIOUS

LEMMA Joined ==
  ASSUME NEW S, NEW r \in Seq(S), NEW s \in Seq(S)
  PROVE  /\ r \o s \in Seq(S) /\ Len(r \o s) = Len(r) + Len(s)
         /\ \A j \in 1..Len(r) : (r \o s)[j] = r[j]
         /\ \A j \in 1..Len(s) : (r \o s)[j + Len(r)] = s[j]
OBVIOUS

\* The number of an accepted name has the name's last four digits, and 0 for each
\* that is missing.
LEMMA NumberSpellsDigits ==
  ASSUME NEW e \in Entry, e.kind = "str", EntryOk(e)
  PROVE  LET n == Len(e.rest)
             digit(k) == IF k < n THEN e.rest[n - k] ELSE 0
         IN  /\ \A k \in 0..3 : digit(k) \in 0..9
             /\ BootName(EntryValue(e)) =
                  [kind |-> "str", boot |-> TRUE,
                   rest |-> <<digit(3), digit(2), digit(1), digit(0)>>]
<1> DEFINE n == Len(e.rest)
           digit(k) == IF k < n THEN e.rest[n - k] ELSE 0
<1>1. n \in Nat /\ \A k \in 1..n : e.rest[k] \in 0..9
  <2>1. e.rest \in Seq(0..16) /\ \A k \in 1..n : e.rest[k] <= 9
    BY DEF Entry, EntryOk, NonHex
  <2>2. n \in Nat /\ \A k \in 1..n : e.rest[k] \in 0..16
    BY <2>1, Items
  <2>3. \A x \in 0..16 : x <= 9 => x \in 0..9
    OBVIOUS
  <2> QED BY Zenon, <2>1, <2>2, <2>3
<1>2. \A k \in 0..4 : digit(k) \in 0..9
  <2>1. ASSUME NEW k \in 0..4, k < n PROVE e.rest[n - k] \in 0..9
    <3>1. n - k \in 1..n
      BY <1>1, <2>1
    <3> QED BY <1>1, <3>1
  <2>2. ASSUME NEW k \in 0..4, ~(k < n) PROVE digit(k) \in 0..9
    BY <2>2
  <2> QED BY <2>1, <2>2, Zenon
<1>3. EntryValue(e) = digit(0) + 16*digit(1) + 256*digit(2) + 4096*digit(3) + 65536*digit(4)
  BY DEF EntryValue, HexValue
<1>4. EntryValue(e) \in Word
  BY DEF EntryOk
<1> HIDE DEF digit, n
<1>5. PICK a \in 0..9, b \in 0..9, c \in 0..9, d \in 0..9, x \in 0..9 :
        a = digit(3) /\ b = digit(2) /\ c = digit(1) /\ d = digit(0) /\ x = digit(4)
  <2>1. /\ digit(0) \in 0..9 /\ digit(1) \in 0..9 /\ digit(2) \in 0..9
        /\ digit(3) \in 0..9 /\ digit(4) \in 0..9
    BY <1>2
  <2> QED BY Zenon, <2>1
<1> DEFINE low == d + 16*c
           high == b + 16*a
           m == low + 256*high
<1>6. EntryValue(e) = m + 65536*x
  BY <1>3, <1>5
<1>7. x = 0 /\ EntryValue(e) = m
  <2>1. EntryValue(e) <= 65535
    BY <1>4, WordBounds
  <2> QED BY <1>6, <2>1
<1>8. low \in 0..255 /\ high \in 0..255
  OBVIOUS
<1>9. high \div 16 = a /\ high % 16 = b /\ low \div 16 = c /\ low % 16 = d
  OBVIOUS
<1> HIDE DEF low, high
<1>10. m \div 256 = high /\ m % 256 = low
  BY <1>8
<1> HIDE DEF m
<1>11. BootName(m).rest = <<high \div 16, high % 16, low \div 16, low % 16>>
  BY <1>10 DEF BootName
<1>12. BootName(m) = [kind |-> "str", boot |-> TRUE, rest |-> BootName(m).rest]
  BY DEF BootName
<1>13. BootName(m).rest = <<a, b, c, d>>
  BY <1>9, <1>11
<1>14. BootName(EntryValue(e)) =
         [kind |-> "str", boot |-> TRUE, rest |-> <<digit(3), digit(2), digit(1), digit(0)>>]
  BY <1>5, <1>7, <1>12, <1>13
<1> QED BY <1>2, <1>14 DEF digit, n

\* The number of an accepted name is accepted when it is read back,
LEMMA AcceptedAgain ==
  ASSUME NEW e \in Entry, e.kind = "str", EntryOk(e)
  PROVE  Encodable(EntryValue(e)) /\ EntryValue(e) \in Word
<1> DEFINE v == EntryValue(e)
<1>1. v \in Word /\ v # 0
  BY DEF EntryOk
<1>2. PICK a \in 0..9, b \in 0..9, c \in 0..9, d \in 0..9 :
        BootName(v) = [kind |-> "str", boot |-> TRUE, rest |-> <<a, b, c, d>>]
  <2> DEFINE n == Len(e.rest)
             digit(k) == IF k < n THEN e.rest[n - k] ELSE 0
  <2>1. /\ \A k \in 0..3 : digit(k) \in 0..9
        /\ BootName(v) = [kind |-> "str", boot |-> TRUE,
                          rest |-> <<digit(3), digit(2), digit(1), digit(0)>>]
    BY NumberSpellsDigits
  <2> HIDE DEF digit
  <2>2. digit(0) \in 0..9 /\ digit(1) \in 0..9 /\ digit(2) \in 0..9 /\ digit(3) \in 0..9
    BY <2>1
  <2> QED BY <2>1, <2>2
<1>3. EntryValue(BootName(v)) = v
  BY <1>1, DigitsSpellNumber
<1> HIDE DEF v
<1>4. /\ BootName(v).boot /\ Len(BootName(v).rest) = 4 /\ BootName(v).kind = "str"
      /\ \A k \in 1..4 : BootName(v).rest[k] <= 9
  BY <1>2
<1>5. EntryOk(BootName(v))
  BY <1>1, <1>3, <1>4 DEF EntryOk
<1> QED BY <1>1, <1>5 DEF Encodable, v

\* and a full name is the only one its number is given.
LEMMA FullNameAgain ==
  ASSUME NEW e \in Entry, e.kind = "str", EntryOk(e)
  PROVE  Len(e.rest) = 4 => BootName(EntryValue(e)) = e
<1>1. PICK r \in Seq(0..16) : e = [kind |-> "str", boot |-> TRUE, rest |-> r]
  BY DEF Entry, EntryOk, NonHex
<1> HAVE Len(e.rest) = 4
<1>2. BootName(EntryValue(e)) =
        [kind |-> "str", boot |-> TRUE, rest |-> <<r[1], r[2], r[3], r[4]>>]
  <2> DEFINE n == Len(r)
             digit(k) == IF k < n THEN r[n - k] ELSE 0
  <2>1. BootName(EntryValue(e)) = [kind |-> "str", boot |-> TRUE,
                                   rest |-> <<digit(3), digit(2), digit(1), digit(0)>>]
    BY <1>1, NumberSpellsDigits
  <2>2. n = 4
    BY <1>1
  <2>3. digit(3) = r[1] /\ digit(2) = r[2] /\ digit(1) = r[3] /\ digit(0) = r[4]
    BY <2>2
  <2> QED BY <2>1, <2>3
<1>3. r = <<r[1], r[2], r[3], r[4]>>
  BY <1>1
<1> QED BY <1>1, <1>2, <1>3

\* The names of a byte string of even length.
LEMMA NamesOfBytes ==
  ASSUME NEW s \in Seq(Byte), Len(s) % 2 = 0
  PROVE  /\ Len(s) \div 2 \in Nat /\ Len(s) = 2 * (Len(s) \div 2)
         /\ ParseBootOrder(s) \in Seq(Entry)
         /\ Len(ParseBootOrder(s)) = Len(s) \div 2
         /\ \A i \in 1..(Len(s) \div 2) :
              /\ ParseBootOrder(s)[i] = BootName(WordAt(s, i))
              /\ WordAt(s, i) \in Word
              /\ LittleEndian(WordAt(s, i)) = <<s[2*i - 1], s[2*i]>>
<1> DEFINE n == Len(s) \div 2
<1>1. n \in Nat /\ Len(s) = 2*n
  OBVIOUS
<1>2. ParseBootOrder(s) = [i \in 1..n |-> BootName(WordAt(s, i))]
  BY DEF ParseBootOrder
<1> HIDE DEF n
<1>3. ASSUME NEW i \in 1..n
      PROVE  /\ WordAt(s, i) \in Word
             /\ LittleEndian(WordAt(s, i)) = <<s[2*i - 1], s[2*i]>>
             /\ BootName(WordAt(s, i)) \in Entry
  <2>1. i \in Nat /\ 1 <= i /\ 2*i <= Len(s)
    BY <1>1
  <2> QED BY <2>1, BytesOfWordAt, DigitsSpellNumber
<1>4. ParseBootOrder(s) \in Seq(Entry) /\ Len(ParseBootOrder(s)) = n
  BY <1>1, <1>2, <1>3
<1> QED BY <1>1, <1>2, <1>3, <1>4 DEF n

\* The places of a list and of its bytes.
LEMMA Places ==
  ASSUME NEW n \in Nat, NEW j \in 1..(2*n)
  PROVE  /\ (j + 1) \div 2 \in 1..n
         /\ \/ j % 2 = 1 /\ 2 - (j % 2) = 1 /\ j = 2*((j + 1) \div 2) - 1
            \/ j % 2 = 0 /\ 2 - (j % 2) = 2 /\ j = 2*((j + 1) \div 2)
OBVIOUS

\* What is built of a list is bytes or None.
LEMMA BuiltBytes ==
  ASSUME NEW es \in Seq(Entry), BuildBootOrder(es) # None
  PROVE  /\ BuildBootOrder(es) \in Seq(Byte)
         /\ Len(BuildBootOrder(es)) = 2 * Len(es)
         /\ \A i \in 1..Len(es) : EntryOk(es[i])
<1> DEFINE n == Len(es)
           byte(j) == LittleEndian(EntryValue(es[(j + 1) \div 2]))[2 - (j % 2)]
<1>1. n \in Nat
  OBVIOUS
<1>2. /\ \A i \in 1..n : EntryOk(es[i])
      /\ BuildBootOrder(es) = [j \in 1..(2*n) |-> byte(j)]
  BY DEF BuildBootOrder
<1> HIDE DEF n
<1>3. ASSUME NEW j \in 1..(2*n) PROVE byte(j) \in Byte
  <2> DEFINE i == (j + 1) \div 2
  <2>1. i \in 1..n /\ (2 - (j % 2) = 1 \/ 2 - (j % 2) = 2)
    BY <1>1, Places
  <2> HIDE DEF i
  <2>2. EntryValue(es[i]) \in Word
    BY <2>1, <1>2 DEF EntryOk
  <2>3. LittleEndian(EntryValue(es[i]))[1] \in Byte /\ LittleEndian(EntryValue(es[i]))[2] \in Byte
    BY <2>2, BytesOfWord
  <2> QED BY <2>1, <2>3 DEF i
<1> HIDE DEF byte
<1>4. 2*n \in Nat
  BY <1>1
<1>5. BuildBootOrder(es) \in Seq(Byte) /\ Len(BuildBootOrder(es)) = 2*n
  BY <1>2, <1>3, <1>4
<1> QED BY <1>2, <1>5 DEF n

\* What is read is a list of names or None.
LEMMA ReadsNames ==
  ASSUME NEW s \in Seq(Byte)
  PROVE  ParseBootOrder(s) \in Seq(Entry) \cup {None}
<1>1. CASE Len(s) % 2 = 0
  BY <1>1, NamesOfBytes
<1>2. CASE Len(s) % 2 # 0
  BY <1>2 DEF ParseBootOrder
<1> QED BY <1>1, <1>2

\* The number of a name BootNext takes.
LEMMA NumberOfNext ==
  ASSUME NEW e \in Entry, e.kind = "str", NextName(e), Numeric(e.rest)
  PROVE  LittleEndian(HexValue(e.rest)) \in Seq(Byte) \ {<<>>}
<1>1. e.rest \in Seq(0..16) /\ \A k \in 1..Len(e.rest) : e.rest[k] # 16
  BY DEF Entry, Numeric, NonHex
<1>2. \A k \in 1..Len(e.rest) : e.rest[k] \in 0..16
  BY <1>1, Items
<1>3. PICK a \in 0..15, b \in 0..15, c \in 0..15, d \in 0..15 :
        a = e.rest[1] /\ b = e.rest[2] /\ c = e.rest[3] /\ d = e.rest[4]
  <2>1. \A k \in 1..4 : e.rest[k] \in 0..16 /\ e.rest[k] # 16
    BY <1>1, <1>2 DEF NextName
  <2>2. \A x \in 0..16 : x # 16 => x \in 0..15
    OBVIOUS
  <2>3. \A k \in 1..4 : e.rest[k] \in 0..15
    BY <2>1, <2>2
  <2>4. e.rest[1] \in 0..15 /\ e.rest[2] \in 0..15 /\ e.rest[3] \in 0..15 /\ e.rest[4] \in 0..15
    BY <2>3
  <2> QED BY Zenon, <2>4
<1>4. HexValue(e.rest) = d + 16*c + 256*b + 4096*a
  <2>1. Len(e.rest) = 4
    BY DEF NextName
  <2> QED BY <1>3, <2>1 DEF HexValue
<1>5. HexValue(e.rest) \in Word
  <2> DEFINE low == d + 16*c
             high == b + 16*a
  <2>1. low \in 0..255 /\ high \in 0..255
    OBVIOUS
  <2>2. HexValue(e.rest) = low + 256*high
    BY <1>4
  <2> HIDE DEF low, high
  <2>3. low \in Byte /\ high \in Byte
    BY <2>1 DEF Byte
  <2> QED BY <2>2, <2>3, SplitWord
<1>6. /\ LittleEndian(HexValue(e.rest)) \in Seq(Byte)
      /\ Len(LittleEndian(HexValue(e.rest))) = 2
  BY <1>5, BytesOfWord
<1>7. LittleEndian(HexValue(e.rest)) # <<>>
  BY DEF LittleEndian
<1> QED BY <1>6, <1>7

\* A set of numbers that has an element has a least one.
LEMMA HasLeast ==
  ASSUME NEW T, T \subseteq Nat, T # {}
  PROVE  \E x \in T : \A y \in T : x <= y
<1> DEFINE R == OpToRel(<, Nat)
<1>1. IsWellFoundedOn(R, Nat)
  BY Zenon, NatLessThanWellFounded
<1>2. \A x, y \in Nat : <<y, x>> \in R <=> y < x
  BY DEF OpToRel
<1> HIDE DEF R
<1>3. PICK x \in T : \A y \in T : ~(<<y, x>> \in R)
  BY <1>1, WFMin
<1>4. ASSUME NEW y \in T PROVE x <= y
  <2>1. x \in Nat /\ y \in Nat /\ ~(y < x)
    BY <1>2, <1>3
  <2> QED BY <2>1
<1> QED BY <1>4

-----------------------------------------------------------------------------
(***************************************************************************)
(* Lists of names, read, changed and written.                              *)
(***************************************************************************)
\* The names of l can be written.
Writable(l) == l \in Seq(Entry) /\ \A i \in 1..Len(l) : l[i].kind = "str" /\ EntryOk(l[i])
Full(l) == \A i \in 1..Len(l) : Len(l[i].rest) = 4
Once(l) == \A i, j \in 1..Len(l) : EntryValue(l[i]) = EntryValue(l[j]) => i = j

\* The numbers of a byte string can all be written again.
Rewritable(s) == /\ s \in Seq(Byte) /\ Len(s) % 2 = 0
                 /\ \A i \in 1..(Len(s) \div 2) : Encodable(WordAt(s, i))

\* What is read of such bytes.
LEMMA ReadAgain ==
  ASSUME NEW s, Rewritable(s)
  PROVE  LET l == ParseBootOrder(s)
         IN  /\ Writable(l) /\ Full(l) /\ Len(l) = Count(s) /\ Count(s) \in Nat
             /\ \A i \in 1..Len(l) : EntryValue(l[i]) = WordAt(s, i)
<1> DEFINE l == ParseBootOrder(s)
           n == Count(s)
<1>1. /\ n \in Nat /\ l \in Seq(Entry) /\ Len(l) = n
      /\ \A i \in 1..n : l[i] = BootName(WordAt(s, i)) /\ WordAt(s, i) \in Word
                         /\ Encodable(WordAt(s, i))
  BY NamesOfBytes DEF Rewritable, Count
<1> HIDE DEF l, n
<1>2. ASSUME NEW i \in 1..n
      PROVE  /\ l[i].kind = "str" /\ EntryOk(l[i]) /\ Len(l[i].rest) = 4
             /\ EntryValue(l[i]) = WordAt(s, i)
  <2>1. l[i] = BootName(WordAt(s, i)) /\ WordAt(s, i) \in Word /\ EntryOk(l[i])
    BY <1>1 DEF Encodable
  <2>2. l[i].kind = "str" /\ Len(l[i].rest) = 4
    BY <2>1 DEF BootName
  <2> QED BY <2>1, <2>2, DigitsSpellNumber
<1> QED BY <1>1, <1>2 DEF Writable, Full, l, n

\* What is built of a list that can be written.
LEMMA BuiltWords ==
  ASSUME NEW l, Writable(l)
  PROVE  LET s == BuildBootOrder(l)
         IN  /\ s # None /\ Rewritable(s) /\ Len(s) = 2 * Len(l) /\ Count(s) = Len(l)
             /\ \A i \in 1..Len(l) : WordAt(s, i) = EntryValue(l[i])
<1> DEFINE s == BuildBootOrder(l)
           n == Len(l)
           byte(j) == LittleEndian(EntryValue(l[(j + 1) \div 2]))[2 - (j % 2)]
<1>1. /\ l \in Seq(Entry) /\ n \in Nat
      /\ \A i \in 1..n : l[i] \in Entry /\ l[i].kind = "str" /\ EntryOk(l[i])
  BY DEF Writable
<1>2. s = [j \in 1..(2*n) |-> byte(j)]
  BY <1>1 DEF BuildBootOrder
<1>3. s # None
  <2>1. BuildBootOrder(l) \in Seq(Byte)
    <3>1. ASSUME NEW j \in 1..(2*n) PROVE byte(j) \in Byte
      <4> DEFINE i == (j + 1) \div 2
      <4>1. i \in 1..n /\ (2 - (j % 2) = 1 \/ 2 - (j % 2) = 2)
        BY <1>1, Places
      <4>2. byte(j) = LittleEndian(EntryValue(l[i]))[2 - (j % 2)]
        OBVIOUS
      <4> HIDE DEF i, byte, n, s
      <4>3. EntryValue(l[i]) \in Word
        BY <4>1, <1>1 DEF EntryOk
      <4>4. LittleEndian(EntryValue(l[i]))[1] \in Byte /\ LittleEndian(EntryValue(l[i]))[2] \in Byte
        BY <4>3, BytesOfWord
      <4> QED BY <4>1, <4>2, <4>4
    <3>2. 2*n \in Nat
      BY <1>1
    <3> HIDE DEF byte, n
    <3> QED BY <1>2, <3>1, <3>2
  <2> QED BY <2>1, NoneAssumption
<1>4. s \in Seq(Byte) /\ Len(s) = 2*n
  BY <1>1, <1>3, BuiltBytes
<1>5. \A j \in 1..(2*n) : s[j] = byte(j)
  BY <1>2
<1> HIDE DEF s, n
<1>6. Len(s) % 2 = 0 /\ Len(s) \div 2 = n
  BY <1>1, <1>4
<1>7. ASSUME NEW i \in 1..n PROVE WordAt(s, i) = EntryValue(l[i]) /\ Encodable(EntryValue(l[i]))
  <2>1. EntryValue(l[i]) \in Word /\ Encodable(EntryValue(l[i]))
    BY <1>1, AcceptedAgain
  <2>2. 2*i - 1 \in 1..(2*n) /\ 2*i \in 1..(2*n)
    BY <1>1
  <2>3. byte(2*i - 1) = LittleEndian(EntryValue(l[i]))[1]
    <3>1. (2*i - 1 + 1) \div 2 = i /\ 2 - ((2*i - 1) % 2) = 1
      BY <1>1
    <3> QED BY <3>1
  <2>4. byte(2*i) = LittleEndian(EntryValue(l[i]))[2]
    <3>1. (2*i + 1) \div 2 = i
      BY <1>1
    <3>2. (2*i) % 2 = 0
      BY <1>1
    <3> QED BY <3>1, <3>2
  <2> HIDE DEF byte
  <2>5. s[2*i - 1] = LittleEndian(EntryValue(l[i]))[1] /\ s[2*i] = LittleEndian(EntryValue(l[i]))[2]
    BY <1>5, <2>2, <2>3, <2>4
  <2> QED BY <2>1, <2>5, BytesOfWord DEF WordAt
<1> HIDE DEF byte
<1>8. Rewritable(s)
  BY <1>4, <1>6, <1>7 DEF Rewritable
<1> QED BY <1>3, <1>4, <1>6, <1>7, <1>8 DEF s, n, Count

\* A list without the first occurrence of e.
LEMMA RemovedIs ==
  ASSUME NEW S, NEW l \in Seq(S), NEW e
  PROVE  LET r == RemoveFirst(l, e)
         IN  \/ (\A i \in 1..Len(l) : l[i] # e) /\ r = l
             \/ \E k \in 1..Len(l) :
                  /\ l[k] = e /\ r \in Seq(S) /\ Len(r) = Len(l) - 1
                  /\ \A j \in 1..Len(r) : r[j] = IF j < k THEN l[j] ELSE l[j + 1]
<1> DEFINE I == {i \in 1..Len(l) : l[i] = e}
<1>1. CASE I = {}
  <2>1. \A i \in 1..Len(l) : l[i] # e
    BY <1>1
  <2> QED BY <2>1 DEF RemoveFirst
<1>2. CASE I # {}
  <2> DEFINE k == Min(I)
  <2>1. I \subseteq Nat
    OBVIOUS
  <2>2. \E x \in I : \A y \in I : x <= y
    <3> HIDE DEF I
    <3> QED BY <1>2, <2>1, HasLeast
  <2>3. k \in I
    <3> HIDE DEF I
    <3> QED BY <2>2 DEF Min
  <2>4. k \in 1..Len(l) /\ l[k] = e
    BY <2>3
  <2>5. SelectInSeq(l, LAMBDA v : v = e) = k
    BY <1>2 DEF SelectInSeq
  <2>6. RemoveFirst(l, e) = RemoveAt(l, k)
    BY <2>4, <2>5 DEF RemoveFirst
  <2> HIDE DEF k, I
  <2>7. RemoveAt(l, k) = SubSeq(l, 1, k - 1) \o SubSeq(l, k + 1, Len(l))
    BY DEF RemoveAt
  <2> DEFINE r == RemoveAt(l, k)
             u == SubSeq(l, 1, k - 1)
             v == SubSeq(l, k + 1, Len(l))
  <2>8. /\ u \in Seq(S) /\ Len(u) = k - 1
        /\ \A j \in 1..(k - 1) : u[j] = l[j]
    BY <2>4
  <2>9. /\ v \in Seq(S) /\ Len(v) = Len(l) - k
        /\ \A j \in 1..(Len(l) - k) : v[j] = l[j + k]
    BY <2>4
  <2>10. k \in Nat /\ Len(l) \in Nat
    BY <2>4
  <2> HIDE DEF u, v
  <2>11. /\ u \o v \in Seq(S) /\ Len(u \o v) = Len(u) + Len(v)
         /\ \A j \in 1..Len(u) : (u \o v)[j] = u[j]
         /\ \A j \in 1..Len(v) : (u \o v)[j + Len(u)] = v[j]
    <3>1. u \in Seq(S) /\ v \in Seq(S)
      BY <2>8, <2>9
    <3> QED BY ONLY <3>1, Joined
  <2>12. /\ u \o v \in Seq(S) /\ Len(u \o v) = (k - 1) + (Len(l) - k)
         /\ \A j \in 1..(k - 1) : (u \o v)[j] = u[j]
         /\ \A j \in 1..(Len(l) - k) : (u \o v)[j + (k - 1)] = v[j]
    BY <2>8, <2>9, <2>11
  <2>13. r = u \o v
    BY <2>7 DEF u, v
  <2> HIDE DEF r
  <2>14. r \in Seq(S) /\ Len(r) = Len(l) - 1
    BY <2>10, <2>12, <2>13
  <2>15. ASSUME NEW j \in 1..Len(r) PROVE r[j] = IF j < k THEN l[j] ELSE l[j + 1]
    <3>1. CASE j < k
      <4>1. j \in 1..(k - 1)
        BY <2>10, <2>14, <3>1
      <4> QED BY <2>8, <2>12, <2>13, <3>1, <4>1
    <3>2. CASE ~(j < k)
      <4> DEFINE m == j - (k - 1)
      <4>1. m \in 1..(Len(l) - k) /\ m + (k - 1) = j /\ m + k = j + 1
        BY <2>10, <2>14, <3>2
      <4> QED BY <2>9, <2>12, <2>13, <3>2, <4>1
    <3> QED BY <3>1, <3>2
  <2> QED BY <2>4, <2>6, <2>14, <2>15 DEF r
<1> QED BY <1>1, <1>2

\* The same by the places the other entries had.
LEMMA RemovedFrom ==
  ASSUME NEW S, NEW l \in Seq(S), NEW e
  PROVE  LET r == RemoveFirst(l, e)
         IN  /\ r \in Seq(S) /\ Len(r) \in Nat
             /\ \E from \in [1..Len(r) -> 1..Len(l)] :
                  /\ \A j \in 1..Len(r) : r[j] = l[from[j]]
                  /\ \A j, h \in 1..Len(r) : j < h => from[j] < from[h]
                  /\ \A i \in 1..Len(l) : l[i] # e => \E j \in 1..Len(r) : from[j] = i
                  /\ (\E i \in 1..Len(l) : l[i] = e) =>
                       \E k \in 1..Len(l) : l[k] = e /\ \A j \in 1..Len(r) : from[j] # k
<1> DEFINE r == RemoveFirst(l, e)
           n == Len(l)
<1>1. \/ (\A i \in 1..n : l[i] # e) /\ r = l
      \/ \E k \in 1..n : /\ l[k] = e /\ r \in Seq(S) /\ Len(r) = n - 1
                         /\ \A j \in 1..Len(r) : r[j] = IF j < k THEN l[j] ELSE l[j + 1]
  BY RemovedIs
<1>2. n \in Nat
  OBVIOUS
<1> HIDE DEF r
<1>3. CASE (\A i \in 1..n : l[i] # e) /\ r = l
  <2> DEFINE from == [j \in 1..n |-> j]
  <2>1. from \in [1..n -> 1..n] /\ \A j \in 1..n : from[j] = j
    OBVIOUS
  <2> HIDE DEF from
  <2>2. /\ \A j \in 1..n : r[j] = l[from[j]]
        /\ \A j, h \in 1..n : j < h => from[j] < from[h]
        /\ \A i \in 1..n : l[i] # e => \E j \in 1..n : from[j] = i
    BY <1>3, <2>1
  <2>3. ~ \E i \in 1..n : l[i] = e
    BY <1>3
  <2> QED BY <1>2, <1>3, <2>1, <2>2, <2>3 DEF r
<1>4. ASSUME NEW k \in 1..n, l[k] = e, r \in Seq(S), Len(r) = n - 1,
             \A j \in 1..Len(r) : r[j] = IF j < k THEN l[j] ELSE l[j + 1]
      PROVE  /\ r \in Seq(S) /\ Len(r) \in Nat
             /\ \E from \in [1..Len(r) -> 1..n] :
                  /\ \A j \in 1..Len(r) : r[j] = l[from[j]]
                  /\ \A j, h \in 1..Len(r) : j < h => from[j] < from[h]
                  /\ \A i \in 1..n : l[i] # e => \E j \in 1..Len(r) : from[j] = i
                  /\ \A j \in 1..Len(r) : from[j] # k
  <2> DEFINE from == [j \in 1..Len(r) |-> IF j < k THEN j ELSE j + 1]
  <2> HIDE DEF n
  <2>0. k \in Nat /\ 1 <= k /\ k <= n
    BY <1>2
  <2>1. \A j \in 1..Len(r) : from[j] = IF j < k THEN j ELSE j + 1
    OBVIOUS
  <2>2. from \in [1..Len(r) -> 1..n]
    <3>1. ASSUME NEW j \in 1..Len(r) PROVE (IF j < k THEN j ELSE j + 1) \in 1..n
      BY <1>2, <1>4, <2>0
    <3> QED BY <3>1
  <2> HIDE DEF from
  <2>3. \A j \in 1..Len(r) : r[j] = l[from[j]]
    BY <1>4, <2>1
  <2>4. \A j, h \in 1..Len(r) : j < h => from[j] < from[h]
    BY <1>2, <1>4, <2>0, <2>1
  <2>5. ASSUME NEW i \in 1..n, l[i] # e PROVE \E j \in 1..Len(r) : from[j] = i
    <3>1. CASE i < k
      <4>1. i \in 1..Len(r) /\ from[i] = i
        BY <1>2, <1>4, <2>0, <2>1, <3>1
      <4> QED BY <4>1
    <3>2. CASE ~(i < k)
      <4>1. i # k
        BY <1>4, <2>5
      <4>2. i - 1 \in 1..Len(r) /\ ~(i - 1 < k) /\ (i - 1) + 1 = i
        BY <1>2, <1>4, <2>0, <3>2, <4>1
      <4>3. from[i - 1] = i
        BY <2>1, <4>2
      <4> QED BY <4>2, <4>3
    <3> QED BY <3>1, <3>2
  <2>6. \A j \in 1..Len(r) : from[j] # k
    BY <1>2, <1>4, <2>0, <2>1
  <2>7. Len(r) \in Nat
    BY <1>4
  <2> QED BY <1>4, <2>2, <2>3, <2>4, <2>5, <2>6, <2>7
<1> HIDE DEF n
<1>5. CASE \E k \in 1..n : /\ l[k] = e /\ r \in Seq(S) /\ Len(r) = n - 1
                           /\ \A j \in 1..Len(r) : r[j] = IF j < k THEN l[j] ELSE l[j + 1]
  <2>1. PICK k \in 1..n : /\ l[k] = e /\ r \in Seq(S) /\ Len(r) = n - 1
                          /\ \A j \in 1..Len(r) : r[j] = IF j < k THEN l[j] ELSE l[j + 1]
    BY <1>5
  <2>2. /\ r \in Seq(S) /\ Len(r) \in Nat
        /\ \E from \in [1..Len(r) -> 1..n] :
             /\ \A j \in 1..Len(r) : r[j] = l[from[j]]
             /\ \A j, h \in 1..Len(r) : j < h => from[j] < from[h]
             /\ \A i \in 1..n : l[i] # e => \E j \in 1..Len(r) : from[j] = i
             /\ \A j \in 1..Len(r) : from[j] # k
    BY <1>4, <2>1
  <2> QED BY Zenon, <2>1, <2>2 DEF r, n
<1> QED BY <1>1, <1>3, <1>5

\* A list with e moved to the first place.
LEMMA InFrontIs ==
  ASSUME NEW l, Writable(l), NEW e \in Strs, EntryOk(e)
  PROVE  LET m == InFront(e, l)
         IN  /\ Writable(m) /\ Len(m) \in Nat /\ 1 \in 1..Len(m) /\ m[1] = e
             /\ \A i \in 1..Len(l) : \E j \in 1..Len(m) : m[j] = l[i]
             /\ \A i, k \in 1..Len(l) : i < k /\ l[i] # e /\ l[k] # e =>
                  \E j, h \in 1..Len(m) : j < h /\ m[j] = l[i] /\ m[h] = l[k]
             /\ Full(l) /\ Once(l) /\ Len(e.rest) = 4 => Full(m) /\ Once(m)
<1> DEFINE r == RemoveFirst(l, e)
           m == InFront(e, l)
           n == Len(l)
           ok(x) == x \in Entry /\ x.kind = "str" /\ EntryOk(x)
<1>1. l \in Seq(Entry) /\ n \in Nat /\ ok(e) /\ \A i \in 1..n : ok(l[i])
  BY DEF Writable, Strs
<1>2. /\ r \in Seq(Entry) /\ Len(r) \in Nat
      /\ \E from \in [1..Len(r) -> 1..Len(l)] :
           /\ \A j \in 1..Len(r) : r[j] = l[from[j]]
           /\ \A j, h \in 1..Len(r) : j < h => from[j] < from[h]
           /\ \A i \in 1..Len(l) : l[i] # e => \E j \in 1..Len(r) : from[j] = i
           /\ (\E i \in 1..Len(l) : l[i] = e) =>
                \E k \in 1..Len(l) : l[k] = e /\ \A j \in 1..Len(r) : from[j] # k
  <2>1. l \in Seq(Entry)
    BY <1>1
  <2> QED BY ONLY <2>1, RemovedFrom
<1>3. r \in Seq(Entry) /\ Len(r) \in Nat
  BY <1>2
<1>4. m = <<e>> \o r
  BY DEF InFront
<1> HIDE DEF r, m
<1>4a. PICK from \in [1..Len(r) -> 1..n] :
        /\ \A j \in 1..Len(r) : r[j] = l[from[j]]
        /\ \A j, h \in 1..Len(r) : j < h => from[j] < from[h]
        /\ \A i \in 1..n : l[i] # e => \E j \in 1..Len(r) : from[j] = i
        /\ (\E i \in 1..n : l[i] = e) =>
             \E k \in 1..n : l[k] = e /\ \A j \in 1..Len(r) : from[j] # k
  BY <1>2
<1> HIDE DEF n
<1>5. <<e>> \in Seq(Entry) /\ Len(<<e>>) = 1 /\ <<e>>[1] = e
  BY <1>1
<1> HIDE DEF ok
<1>6. /\ m \in Seq(Entry) /\ Len(m) = 1 + Len(r) /\ m[1] = e
      /\ \A j \in 1..Len(r) : m[j + 1] = r[j]
  <2>1. /\ <<e>> \o r \in Seq(Entry) /\ Len(<<e>> \o r) = Len(<<e>>) + Len(r)
        /\ \A j \in 1..Len(<<e>>) : (<<e>> \o r)[j] = <<e>>[j]
        /\ \A j \in 1..Len(r) : (<<e>> \o r)[j + Len(<<e>>)] = r[j]
    BY ONLY <1>3, <1>5, Joined
  <2>2. 1 \in 1..Len(<<e>>)
    BY <1>5
  <2> QED BY <1>4, <1>5, <2>1, <2>2
<1>7. \A j \in 1..Len(r) : j + 1 \in 1..Len(m) /\ m[j + 1] = l[from[j]] /\ from[j] \in 1..n
  BY <1>4a, <1>3, <1>6
<1>8. \A j \in 1..Len(m) : j = 1 \/ (j - 1 \in 1..Len(r) /\ m[j] = l[from[j - 1]])
  <2> TAKE j \in 1..Len(m)
  <2> SUFFICES ASSUME j # 1 PROVE j - 1 \in 1..Len(r) /\ m[j] = l[from[j - 1]]
    OBVIOUS
  <2>1. j - 1 \in 1..Len(r) /\ (j - 1) + 1 = j
    BY <1>3, <1>6
  <2> QED BY <1>7, <2>1
<1>9. 1 \in 1..Len(m) /\ Len(m) \in Nat
  BY <1>3, <1>6
<1>10. ASSUME NEW j \in 1..Len(m) PROVE ok(m[j])
  <2>1. CASE j = 1
    BY <1>1, <1>6, <2>1
  <2>2. CASE j # 1
    BY <1>1, <1>7, <1>8, <2>2
  <2> QED BY <2>1, <2>2
<1>11. ASSUME NEW i \in 1..n PROVE \E j \in 1..Len(m) : m[j] = l[i]
  <2>1. CASE l[i] = e
    BY <1>6, <1>9, <2>1
  <2>2. CASE l[i] # e
    BY <1>4a, <1>7, <2>2
  <2> QED BY <2>1, <2>2
<1>12. ASSUME NEW i \in 1..n, NEW k \in 1..n, i < k, l[i] # e, l[k] # e
       PROVE  \E j, h \in 1..Len(m) : j < h /\ m[j] = l[i] /\ m[h] = l[k]
  <2>1. PICK j \in 1..Len(r), h \in 1..Len(r) : from[j] = i /\ from[h] = k
    BY <1>4a, <1>12
  <2>2. j < h
    <3>1. ~(h < j)
      <4> SUFFICES ASSUME h < j PROVE FALSE
        OBVIOUS
      <4>1. k < i
        BY <1>4a, <2>1
      <4> QED BY <1>1, <1>12, <4>1
    <3>2. h # j
      BY <1>1, <1>12, <2>1
    <3> QED BY <1>3, <3>1, <3>2
  <2>3. j + 1 < h + 1
    BY <1>3, <2>2
  <2> QED BY <1>7, <2>1, <2>3
<1>13. ASSUME Full(l), Once(l), Len(e.rest) = 4 PROVE Full(m) /\ Once(m)
  <2>1. ASSUME NEW j \in 1..Len(m) PROVE Len(m[j].rest) = 4
    <3>1. CASE j = 1
      BY <1>6, <1>13, <3>1
    <3>2. CASE j # 1
      BY <1>7, <1>8, <1>13, <3>2 DEF Full, n
    <3> QED BY <3>1, <3>2
  <2>2. \A i, j \in 1..n : EntryValue(l[i]) = EntryValue(l[j]) => i = j
    BY <1>13 DEF Once, n
  <2>3. ASSUME NEW i \in 1..n, EntryValue(l[i]) = EntryValue(e) PROVE l[i] = e
    <3>1. Len(l[i].rest) = 4
      BY <1>13 DEF Full, n
    <3>2. BootName(EntryValue(l[i])) = l[i] /\ BootName(EntryValue(e)) = e
      <4>1. ok(l[i]) /\ ok(e)
        BY <1>1
      <4> QED BY <1>13, <3>1, <4>1, FullNameAgain DEF ok
    <3> QED BY <2>3, <3>2
  \* No other entry has the number of e.
  <2>4. ASSUME NEW j \in 1..Len(r) PROVE EntryValue(l[from[j]]) # EntryValue(e)
    <3> SUFFICES ASSUME EntryValue(l[from[j]]) = EntryValue(e) PROVE FALSE
      OBVIOUS
    <3>1. from[j] \in 1..n /\ l[from[j]] = e
      BY <1>7, <2>3
    <3>2. PICK k \in 1..n : l[k] = e /\ \A h \in 1..Len(r) : from[h] # k
      BY <1>4a, <3>1
    <3>3. from[j] = k
      BY <2>2, <3>1, <3>2
    <3> QED BY <3>2, <3>3
  <2>5. ASSUME NEW i \in 1..Len(m), NEW j \in 1..Len(m), EntryValue(m[i]) = EntryValue(m[j])
        PROVE  i = j
    <3>1. CASE i = 1 /\ j = 1
      BY <3>1
    <3>2. CASE i = 1 /\ j # 1
      BY <1>6, <1>8, <2>4, <2>5, <3>2
    <3>3. CASE i # 1 /\ j = 1
      BY <1>6, <1>8, <2>4, <2>5, <3>3
    <3>4. CASE i # 1 /\ j # 1
      <4> DEFINE u == i - 1
                 v == j - 1
      <4>1. /\ u \in 1..Len(r) /\ v \in 1..Len(r)
            /\ m[i] = l[from[u]] /\ m[j] = l[from[v]]
        BY <1>8, <3>4
      <4> HIDE DEF u, v
      <4>2. from[u] \in 1..n /\ from[v] \in 1..n /\ from[u] = from[v]
        BY <1>7, <2>2, <2>5, <4>1
      <4>3. ~(from[u] < from[v]) /\ ~(from[v] < from[u])
        BY <1>1, <4>2
      <4>4. ~(u < v) /\ ~(v < u)
        BY <1>4a, <4>1, <4>3
      <4>5. u = v
        BY <1>3, <4>1, <4>4
      <4> QED BY <4>5 DEF u, v
    <3> QED BY <3>1, <3>2, <3>3, <3>4
  <2> QED BY <2>1, <2>5 DEF Full, Once
<1>14. Writable(m)
  BY <1>6, <1>10 DEF Writable, ok
<1>15. /\ \A i \in 1..n : \E j \in 1..Len(m) : m[j] = l[i]
       /\ \A i, k \in 1..n : i < k /\ l[i] # e /\ l[k] # e =>
            \E j, h \in 1..Len(m) : j < h /\ m[j] = l[i] /\ m[h] = l[k]
  BY <1>11, <1>12
<1> QED BY Zenon, <1>6, <1>9, <1>13, <1>14, <1>15 DEF m, n

-----------------------------------------------------------------------------
(***************************************************************************)
(* The invariants.                                                         *)
(***************************************************************************)
\* A program that has not read holds no list, one about to write has a list, and the
\* first name of a list to write is one a program moved there.
CtlInv == /\ TypeOK
          /\ \A p \in Procs : pc[p] = "start" => seen[p] = None /\ names[p] = None
          /\ \A p \in Procs : pc[p] = "holds" => names[p] = None
          /\ \A p \in Procs : pc[p] = "set" => names[p] # None
          /\ \A p \in Procs : names[p] # None => 1 \in 1..Len(names[p]) /\ names[p][1] \in Entries

\* The list l has the numbers of the bytes s, those none of the names of first has in
\* their order.
Holds(l, s) == \A i \in 1..Count(s) : \E j \in 1..Len(l) : EntryValue(l[j]) = WordAt(s, i)
Other(n, first) == \A e \in first : EntryValue(e) # n
InOrder(l, s, first) ==
    \A i, k \in 1..Count(s) :
      i < k /\ Other(WordAt(s, i), first) /\ Other(WordAt(s, k), first) =>
        \E j, h \in 1..Len(l) :
          j < h /\ EntryValue(l[j]) = WordAt(s, i) /\ EntryValue(l[h]) = WordAt(s, k)
Keeps(l, s, first) == Holds(l, s) /\ InOrder(l, s, first)

\* What EntriesKept and NoRepeats ask of the start and of the names moved.
Sound(s, first) == AllEncodable(s) /\ \A e \in first : EntryOk(e)
Single(s, first) == /\ Sound(s, first) /\ Distinct(s)
                    /\ \A e \in first : Len(e.rest) = 4

\* The lists there are.
Lists == {seen[p] : p \in {q \in Procs : seen[q] # None}}
           \cup {names[p] : p \in {q \in Procs : names[q] # None}}

PastInv ==
    /\ Sound(initial, First) =>
         /\ raw # NoVar /\ Rewritable(raw)
         /\ \A l \in Lists : Writable(l)
         /\ \A p \in Procs : seen[p] # None => Full(seen[p])
    /\ Sound(initial, First) /\ ~Blind =>
         /\ Keeps(ParseBootOrder(raw), initial, First)
         /\ \A l \in Lists : Keeps(l, initial, First)
    /\ Single(initial, First) =>
         /\ Once(ParseBootOrder(raw))
         /\ \A l \in Lists : Once(l)

Inv == CtlInv /\ PastInv

\* Lists with the same numbers at the same places keep the same.
LEMMA SameNumbers ==
  ASSUME NEW l, NEW m, Len(l) = Len(m),
         \A i \in 1..Len(l) : EntryValue(l[i]) = EntryValue(m[i])
  PROVE  /\ Once(l) => Once(m)
         /\ \A s, first : Keeps(l, s, first) => Keeps(m, s, first)
<1>1. Once(l) => Once(m)
  BY DEF Once
<1>2. ASSUME NEW s, NEW first, Keeps(l, s, first) PROVE Keeps(m, s, first)
  <2>1. Holds(m, s)
    BY <1>2 DEF Keeps, Holds
  <2>2. InOrder(m, s, first)
    BY <1>2 DEF Keeps, InOrder
  <2> QED BY <2>1, <2>2 DEF Keeps
<1> QED BY <1>1, <1>2

\* The more names are moved, the less is asked.
LEMMA MoreMoved ==
  ASSUME NEW s, NEW first, NEW more, first \subseteq more
  PROVE  /\ Sound(s, more) => Sound(s, first)
         /\ Single(s, more) => Single(s, first)
         /\ \A l : Keeps(l, s, first) => Keeps(l, s, more)
<1>1. \A n : Other(n, more) => Other(n, first)
  BY DEF Other
<1>2. ASSUME NEW l, Keeps(l, s, first) PROVE Keeps(l, s, more)
  BY <1>1, <1>2 DEF Keeps, InOrder
<1> QED BY <1>2 DEF Sound, Single

\* A list with e moved to the first place keeps what it kept.
LEMMA FrontKeeps ==
  ASSUME NEW l, Writable(l), NEW e \in Strs, EntryOk(e), NEW s, NEW first, e \in first,
         Keeps(l, s, first)
  PROVE  Keeps(InFront(e, l), s, first)
<1> DEFINE m == InFront(e, l)
<1>1. /\ \A i \in 1..Len(l) : \E j \in 1..Len(m) : m[j] = l[i]
      /\ \A i, k \in 1..Len(l) : i < k /\ l[i] # e /\ l[k] # e =>
           \E j, h \in 1..Len(m) : j < h /\ m[j] = l[i] /\ m[h] = l[k]
  BY InFrontIs
<1> HIDE DEF m
<1>2. Holds(m, s)
  BY <1>1 DEF Keeps, Holds
<1>3. ASSUME NEW i \in 1..Count(s), NEW k \in 1..Count(s), i < k,
             Other(WordAt(s, i), first), Other(WordAt(s, k), first)
      PROVE  \E j, h \in 1..Len(m) :
               j < h /\ EntryValue(m[j]) = WordAt(s, i) /\ EntryValue(m[h]) = WordAt(s, k)
  <2>1. PICK a \in 1..Len(l), b \in 1..Len(l) :
          a < b /\ EntryValue(l[a]) = WordAt(s, i) /\ EntryValue(l[b]) = WordAt(s, k)
    BY <1>3 DEF Keeps, InOrder
  <2>2. l[a] # e /\ l[b] # e
    BY <1>3, <2>1 DEF Other
  <2>3. PICK j \in 1..Len(m), h \in 1..Len(m) : j < h /\ m[j] = l[a] /\ m[h] = l[b]
    BY <1>1, <2>1, <2>2
  <2> QED BY <2>1, <2>3
<1>4. InOrder(m, s, first)
  BY <1>3 DEF InOrder
<1> QED BY <1>2, <1>4 DEF Keeps, m

\* The control is in order at the start, and every step leaves it so.
LEMMA InitCtl == Init => CtlInv
<1> SUFFICES ASSUME Init PROVE CtlInv
  OBVIOUS
<1>1. raw = NoVar \/ raw \in Bytes
  BY InitRawsAssumption DEF Init, Bytes
<1>2. TypeOK
  BY <1>1 DEF Init, TypeOK
<1> QED BY <1>2 DEF Init, CtlInv

\* A list of names read is one, whatever the variable holds.
LEMMA ReadIsNames ==
  ASSUME CtlInv, NEW data \in {raw, NoVar}, NEW as_tuple \in BOOLEAN
  PROVE  GetBootOrder(data, as_tuple) \in Seq(Entry) \cup {None}
<1>1. data = NoVar \/ data \in Seq(Byte)
  BY DEF CtlInv, TypeOK, Bytes
<1>2. (IF data = NoVar THEN None ELSE ParseBootOrder(data)) \in Seq(Entry) \cup {None}
  BY <1>1, ReadsNames
<1>3. <<>> \in Seq(Entry)
  OBVIOUS
<1> QED BY <1>2, <1>3 DEF GetBootOrder

\* What is stored is bytes or nothing.
LEMMA StoredType ==
  ASSUME NEW l \in Seq(Entry)
  PROVE  Stored(BuildBootOrder(l)) = NoVar \/ Stored(BuildBootOrder(l)) \in Bytes
<1>1. CASE BuildBootOrder(l) = None
  BY <1>1 DEF Stored
<1>2. CASE BuildBootOrder(l) # None
  BY <1>2, BuiltBytes DEF Stored, Bytes
<1> QED BY <1>1, <1>2

\* A list with one entry in front is a list of names with that entry first.
LEMMA FrontType ==
  ASSUME NEW l \in Seq(Entry), NEW e \in Strs
  PROVE  LET m == InFront(e, l)
         IN  m \in Seq(Entry) /\ 1 \in 1..Len(m) /\ m[1] = e
<1> DEFINE r == RemoveFirst(l, e)
<1>1. r \in Seq(Entry)
  BY RemovedFrom
<1>2. InFront(e, l) = <<e>> \o r /\ e \in Entry
  BY DEF InFront, Strs
<1> HIDE DEF r
<1> QED BY <1>1, <1>2

LEMMA StepCtl ==
  ASSUME CtlInv, [Next]_vars
  PROVE  CtlInv'
<1> USE DEF CtlInv
<1>1. CASE UNCHANGED vars
  BY <1>1 DEF vars, variables, TypeOK
<1>2. ASSUME NEW p \in Procs, Main(p) PROVE CtlInv'
  BY <1>2 DEF Main, End, variables, TypeOK
<1>3. ASSUME NEW p \in Procs, Get(p) PROVE CtlInv'
  <2>1. PICK data \in {raw, NoVar} : seen' = [seen EXCEPT ![p] = GetBootOrder(data, asTuple[p])]
    BY <1>3 DEF Get
  <2>2. asTuple[p] \in BOOLEAN
    BY DEF TypeOK
  <2>3. GetBootOrder(data, asTuple[p]) \in Seq(Entry) \cup {None}
    BY <2>2, ReadIsNames
  <2>4. pc[p] = "start" /\ pc' = [pc EXCEPT ![p] = "holds"]
        /\ UNCHANGED <<raw, bootNext, asTuple, names, initial, result>>
    BY <1>3 DEF Get, Goto, variables
  <2>5. TypeOK'
    BY <2>1, <2>3, <2>4 DEF TypeOK
  <2>6. /\ \A q \in Procs : pc'[q] = "start" => seen'[q] = None /\ names'[q] = None
        /\ \A q \in Procs : pc'[q] = "holds" => names'[q] = None
        /\ \A q \in Procs : pc'[q] = "set" => names'[q] # None
    BY <2>1, <2>4 DEF TypeOK
  <2> QED BY <2>4, <2>5, <2>6
<1>4. ASSUME NEW p \in Procs, GetRaises(p) PROVE CtlInv'
  BY <1>4 DEF GetRaises, End, variables, TypeOK
<1>5. ASSUME NEW p \in Procs, MoveFirst(p) PROVE CtlInv'
  <2>1. PICK e \in Entries : names' = [names EXCEPT ![p] = InFront(e, seen[p])]
    BY <1>5 DEF MoveFirst
  <2>2. /\ pc[p] = "holds" /\ seen[p] # None /\ pc' = [pc EXCEPT ![p] = "set"]
        /\ UNCHANGED <<raw, bootNext, asTuple, seen, initial, result>>
    BY <1>5 DEF MoveFirst, Goto, variables
  <2>3. e \in Strs /\ seen[p] \in Seq(Entry)
    BY <2>2, NamesAssumption DEF TypeOK
  <2> DEFINE m == InFront(e, seen[p])
  <2>4. m \in Seq(Entry) /\ 1 \in 1..Len(m) /\ m[1] \in Entries
    BY <2>3, FrontType
  <2>5. m # None
    <3>1. None \notin Seq(Entry)
      BY NoneAssumption
    <3> QED BY ONLY <2>4, <3>1
  <2> HIDE DEF m
  <2>6. names' = [names EXCEPT ![p] = m]
    BY <2>1 DEF m
  <2>7. TypeOK'
    BY <2>2, <2>4, <2>6 DEF TypeOK
  <2>8. /\ \A q \in Procs : pc'[q] = "start" => seen'[q] = None /\ names'[q] = None
        /\ \A q \in Procs : pc'[q] = "holds" => names'[q] = None
        /\ \A q \in Procs : pc'[q] = "set" => names'[q] # None
    BY <2>2, <2>5, <2>6 DEF TypeOK
  <2>9. \A q \in Procs : names'[q] # None => 1 \in 1..Len(names'[q]) /\ names'[q][1] \in Entries
    BY <2>4, <2>6 DEF TypeOK
  <2> QED BY <2>7, <2>8, <2>9
<1>6. ASSUME NEW p \in Procs, Set(p) PROVE CtlInv'
  <2>1. /\ pc[p] = "set" /\ raw' = Stored(BuildBootOrder(names[p]))
        /\ pc' = [pc EXCEPT ![p] = "ended"] /\ result' = [result EXCEPT ![p] = "True"]
        /\ UNCHANGED <<bootNext, asTuple, seen, names, initial>>
    BY <1>6 DEF Set, End
  <2>2. names[p] \in Seq(Entry)
    BY <2>1 DEF TypeOK
  <2>3. raw' = NoVar \/ raw' \in Bytes
    BY <2>1, <2>2, StoredType
  <2>4. TypeOK'
    BY <2>1, <2>3 DEF TypeOK
  <2>5. /\ \A q \in Procs : pc'[q] = "start" => seen'[q] = None /\ names'[q] = None
        /\ \A q \in Procs : pc'[q] = "holds" => names'[q] = None
        /\ \A q \in Procs : pc'[q] = "set" => names'[q] # None
    BY <2>1 DEF TypeOK
  <2> QED BY <2>1, <2>4, <2>5
<1>7. ASSUME NEW p \in Procs, SetFails(p) PROVE CtlInv'
  BY <1>7 DEF SetFails, End, variables, TypeOK
<1>8. ASSUME NEW p \in Procs, SetNext(p) PROVE CtlInv'
  <2>1. PICK evar \in NextNames :
          \/ \E how \in {"False", "raised"} : End(p, how) /\ UNCHANGED bootNext
          \/ /\ NextName(evar) /\ Numeric(evar.rest)
             /\ bootNext' = LittleEndian(HexValue(evar.rest)) /\ End(p, "True")
    BY <1>8 DEF SetNext
  <2>2. evar \in Entry /\ evar.kind = "str"
    BY NamesAssumption DEF Strs
  <2>3. bootNext' = NoVar \/ bootNext' \in Bytes
    <3>1. CASE UNCHANGED bootNext
      BY <3>1 DEF TypeOK
    <3>2. CASE NextName(evar) /\ Numeric(evar.rest) /\ bootNext' = LittleEndian(HexValue(evar.rest))
      BY <2>2, <3>2, NumberOfNext DEF Bytes
    <3> QED BY <2>1, <3>1, <3>2
  <2>4. PICK how \in {"False", "raised", "True"} : End(p, how)
    BY <2>1
  <2>5. /\ pc[p] = "start" /\ pc' = [pc EXCEPT ![p] = "ended"]
        /\ result' = [result EXCEPT ![p] = how]
        /\ UNCHANGED <<raw, asTuple, seen, names, initial>>
    BY <1>8, <2>4 DEF SetNext, End
  <2>6. TypeOK'
    BY <2>3, <2>5 DEF TypeOK
  <2>7. /\ \A q \in Procs : pc'[q] = "start" => seen'[q] = None /\ names'[q] = None
        /\ \A q \in Procs : pc'[q] = "holds" => names'[q] = None
        /\ \A q \in Procs : pc'[q] = "set" => names'[q] # None
    BY <2>5 DEF TypeOK
  <2> QED BY <2>5, <2>6, <2>7
<1>9. ASSUME NEW p \in Procs, Stop(p) PROVE CtlInv'
  BY <1>9 DEF Stop, End, variables, TypeOK
<1> QED BY <1>1, <1>2, <1>3, <1>4, <1>5, <1>6, <1>7, <1>8, <1>9 DEF Next, Step

\* What the start held, with no name moved yet.
LEMMA InitPast == Init /\ CtlInv => PastInv
<1> SUFFICES ASSUME Init, CtlInv PROVE PastInv
  OBVIOUS
<1>1. /\ raw = initial /\ (raw = NoVar \/ raw \in Bytes) /\ Lists = {}
      /\ \A p \in Procs : seen[p] = None
  BY DEF Init, Lists, CtlInv, TypeOK
<1>2. ASSUME Sound(initial, First) PROVE raw # NoVar /\ Rewritable(raw)
  BY <1>1, <1>2 DEF Sound, AllEncodable, Rewritable, Bytes, Count
<1> DEFINE l == ParseBootOrder(raw)
<1>3. ASSUME Sound(initial, First)
      PROVE  Len(l) = Count(raw) /\ Count(raw) \in Nat
             /\ \A i \in 1..Len(l) : EntryValue(l[i]) = WordAt(raw, i)
  BY <1>2, <1>3, ReadAgain
<1> HIDE DEF l
<1>4. ASSUME Sound(initial, First) PROVE Keeps(l, initial, First)
  <2>1. Holds(l, raw)
    BY <1>3, <1>4 DEF Holds
  <2>2. InOrder(l, raw, First)
    BY <1>3, <1>4 DEF InOrder
  <2> QED BY <1>1, <2>1, <2>2 DEF Keeps
<1>5. ASSUME Single(initial, First) PROVE Once(l)
  <2>1. Sound(initial, First) /\ Distinct(raw)
    BY <1>1, <1>5 DEF Single
  <2> QED BY <1>3, <2>1 DEF Once, Distinct
<1> QED BY <1>1, <1>2, <1>4, <1>5 DEF PastInv, l

\* Names are only added to those moved, and a program that took a failed read for an
\* empty order has done so for good.
LEMMA StepGrows ==
  ASSUME CtlInv, [Next]_vars
  PROVE  initial' = initial /\ First \subseteq First' /\ (Blind => Blind')
<1> DEFINE grows == /\ initial' = initial /\ asTuple' = asTuple
                    /\ \A q \in Procs : names[q] # None => names'[q] = names[q]
                    /\ \A q \in Procs : seen[q] # None => seen'[q] = seen[q]
<1>1. ASSUME UNCHANGED vars PROVE grows
  BY <1>1 DEF vars, variables
<1>2. ASSUME NEW p \in Procs, Step(p) \/ Stop(p) PROVE grows
  <2>1. CASE Main(p)
    BY <2>1 DEF Main
  <2>2. CASE Get(p)
    BY <2>2 DEF Get, CtlInv, TypeOK
  <2>3. CASE GetRaises(p)
    BY <2>3 DEF GetRaises
  <2>4. CASE MoveFirst(p)
    BY <2>4 DEF MoveFirst, CtlInv, TypeOK
  <2>5. CASE Set(p)
    BY <2>5 DEF Set
  <2>6. CASE SetFails(p)
    BY <2>6 DEF SetFails
  <2>7. CASE SetNext(p)
    BY <2>7 DEF SetNext
  <2>8. CASE Stop(p)
    BY <2>8 DEF Stop
  <2> QED BY <1>2, <2>1, <2>2, <2>3, <2>4, <2>5, <2>6, <2>7, <2>8 DEF Step
<1>3. grows
  BY <1>1, <1>2 DEF Next, vars
<1>4. First \subseteq First'
  BY <1>3 DEF First
<1>5. <<>> # None
  <2>1. <<>> \in Seq(Byte)
    OBVIOUS
  <2> QED BY <2>1, NoneAssumption
<1>6. Blind => Blind'
  BY <1>3, <1>5 DEF Blind
<1> QED BY <1>3, <1>4, <1>6

\* What a step has to show of the order and of a list it makes: the others are as good
\* as they were.
LEMMA StepPast ==
  ASSUME CtlInv, PastInv, CtlInv', [Next]_vars,
         Sound(initial, First') =>
           /\ raw' # NoVar /\ Rewritable(raw')
           /\ \A l \in Lists' \ Lists : Writable(l)
           /\ \A p \in Procs : seen'[p] # seen[p] => seen'[p] = None \/ Full(seen'[p]),
         Sound(initial, First') /\ ~Blind' =>
           /\ Keeps(ParseBootOrder(raw'), initial, First')
           /\ \A l \in Lists' \ Lists : Keeps(l, initial, First'),
         Single(initial, First') =>
           /\ Once(ParseBootOrder(raw'))
           /\ \A l \in Lists' \ Lists : Once(l)
  PROVE  PastInv'
<1>1. initial' = initial /\ First \subseteq First' /\ (Blind => Blind')
  BY StepGrows
<1>2. /\ Sound(initial, First') => Sound(initial, First)
      /\ Single(initial, First') => Single(initial, First)
      /\ \A l : Keeps(l, initial, First) => Keeps(l, initial, First')
  BY <1>1, MoreMoved
<1>3. ASSUME Sound(initial, First')
      PROVE  /\ raw' # NoVar /\ Rewritable(raw')
             /\ \A l \in Lists' : Writable(l)
             /\ \A p \in Procs : seen'[p] # None => Full(seen'[p])
  BY <1>2, <1>3 DEF PastInv
<1>4. ASSUME Sound(initial, First'), ~Blind'
      PROVE  /\ Keeps(ParseBootOrder(raw'), initial, First')
             /\ \A l \in Lists' : Keeps(l, initial, First')
  BY <1>1, <1>2, <1>4 DEF PastInv
<1>5. ASSUME Single(initial, First')
      PROVE  Once(ParseBootOrder(raw')) /\ \A l \in Lists' : Once(l)
  BY <1>2, <1>5 DEF PastInv
<1> QED BY <1>1, <1>3, <1>4, <1>5 DEF PastInv

\* A step that makes no list and leaves the order alone.
LEMMA QuietPast ==
  ASSUME CtlInv, PastInv, CtlInv', [Next]_vars, UNCHANGED <<raw, seen, names>>
  PROVE  PastInv'
<1>1. Lists' = Lists /\ First' = First /\ raw' = raw /\ seen' = seen
  BY DEF Lists, First
<1>2. Blind => Blind'
  BY StepGrows
<1> QED BY <1>1, <1>2, StepPast DEF PastInv

LEMMA GetPast ==
  ASSUME CtlInv, PastInv, CtlInv', NEW p \in Procs, Get(p)
  PROVE  PastInv'
<1>1. [Next]_vars
  BY DEF Next, Step
<1>2. PICK data \in {raw, NoVar} : seen' = [seen EXCEPT ![p] = GetBootOrder(data, asTuple[p])]
  BY DEF Get
<1>3. pc[p] = "start" /\ UNCHANGED <<raw, asTuple, names, initial>>
  BY DEF Get, variables
<1> DEFINE g == GetBootOrder(data, asTuple[p])
<1>4. g = None \/ (g = <<>> /\ asTuple[p]) \/ (data = raw /\ raw # NoVar /\ g = ParseBootOrder(raw))
  BY <1>2 DEF GetBootOrder
<1> HIDE DEF g
<1>5. seen' = [seen EXCEPT ![p] = g] /\ names' = names
  BY <1>2, <1>3 DEF g
<1>6. /\ \A l \in Lists' \ Lists : l = g /\ g # None
      /\ \A q \in Procs : seen'[q] # seen[q] => seen'[q] = g
  BY <1>5 DEF Lists, CtlInv, TypeOK
<1>7. First' = First /\ raw' = raw
  BY <1>3 DEF First
<1>8. Blind => Blind'
  BY <1>1, StepGrows
<1>9. CASE g = None
  BY <1>1, <1>6, <1>7, <1>8, <1>9, StepPast DEF PastInv
\* A failed read is taken for an empty order.
<1>10. CASE g = <<>> /\ asTuple[p]
  <2>1. Writable(g) /\ Full(g) /\ Once(g)
    BY <1>10 DEF Writable, Full, Once
  <2>2. Blind'
    <3>1. seen'[p] = <<>> /\ asTuple'[p]
      BY <1>3, <1>5, <1>10 DEF CtlInv, TypeOK
    <3> QED BY <3>1 DEF Blind
  <2> QED BY <1>1, <1>6, <1>7, <2>1, <2>2, StepPast DEF PastInv
<1>11. CASE data = raw /\ raw # NoVar /\ g = ParseBootOrder(raw)
  <2>1. Sound(initial, First) => Writable(g) /\ Full(g)
    BY <1>11, ReadAgain DEF PastInv
  <2> QED BY <1>1, <1>6, <1>7, <1>8, <1>11, <2>1, StepPast DEF PastInv
<1> QED BY <1>4, <1>9, <1>10, <1>11

LEMMA MovePast ==
  ASSUME CtlInv, PastInv, CtlInv', NEW p \in Procs, MoveFirst(p)
  PROVE  PastInv'
<1>1. [Next]_vars
  BY DEF Next, Step
<1>2. PICK e \in Entries : names' = [names EXCEPT ![p] = InFront(e, seen[p])]
  BY DEF MoveFirst
<1>3. pc[p] = "holds" /\ seen[p] # None /\ UNCHANGED <<raw, seen, initial>>
  BY DEF MoveFirst, variables
<1> DEFINE l == seen[p]
           m == InFront(e, l)
<1>4. e \in Strs /\ l \in Seq(Entry) /\ l \in Lists
  BY <1>3, NamesAssumption DEF CtlInv, TypeOK, Lists
<1>5. m \in Seq(Entry) /\ m # None /\ m[1] = e
  <2>1. m \in Seq(Entry) /\ m[1] = e
    BY <1>4, FrontType
  <2> HIDE DEF m
  <2> QED BY <2>1, NoneAssumption
<1> HIDE DEF l, m
<1>6. names' = [names EXCEPT ![p] = m] /\ DOMAIN names = Procs
  BY <1>2 DEF CtlInv, TypeOK, l, m
<1>7. \A x \in Lists' \ Lists : x = m
  BY <1>3, <1>6 DEF Lists
<1>8. e \in First'
  BY <1>5, <1>6 DEF First
<1>9. First \subseteq First' /\ (Blind => Blind') /\ raw' = raw /\ seen' = seen
  BY <1>1, <1>3, StepGrows
<1>10. /\ Sound(initial, First') => Sound(initial, First)
       /\ Single(initial, First') => Single(initial, First)
       /\ \A x : Keeps(x, initial, First) => Keeps(x, initial, First')
  BY <1>9, MoreMoved
<1>11. ASSUME Sound(initial, First') PROVE Writable(l) /\ Full(l) /\ EntryOk(e)
  BY <1>3, <1>4, <1>8, <1>10, <1>11 DEF PastInv, Sound, l
<1>12. ASSUME Sound(initial, First') PROVE Writable(m)
  BY <1>4, <1>11, <1>12, InFrontIs DEF m
<1>13. ASSUME Sound(initial, First'), ~Blind' PROVE Keeps(m, initial, First')
  <2>1. Keeps(l, initial, First')
    BY <1>4, <1>9, <1>10, <1>13 DEF PastInv
  <2> QED BY <1>4, <1>8, <1>11, <1>13, <2>1, FrontKeeps DEF m
<1>14. ASSUME Single(initial, First') PROVE Once(m)
  <2>1. Once(l) /\ Sound(initial, First') /\ Len(e.rest) = 4
    BY <1>4, <1>8, <1>10, <1>14 DEF PastInv, Single
  <2> QED BY <1>4, <1>11, <2>1, InFrontIs DEF m
<1> QED BY <1>1, <1>7, <1>9, <1>10, <1>12, <1>13, <1>14, StepPast DEF PastInv

LEMMA SetPast ==
  ASSUME CtlInv, PastInv, CtlInv', NEW p \in Procs, Set(p)
  PROVE  PastInv'
<1>1. [Next]_vars
  BY DEF Next, Step
<1>2. /\ pc[p] = "set" /\ raw' = Stored(BuildBootOrder(names[p]))
      /\ UNCHANGED <<seen, names, initial>>
  BY DEF Set
<1> DEFINE l == names[p]
           m == ParseBootOrder(raw')
<1>3. l \in Lists /\ 1 \in 1..Len(l)
  BY <1>2 DEF CtlInv, Lists
<1>4. Lists' = Lists /\ First' = First /\ seen' = seen
  BY <1>2 DEF Lists, First
<1>5. Blind => Blind'
  BY <1>1, StepGrows
<1> HIDE DEF l
<1>6. ASSUME Sound(initial, First)
      PROVE  /\ raw' # NoVar /\ Rewritable(raw') /\ Len(m) = Len(l)
             /\ \A i \in 1..Len(l) : EntryValue(m[i]) = EntryValue(l[i])
  <2> DEFINE s == BuildBootOrder(l)
  <2>1. Writable(l)
    BY <1>3, <1>6 DEF PastInv
  <2>2. /\ s # None /\ Rewritable(s) /\ Len(s) = 2 * Len(l) /\ Count(s) = Len(l)
        /\ \A i \in 1..Len(l) : WordAt(s, i) = EntryValue(l[i])
    BY <2>1, BuiltWords
  <2>3. raw' = Stored(s)
    BY <1>2 DEF l
  <2> HIDE DEF s
  <2>4. s # <<>> /\ s # NoVar
    <3>1. Len(l) \in Nat /\ s \in Seq(Byte)
      BY <2>1, <2>2 DEF Writable, Rewritable
    <3>2. Len(s) # 0
      BY <1>3, <2>2, <3>1
    <3> QED BY <3>1, <3>2, NoVarAssumption
  <2>5. raw' = s
    BY <2>2, <2>3, <2>4 DEF Stored
  <2>6. /\ Len(m) = Count(raw')
        /\ \A i \in 1..Len(m) : EntryValue(m[i]) = WordAt(raw', i)
    BY <2>2, <2>5, ReadAgain
  <2> QED BY <2>2, <2>4, <2>5, <2>6
<1> HIDE DEF m
<1>7. ASSUME Sound(initial, First)
      PROVE  (Once(l) => Once(m)) /\ \A s, first : Keeps(l, s, first) => Keeps(m, s, first)
  <2>1. Len(l) = Len(m) /\ \A i \in 1..Len(l) : EntryValue(l[i]) = EntryValue(m[i])
    BY <1>6, <1>7
  <2> QED BY ONLY <2>1, SameNumbers
<1>8. ASSUME Sound(initial, First), ~Blind' PROVE Keeps(m, initial, First)
  BY <1>3, <1>5, <1>7, <1>8 DEF PastInv
<1>9. ASSUME Single(initial, First) PROVE Once(m)
  BY <1>3, <1>7, <1>9 DEF PastInv, Single
<1> QED BY <1>1, <1>4, <1>5, <1>6, <1>8, <1>9, StepPast DEF m

LEMMA NextInv ==
  ASSUME Inv, [Next]_vars
  PROVE  Inv'
<1>1. CtlInv'
  BY StepCtl DEF Inv
<1> USE <1>1 DEF Inv
<1>2. CASE UNCHANGED vars
  BY <1>2, QuietPast DEF vars, variables
<1>3. ASSUME NEW p \in Procs, Main(p) \/ GetRaises(p) \/ SetFails(p) \/ SetNext(p) \/ Stop(p)
      PROVE  PastInv'
  <2>1. UNCHANGED <<raw, seen, names>>
    BY <1>3 DEF Main, GetRaises, SetFails, SetNext, Stop, variables
  <2> QED BY <2>1, QuietPast
<1> QED BY <1>2, <1>3, GetPast, MovePast, SetPast DEF Next, Step
-----------------------------------------------------------------------------
\* In every reachable state the control is in order, and the boot order and every list
\* read from it or about to be written, however stale, keep what the start held:
\* get_evar_BootOrder, set_evar_BootOrder and set_evar_BootNext of WUEFI_evars.py,
\* called by any number of programs.
THEOREM EvarsInvariant == Spec => []Inv
<1>1. Init => Inv
  BY InitCtl, InitPast DEF Inv
<1>2. Inv /\ [Next]_vars => Inv'
  BY NextInv
<1> QED BY <1>1, <1>2, PTL DEF Spec

\* The types of the two variables and of what the programs hold: neither variable is
\* left without bytes.
THEOREM EvarsTyped == Spec => []TypeOK
<1>1. Inv => TypeOK
  BY DEF Inv, CtlInv
<1> QED BY <1>1, EvarsInvariant, PTL

\* However the reads and the writes of any number of programs interleave, fail or stop,
\* the boot order keeps the entries it held at the start, and in their order those
\* nobody moved, unless a name cannot be written or a failed read was taken for an
\* empty order.
THEOREM KeepsEntries == Spec => []EntriesKept
<1>1. ASSUME Inv PROVE EntriesKept
  <2> SUFFICES ASSUME AllEncodable(initial), \A e \in First : EntryOk(e), ~Blind
               PROVE  /\ raw # NoVar
                      /\ \A i \in 1..Count(initial) :
                           \E j \in 1..Count(raw) : WordAt(raw, j) = WordAt(initial, i)
                      /\ \A i, k \in 1..Count(initial) :
                           i < k /\ ~Moved(WordAt(initial, i)) /\ ~Moved(WordAt(initial, k)) =>
                             \E j, l \in 1..Count(raw) :
                               j < l /\ WordAt(raw, j) = WordAt(initial, i)
                                     /\ WordAt(raw, l) = WordAt(initial, k)
    BY DEF EntriesKept
  <2> DEFINE m == ParseBootOrder(raw)
  <2>1. /\ raw # NoVar /\ Rewritable(raw) /\ Keeps(m, initial, First)
    BY <1>1 DEF Inv, PastInv, Sound
  <2>2. Len(m) = Count(raw) /\ \A i \in 1..Len(m) : EntryValue(m[i]) = WordAt(raw, i)
    BY <2>1, ReadAgain
  <2> HIDE DEF m
  <2>3. ASSUME NEW i \in 1..Count(initial)
        PROVE  \E j \in 1..Count(raw) : WordAt(raw, j) = WordAt(initial, i)
    BY <2>1, <2>2 DEF Keeps, Holds
  <2>4. ASSUME NEW i \in 1..Count(initial), NEW k \in 1..Count(initial), i < k,
               ~Moved(WordAt(initial, i)), ~Moved(WordAt(initial, k))
        PROVE  \E j, l \in 1..Count(raw) :
                 j < l /\ WordAt(raw, j) = WordAt(initial, i) /\ WordAt(raw, l) = WordAt(initial, k)
    <3>1. Other(WordAt(initial, i), First) /\ Other(WordAt(initial, k), First)
      BY <2>4 DEF Other, Moved
    <3> QED BY <2>1, <2>2, <2>4, <3>1 DEF Keeps, InOrder
  <2> QED BY <2>1, <2>3, <2>4
<1> QED BY <1>1, EvarsInvariant, PTL

\* No entry is listed twice, although a program looks for the name it moves as a string,
\* in a list that may be stale.
THEOREM NeverRepeats == Spec => []NoRepeats
<1>1. ASSUME Inv PROVE NoRepeats
  <2> SUFFICES ASSUME Single(initial, First) PROVE Distinct(raw)
    BY DEF NoRepeats, Single, Sound
  <2> DEFINE m == ParseBootOrder(raw)
  <2>1. Rewritable(raw) /\ Once(m)
    BY <1>1 DEF Inv, PastInv, Single
  <2>2. Len(m) = Count(raw) /\ \A i \in 1..Len(m) : EntryValue(m[i]) = WordAt(raw, i)
    BY <2>1, ReadAgain
  <2> HIDE DEF m
  <2> QED BY <2>1, <2>2 DEF Once, Distinct
<1> QED BY <1>1, EvarsInvariant, PTL
=============================================================================
