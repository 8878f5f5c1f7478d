-------------------------- MODULE BootOrderProofs ---------------------------
(***************************************************************************)
(* Proofs about BootOrderLoops, for byte strings and lists of every length *)
(* (Datas and Lists are any sets that meet the two assumptions): an        *)
(* inductive invariant that says how far each loop has come, and what it   *)
(* says at the end.                                                        *)
(***************************************************************************)
EXTENDS BootOrderLoops, SequenceTheorems, TLAPS

\* The two sets of numbers by their bounds.
LEMMA Between ==
  ASSUME NEW m \in Int
  PROVE  \A k : k \in 0..m <=> k \in Int /\ 0 <= k /\ k <= m
OBVIOUS

\* The numbers a byte can hold, by their bounds.
LEMMA ByteBounds == \A k : k \in Byte <=> k \in Int /\ 0 <= k /\ k <= 255
<1>1. PICK m \in Int : m = 255
  OBVIOUS
<1>2. Byte = 0..m
  BY <1>1 DEF Byte
<1>3. \A k : k \in Byte <=> k \in Int /\ 0 <= k /\ k <= m
  BY <1>2, Between
<1> QED BY <1>1, <1>3

\* The same for the numbers a word can hold.
LEMMA WordBounds == \A k : k \in Word <=> k \in Int /\ 0 <= k /\ k <= 65535
<1>1. PICK m \in Int : m = 65535
  OBVIOUS
<1>2. Word = 0..m
  BY <1>1 DEF Word
<1>3. \A k : k \in Word <=> k \in Int /\ 0 <= k /\ k <= m
  BY <1>2, Between
<1> QED BY <1>1, <1>3

\* A 16-bit number is the word made of its two bytes.
LEMMA TwoBytes ==
  ASSUME NEW n \in Word
  PROVE  /\ n % 256 \in Byte
         /\ n \div 256 \in Byte
         /\ n = (n % 256) + 256 * (n \div 256)
<1>1. n \in Int /\ 0 <= n /\ n <= 65535
  BY WordBounds
<1> DEFINE high == n \div 256
           low == n % 256
<1>2. high \in Int /\ 0 <= low /\ low <= 255 /\ low \in Int /\ n = low + 256*high
  BY <1>1
<1> HIDE DEF high, low
<1>3. 0 <= high /\ high <= 255
  BY <1>1, <1>2
<1>4. high \in Byte /\ low \in Byte
  BY <1>2, <1>3, ByteBounds
<1> QED BY <1>2, <1>4 DEF high, low

\* The two bytes of a number are bytes.
LEMMA BytesOfWord ==
  ASSUME NEW n \in Word
  PROVE  /\ LittleEndian(n) \in Seq(Byte) /\ Len(LittleEndian(n)) = 2
         /\ LittleEndian(n)[1] \in Byte /\ LittleEndian(n)[2] \in Byte
         /\ LittleEndian(n)[1] + 256 * LittleEndian(n)[2] = n
BY TwoBytes DEF LittleEndian

\* The four digits of a 16-bit number are digits, and spell that number again.
LEMMA DigitsSpellNumber ==
  ASSUME NEW n \in Word
  PROVE  /\ BootName(n) \in Entry
         /\ EntryValue(BootName(n)) = n
<1> DEFINE high == n \div 256
           low == n % 256
           a == high \div 16
           b == high % 16
           c == low \div 16
           d == low % 16
<1>1. BootName(n) = [kind |-> "str", boot |-> TRUE, rest |-> <<a, b, c, d>>]
  BY DEF BootName
<1>2. high \in Byte /\ low \in Byte /\ n = low + 256*high
  BY TwoBytes
<1> HIDE DEF high, low
<1>3. a \in 0..15 /\ b \in 0..15 /\ high = b + 16*a
  BY <1>2, ByteBounds
<1>4. c \in 0..15 /\ d \in 0..15 /\ low = d + 16*c
  BY <1>2, ByteBounds
<1> HIDE DEF a, b, c, d
<1>5. n = d + 16*c + 256*b + 4096*a
  BY <1>2, <1>3, <1>4
<1>6. <<a, b, c, d>> \in Seq(0..NonHex) /\ Len(<<a, b, c, d>>) = 4
  BY <1>3, <1>4 DEF NonHex
<1>7. HexValue(<<a, b, c, d>>) = d + 16*c + 256*b + 4096*a
  BY <1>3, <1>4, <1>6 DEF HexValue
<1>8. BootName(n) \in Entry
  BY <1>1, <1>6 DEF Entry
<1> QED BY <1>1, <1>5, <1>7, <1>8 DEF EntryValue

\* Two bytes make a word, whose bytes they are.
LEMMA SplitWord ==
  ASSUME NEW x \in Byte, NEW y \in Byte
  PROVE  x + 256*y \in Word /\ LittleEndian(x + 256*y) = <<x, y>>
<1> DEFINE m == x + 256*y
           q == m \div 256
           r == m % 256
<1>1. x \in Int /\ y \in Int /\ 0 <= x /\ x <= 255 /\ 0 <= y /\ y <= 255
  BY ByteBounds
<1>2. m \in Int /\ 0 <= m /\ m <= 65535 /\ m = x + 256*y
  BY <1>1
<1> HIDE DEF m
<1>3. m \in Word
  BY <1>2, WordBounds
<1>4. q \in Byte /\ r \in Byte /\ m = r + 256*q
  BY <1>3, TwoBytes
<1> HIDE DEF q, r
<1>5. q = y /\ r = x
  BY <1>1, <1>2, <1>4, ByteBounds
<1>6. LittleEndian(m) = <<x, y>>
  BY <1>5 DEF q, r, LittleEndian
<1> QED BY <1>3, <1>6 DEF m

\* Writing the word read at place k gives the two bytes that stand there.
LEMMA BytesOfWordAt ==
  ASSUME NEW s \in Seq(Byte), NEW i \in Nat, 1 <= i, 2*i <= Len(s)
  PROVE  /\ WordAt(s, i) \in Word
         /\ LittleEndian(WordAt(s, i)) = <<s[2*i - 1], s[2*i]>>
<1>1. 2*i - 1 \in 1..Len(s) /\ 2*i \in 1..Len(s)
  OBVIOUS
<1>2. s[2*i - 1] \in Byte /\ s[2*i] \in Byte
  BY <1>1
<1> QED BY <1>2, SplitWord DEF WordAt

\* The names of a byte string of even length.
LEMMA NamesOfBytes ==
  ASSUME NEW s \in Seq(Byte), Len(s) % 2 = 0
  PROVE  /\ Len(s) \div 2 \in Nat /\ Len(s) = 2 * (Len(s) \div 2)
         /\ ParseBootOrder(s) \in Seq(Entry)
         /\ Len(ParseBootOrder(s)) = Len(s) \div 2
         /\ \A i \in 1..(Len(s) \div 2) :
              /\ ParseBootOrder(s)[i] = BootName(WordAt(s, i))
              /\ WordAt(s, i) \in Word
              /\ LittleEndian(WordAt(s, i)) = <<s[2*i - 1], s[2*i]>>
<1> DEFINE n == Len(s) \div 2
<1>1. n \in Nat /\ Len(s) = 2*n
  OBVIOUS
<1>2. ParseBootOrder(s) = [i \in 1..n |-> BootName(WordAt(s, i))]
  BY DEF ParseBootOrder
<1> HIDE DEF n
<1>3. ASSUME NEW i \in 1..n
      PROVE  /\ WordAt(s, i) \in Word
             /\ LittleEndian(WordAt(s, i)) = <<s[2*i - 1], s[2*i]>>
             /\ BootName(WordAt(s, i)) \in Entry
  <2>1. i \in Nat /\ 1 <= i /\ 2*i <= Len(s)
    BY <1>1
  <2> QED BY <2>1, BytesOfWordAt, DigitsSpellNumber
<1>4. ParseBootOrder(s) \in Seq(Entry) /\ Len(ParseBootOrder(s)) = n
  BY <1>1, <1>2, <1>3
<1> QED BY <1>1, <1>2, <1>3, <1>4 DEF n

\* The places of a list and of its bytes.
LEMMA Places ==
  ASSUME NEW n \in Nat, NEW j \in 1..(2*n)
  PROVE  /\ (j + 1) \div 2 \in 1..n
         /\ \/ j % 2 = 1 /\ 2 - (j % 2) = 1 /\ j = 2*((j + 1) \div 2) - 1
            \/ j % 2 = 0 /\ 2 - (j % 2) = 2 /\ j = 2*((j + 1) \div 2)
OBVIOUS

\* The numbers of a byte string can all be written again.
Rewritable(s) == /\ s \in Seq(Byte) /\ Len(s) % 2 = 0
                 /\ \A i \in 1..(Len(s) \div 2) : Encodable(WordAt(s, i))

\* A BootOrder read and built again.
LEMMA BuiltAgain ==
  ASSUME NEW s, Rewritable(s)
  PROVE  BuildBootOrder(ParseBootOrder(s)) = s
<1> DEFINE n == Len(s) \div 2
           names == ParseBootOrder(s)
           byte(j) == LittleEndian(EntryValue(names[(j + 1) \div 2]))[2 - (j % 2)]
<1>1. /\ s \in Seq(Byte) /\ n \in Nat /\ Len(s) = 2*n /\ Len(names) = n
      /\ \A i \in 1..n : /\ names[i] = BootName(WordAt(s, i))
                          /\ WordAt(s, i) \in Word
                          /\ LittleEndian(WordAt(s, i)) = <<s[2*i - 1], s[2*i]>>
                          /\ Encodable(WordAt(s, i))
  BY NamesOfBytes DEF Rewritable
<1> HIDE DEF n, names
<1>2. ASSUME NEW i \in 1..n
      PROVE  /\ EntryOk(names[i])
             /\ LittleEndian(EntryValue(names[i])) = <<s[2*i - 1], s[2*i]>>
  BY <1>1, DigitsSpellNumber DEF Encodable
<1>3. BuildBootOrder(names) = [j \in 1..(2*n) |-> byte(j)]
  BY <1>1, <1>2 DEF BuildBootOrder
<1>4. ASSUME NEW j \in 1..(2*n) PROVE byte(j) = s[j]
  <2> DEFINE i == (j + 1) \div 2
  <2>1. /\ i \in 1..n
        /\ \/ 2 - (j % 2) = 1 /\ j = 2*i - 1
           \/ 2 - (j % 2) = 2 /\ j = 2*i
    BY <1>1, Places
  <2>2. byte(j) = LittleEndian(EntryValue(names[i]))[2 - (j % 2)]
    OBVIOUS
  <2> HIDE DEF i, byte
  <2> QED BY <2>1, <2>2, <1>2
<1> HIDE DEF byte
<1>5. s = [j \in 1..(2*n) |-> s[j]]
  BY <1>1
<1>6. BuildBootOrder(names) = s
  BY <1>3, <1>4, <1>5
<1> QED BY <1>6 DEF names
-----------------------------------------------------------------------------
\* How far the loops have come.  Named holds the words parsed so far under their
\* names; Encoded the entries built so far as their bytes.
Named(n) == /\ Len(entries) = n
            /\ \A i \in 1..n : entries[i] = BootName(WordAt(data, i))

Encoded(n) == /\ Len(built) = 2*n
              /\ \A i \in 1..n : /\ EntryOk(entries[i])
                                 /\ built[2*i - 1] = LittleEndian(EntryValue(entries[i]))[1]
                                 /\ built[2*i] = LittleEndian(EntryValue(entries[i]))[2]

Odd == Len(data) % 2 # 0

IInv ==
    /\ source \in {"bytes", "list"} /\ pc \in {"parse", "build", "done"}
    /\ data \in Seq(Byte) /\ entries \in Seq(Entry) /\ built \in Seq(Byte)
    /\ progress \in Nat
    /\ pc = "parse" => /\ source = "bytes" /\ result = None /\ built = <<>>
                       /\ progress <= Len(data)
                       /\ IF Odd THEN progress = 0 /\ entries = <<>>
                          ELSE \E n \in Nat : progress = 2*n /\ Named(n)
    /\ pc = "build" => /\ result = None
                       /\ progress <= Len(entries)
                       /\ Encoded(progress)
    /\ (pc # "parse" /\ source = "bytes" /\ ~Odd) => Named(Len(data) \div 2)
    /\ (source = "bytes" /\ Odd) => pc # "build" /\ result = None /\ entries = <<>>
    /\ pc = "done" => /\ progress <= Len(data) + Len(entries)
                      /\ ~(source = "bytes" /\ Odd) => result = BuildBootOrder(entries)

\* The invariant holds at the start.
LEMMA InitIInv == Init => IInv
<1> SUFFICES ASSUME Init PROVE IInv
  OBVIOUS
<1>1. CASE source = "bytes"
  <2>1. /\ pc = "parse" /\ data \in Seq(Byte) /\ entries = <<>> /\ progress = 0
        /\ built = <<>> /\ result = None
    BY <1>1, DatasAssumption DEF Init
  <2>2. Named(0)
    BY <2>1 DEF Named
  <2>3. progress = 2*0
    BY <2>1
  <2> QED BY <1>1, <2>1, <2>2, <2>3 DEF IInv
<1>2. CASE source = "list"
  <2>1. /\ pc = "build" /\ data = <<>> /\ entries \in Seq(Entry) /\ progress = 0
        /\ built = <<>> /\ result = None
    BY <1>2, ListsAssumption DEF Init
  <2>2. Encoded(0)
    BY <2>1 DEF Encoded
  <2> QED BY <1>2, <2>1, <2>2 DEF IInv
<1> QED BY <1>1, <1>2 DEF Init

\* An odd number of bytes ends the call.
LEMMA ParseOddIInv == IInv /\ ParseOdd => IInv'
<1> SUFFICES ASSUME IInv, ParseOdd PROVE IInv'
  OBVIOUS
<1>1. Odd /\ Odd' /\ pc = "parse" /\ pc' = "done"
  BY DEF ParseOdd, Odd
<1>2. UNCHANGED <<source, data, entries, progress, built, result>>
  BY DEF ParseOdd
<1> QED BY <1>1, <1>2 DEF IInv

\* One more name: the one of the word at the place reached.
LEMMA ParseWordIInv == IInv /\ ParseWord => IInv'
<1> SUFFICES ASSUME IInv, ParseWord PROVE IInv'
  OBVIOUS
<1>1. /\ pc = "parse" /\ pc' = "parse" /\ source = "bytes" /\ ~Odd /\ ~Odd'
      /\ UNCHANGED <<source, data, built, result>>
      /\ progress' = progress + 2 /\ progress # Len(data)
  BY DEF ParseWord, Odd, IInv
<1>2. PICK n \in Nat : progress = 2*n /\ Named(n)
  BY <1>1 DEF IInv
<1> DEFINE word == WordAt(data, n + 1)
<1>3. data \in Seq(Byte) /\ Len(data) \in Nat /\ progress \in Nat /\ progress <= Len(data)
  BY <1>1 DEF IInv
<1>4. Len(data) % 2 = 0
  BY <1>1 DEF Odd
<1>5. 2*(n + 1) <= Len(data)
  BY <1>1, <1>2, <1>3, <1>4
<1>6. word \in Word
  BY <1>3, <1>5, BytesOfWordAt
<1>7. (progress \div 2) + 1 = n + 1
  BY <1>2
<1>8. entries' = Append(entries, BootName(word))
  BY <1>7 DEF ParseWord
<1>9. BootName(word) \in Entry
  BY <1>6, DigitsSpellNumber
<1> HIDE DEF word
<1>10. entries' \in Seq(Entry) /\ Named(n + 1)'
  <2>1. entries \in Seq(Entry) /\ Len(entries) = n
    BY <1>2 DEF IInv, Named
  <2>2. entries' \in Seq(Entry) /\ Len(entries') = n + 1
    BY <1>8, <1>9, <2>1
  <2>3. ASSUME NEW i \in 1..(n + 1)
        PROVE  entries'[i] = BootName(WordAt(data, i))
    <3>1. CASE i = n + 1
      BY <3>1, <1>8, <1>9, <2>1 DEF word
    <3>2. CASE i # n + 1
      <4>1. i \in 1..n
        BY <3>2
      <4>2. entries'[i] = entries[i]
        BY <4>1, <1>8, <1>9, <2>1
      <4> QED BY <4>1, <4>2, <1>2 DEF Named
    <3> QED BY <3>1, <3>2
  <2> QED BY <2>2, <2>3, <1>1 DEF Named
<1>11. progress' = 2*(n + 1) /\ progress' \in Nat /\ progress' <= Len(data) /\ n + 1 \in Nat
  BY <1>1, <1>2, <1>5
<1> QED BY <1>1, <1>3, <1>10, <1>11 DEF IInv

\* All words are names, and nothing is built yet.
LEMMA ParseEndIInv == IInv /\ ParseEnd => IInv'
<1> SUFFICES ASSUME IInv, ParseEnd PROVE IInv'
  OBVIOUS
<1>1. /\ pc = "parse" /\ pc' = "build" /\ source = "bytes" /\ ~Odd /\ ~Odd'
      /\ UNCHANGED <<source, data, entries, built, result>>
      /\ progress' = 0 /\ progress = Len(data) /\ built = <<>> /\ result = None
  BY DEF ParseEnd, Odd, IInv
<1>2. PICK n \in Nat : progress = 2*n /\ Named(n)
  BY <1>1 DEF IInv
<1>3. n = Len(data) \div 2
  BY <1>1, <1>2
<1>4. Named(Len(data) \div 2)'
  BY <1>1, <1>2, <1>3 DEF Named
<1>5. Encoded(0)'
  BY <1>1 DEF Encoded
<1>6. progress' \in Nat /\ Encoded(progress)' /\ progress' <= Len(entries')
  BY <1>1, <1>5 DEF IInv, Encoded
<1> QED BY <1>1, <1>4, <1>6 DEF IInv

\* One more word: that of the entry at the place reached.
LEMMA BuildEntryIInv == IInv /\ BuildEntry => IInv'
<1> SUFFICES ASSUME IInv, BuildEntry PROVE IInv'
  OBVIOUS
<1> DEFINE k == progress + 1
           two == LittleEndian(EntryValue(entries[k]))
<1>1. /\ pc = "build" /\ pc' = "build" /\ progress < Len(entries)
      /\ EntryOk(entries[k]) /\ built' = built \o two /\ progress' = k
      /\ UNCHANGED <<source, data, entries, result>>
  BY DEF BuildEntry
<1>2. progress \in Nat /\ Encoded(progress) /\ built \in Seq(Byte) /\ entries \in Seq(Entry)
  BY <1>1 DEF IInv
<1>3. EntryValue(entries[k]) \in Word
  BY <1>1 DEF EntryOk
<1>4. /\ two \in Seq(Byte) /\ Len(two) = 2
      /\ two[1] \in Byte /\ two[2] \in Byte
  BY <1>3, BytesOfWord
<1> HIDE DEF two
<1>5. Len(built) = 2*progress
  BY <1>2 DEF Encoded
<1>6. /\ built' \in Seq(Byte) /\ Len(built') = 2*k
      /\ built'[2*k - 1] = two[1] /\ built'[2*k] = two[2]
      /\ \A j \in 1..Len(built) : built'[j] = built[j]
  <2>1. /\ built' \in Seq(Byte) /\ Len(built') = Len(built) + 2
        /\ \A j \in 1..(Len(built) + 2) :
             built'[j] = IF j <= Len(built) THEN built[j] ELSE two[j - Len(built)]
    <3>1. /\ built \o two \in Seq(Byte) /\ Len(built \o two) = Len(built) + Len(two)
          /\ \A j \in 1..(Len(built) + Len(two)) :
               (built \o two)[j] = IF j <= Len(built) THEN built[j] ELSE two[j - Len(built)]
      BY <1>2, <1>4, ConcatProperties
    <3> QED BY <3>1, <1>1, <1>4
  <2>2. 2*k - 1 = Len(built) + 1 /\ 2*k = Len(built) + 2 /\ Len(built) \in Nat
    BY <1>2, <1>5
  <2> HIDE DEF k
  <2>3. built'[Len(built) + 1] = two[1] /\ built'[Len(built) + 2] = two[2]
    <3>1. built'[Len(built) + 1] = two[(Len(built) + 1) - Len(built)]
      BY <2>1, <2>2
    <3>2. built'[Len(built) + 2] = two[(Len(built) + 2) - Len(built)]
      BY <2>1, <2>2
    <3> QED BY <3>1, <3>2, <2>2
  <2>4. \A j \in 1..Len(built) : built'[j] = built[j]
    BY <2>1, <2>2
  <2> QED BY <2>1, <2>2, <2>3, <2>4
<1>7. ASSUME NEW i \in 1..k
      PROVE  /\ EntryOk(entries[i])
             /\ built'[2*i - 1] = LittleEndian(EntryValue(entries[i]))[1]
             /\ built'[2*i] = LittleEndian(EntryValue(entries[i]))[2]
  <2>1. CASE i = k
    BY <2>1, <1>1, <1>6 DEF two
  <2>2. CASE i # k
    <3>1. i \in 1..progress
      BY <2>2, <1>2
    <3>2. 2*i - 1 \in 1..Len(built) /\ 2*i \in 1..Len(built)
      BY <3>1, <1>2, <1>5
    <3> QED BY <3>1, <3>2, <1>2, <1>6 DEF Encoded
  <2> QED BY <2>1, <2>2
<1>8. Encoded(progress)'
  BY <1>1, <1>6, <1>7 DEF Encoded
<1>9. k \in Nat /\ k <= Len(entries)
  BY <1>1, <1>2
<1>10. Named(Len(data) \div 2) => Named(Len(data) \div 2)'
  BY <1>1 DEF Named
<1> QED BY <1>1, <1>6, <1>8, <1>9, <1>10 DEF IInv, Odd

\* A refused entry leaves None, and is the reason for it.
LEMMA BuildRefusedIInv == IInv /\ BuildRefused => IInv'
<1> SUFFICES ASSUME IInv, BuildRefused PROVE IInv'
  OBVIOUS
<1>1. /\ pc = "build" /\ pc' = "done" /\ progress < Len(entries)
      /\ ~EntryOk(entries[progress + 1])
      /\ UNCHANGED <<source, data, entries, progress, built, result>>
  BY DEF BuildRefused
<1>2. /\ progress \in Nat /\ entries \in Seq(Entry) /\ data \in Seq(Byte)
      /\ result = None /\ ~(source = "bytes" /\ Odd)
  BY <1>1 DEF IInv
<1>3. BuildBootOrder(entries) = None
  <2>1. progress + 1 \in 1..Len(entries)
    BY <1>1, <1>2
  <2> QED BY <1>1, <2>1 DEF BuildBootOrder
<1>4. progress <= Len(data) + Len(entries)
  BY <1>1, <1>2
<1>5. (result = BuildBootOrder(entries))'
  BY <1>1, <1>2, <1>3
<1>6. Named(Len(data) \div 2) => Named(Len(data) \div 2)'
  BY <1>1 DEF Named
<1> QED BY <1>1, <1>2, <1>4, <1>5, <1>6 DEF IInv, Odd

\* The bytes built one entry at a time are those of the definition.
LEMMA EncodedAll ==
  ASSUME built \in Seq(Byte), entries \in Seq(Entry), Encoded(Len(entries))
  PROVE  built = BuildBootOrder(entries)
<1> DEFINE n == Len(entries)
           byte(j) == LittleEndian(EntryValue(entries[(j + 1) \div 2]))[2 - (j % 2)]
<1>1. n \in Nat /\ Len(built) = 2*n
  BY DEF Encoded
<1>2. BuildBootOrder(entries) = [j \in 1..(2*n) |-> byte(j)]
  BY DEF BuildBootOrder, Encoded
<1>3. ASSUME NEW j \in 1..(2*n)
      PROVE  built[j] = byte(j)
  <2> DEFINE i == (j + 1) \div 2
  <2>1. i \in 1..n /\ ((j % 2 = 1 /\ j = 2*i - 1) \/ (j % 2 = 0 /\ j = 2*i))
    BY <1>1
  <2>2. /\ built[2*i - 1] = LittleEndian(EntryValue(entries[i]))[1]
        /\ built[2*i] = LittleEndian(EntryValue(entries[i]))[2]
    BY <2>1 DEF Encoded
  <2> HIDE DEF i
  <2>3. CASE j % 2 = 1 /\ j = 2*i - 1
    <3>1. 2 - (j % 2) = 1
      BY <2>3
    <3> QED BY <3>1, <2>2, <2>3 DEF i
  <2>4. CASE j % 2 = 0 /\ j = 2*i
    <3>1. 2 - (j % 2) = 2
      BY <2>4
    <3> QED BY <3>1, <2>2, <2>4 DEF i
  <2> QED BY <2>1, <2>3, <2>4
<1> HIDE DEF byte
<1>4. built = [j \in 1..(2*n) |-> byte(j)]
  BY <1>1, <1>3
<1> QED BY <1>2, <1>4

\* What has been built is the word of every entry.
LEMMA BuildEndIInv == IInv /\ BuildEnd => IInv'
<1> SUFFICES ASSUME IInv, BuildEnd PROVE IInv'
  OBVIOUS
<1>1. /\ pc = "build" /\ pc' = "done" /\ progress = Len(entries) /\ result' = built
      /\ UNCHANGED <<source, data, entries, progress, built>>
  BY DEF BuildEnd
<1>2. /\ built \in Seq(Byte) /\ entries \in Seq(Entry) /\ Encoded(Len(entries))
      /\ data \in Seq(Byte) /\ ~(source = "bytes" /\ Odd)
  BY <1>1 DEF IInv
<1>3. (result = BuildBootOrder(entries))'
  BY <1>1, <1>2, EncodedAll
<1>4. progress <= Len(data) + Len(entries)
  BY <1>1, <1>2
<1>5. Named(Len(data) \div 2) => Named(Len(data) \div 2)'
  BY <1>1 DEF Named
<1> QED BY <1>1, <1>2, <1>3, <1>4, <1>5 DEF IInv, Odd

\* The inductive invariant: what has been parsed or built so far is what the
\* definitions give for the part of the input that has been read.
THEOREM LoopInvariant == Spec => []IInv
<1>1. IInv /\ [Next]_vars => IInv'
  <2> SUFFICES ASSUME IInv, [Next]_vars PROVE IInv'
    OBVIOUS
  <2>1. CASE Next
    BY <2>1, ParseOddIInv, ParseWordIInv, ParseEndIInv, BuildEntryIInv,
       BuildRefusedIInv, BuildEndIInv DEF Next
  <2>2. CASE UNCHANGED vars
    BY <2>2 DEF IInv, vars, Named, Encoded, Odd
  <2> QED BY <2>1, <2>2
<1> QED BY <1>1, InitIInv, PTL DEF Spec
-----------------------------------------------------------------------------
\* The variables keep their types, for all inputs.
THEOREM LoopsTyped == Spec => []TypeOK
<1>1. IInv => TypeOK
  <2> SUFFICES ASSUME IInv PROVE TypeOK
    OBVIOUS
  <2>1. data \in Seq(Byte) /\ entries \in Seq(Entry) /\ progress \in Nat
    BY DEF IInv
  <2>2. progress <= Len(data) + Len(entries)
    BY <2>1 DEF IInv
  <2>3. progress \in 0..(Len(data) + Len(entries))
    BY <2>1, <2>2
  <2>4. result = None \/ result \in Seq(Byte)
    <3>1. CASE pc # "done"
      BY <3>1 DEF IInv
    <3>2. CASE pc = "done" /\ result = BuildBootOrder(entries) /\ result # None
      <4> DEFINE byte(j) ==
                   LittleEndian(EntryValue(entries[(j + 1) \div 2]))[2 - (j % 2)]
      <4>1. /\ \A i \in 1..Len(entries) : EntryOk(entries[i])
            /\ result = [j \in 1..(2 * Len(entries)) |-> byte(j)]
        BY <3>2 DEF BuildBootOrder
      <4>2. ASSUME NEW j \in 1..(2 * Len(entries)) PROVE byte(j) \in Byte
        <5>1. (j + 1) \div 2 \in 1..Len(entries) /\ 2 - (j % 2) \in {1, 2}
          BY <2>1
        <5>2. EntryValue(entries[(j + 1) \div 2]) \in Word
          BY <5>1, <4>1 DEF EntryOk
        <5> QED BY <5>1, <5>2, BytesOfWord
      <4> HIDE DEF byte
      <4>3. result \in [1..(2 * Len(entries)) -> Byte] /\ 2 * Len(entries) \in Nat
        BY <4>1, <4>2, <2>1
      <4> QED BY <4>3
    <3> QED BY <3>1, <3>2 DEF IInv
  <2> QED BY <2>1, <2>3, <2>4 DEF IInv, TypeOK
<1> QED BY <1>1, LoopInvariant, PTL

\* A BootOrder of any even length, read and built again, comes back byte for byte
\* when all its numbers are encodable, and as None otherwise.
THEOREM ReadThenWritten == Spec => []RoundTrip
<1>1. IInv => RoundTrip
  <2> SUFFICES ASSUME IInv, pc = "done", source = "bytes", Len(data) % 2 = 0
               PROVE  result = IF \A i \in 1..(Len(data) \div 2) : Encodable(WordAt(data, i))
                               THEN data ELSE None
    BY DEF RoundTrip
  <2> DEFINE n == Len(data) \div 2
  <2>1. /\ data \in Seq(Byte) /\ Named(n) /\ result = BuildBootOrder(entries)
        /\ Len(data) \in Nat /\ n \in Nat /\ Len(data) = 2*n
    <3>1. data \in Seq(Byte) /\ ~Odd
      BY DEF IInv, Odd
    <3>2. Named(n) /\ result = BuildBootOrder(entries)
      BY <3>1 DEF IInv
    <3> QED BY <3>1, <3>2
  <2> HIDE DEF n
  <2>2. Len(entries) = n /\ \A i \in 1..n : entries[i] = BootName(WordAt(data, i))
    BY <2>1 DEF Named
  <2>3. CASE \A i \in 1..n : Encodable(WordAt(data, i))
    <3>1. Rewritable(data)
      BY <2>1, <2>3 DEF Rewritable, n
    <3>2. /\ ParseBootOrder(data) \in Seq(Entry) /\ Len(ParseBootOrder(data)) = n
          /\ \A i \in 1..n : ParseBootOrder(data)[i] = entries[i]
      BY <2>1, <2>2, NamesOfBytes DEF n
    <3>3. entries \in Seq(Entry)
      BY DEF IInv
    <3>4. entries = ParseBootOrder(data)
      BY <2>2, <3>2, <3>3
    <3> QED BY <2>1, <2>3, <3>1, <3>4, BuiltAgain DEF n
  <2>4. CASE ~\A i \in 1..n : Encodable(WordAt(data, i))
    <3>1. result = None
      BY <2>1, <2>2, <2>4 DEF BuildBootOrder, Encodable
    <3> QED BY <3>1, <2>4 DEF n
  <2> QED BY <2>3, <2>4
<1> QED BY <1>1, LoopInvariant, PTL

\* Whatever list is handed in, the answer is None or one word for each entry.
THEOREM BuildsAllOrNothing == Spec => []AllOrNothing
<1>1. IInv => AllOrNothing
  <2> SUFFICES ASSUME IInv, pc = "done", result # None
               PROVE  /\ Len(result) = 2 * Len(entries)
                      /\ \A i \in 1..Len(entries) : WordAt(result, i) = EntryValue(entries[i])
    BY DEF AllOrNothing
  <2> DEFINE n == Len(entries)
             byte(j) == LittleEndian(EntryValue(entries[(j + 1) \div 2]))[2 - (j % 2)]
  <2>1. entries \in Seq(Entry) /\ n \in Nat /\ result = BuildBootOrder(entries)
    BY DEF IInv
  <2>2. /\ \A i \in 1..n : EntryOk(entries[i])
        /\ result = [j \in 1..(2*n) |-> byte(j)]
    BY <2>1 DEF BuildBootOrder
  <2> HIDE DEF n
  <2>3. Len(result) = 2*n
    BY <2>1, <2>2
  <2>4. ASSUME NEW i \in 1..n PROVE WordAt(result, i) = EntryValue(entries[i])
    <3>1. EntryValue(entries[i]) \in Word
      BY <2>2 DEF EntryOk
    <3>2. /\ 2*i - 1 \in 1..(2*n) /\ 2*i \in 1..(2*n)
          /\ ((2*i - 1) + 1) \div 2 = i /\ (2*i + 1) \div 2 = i
          /\ 2 - ((2*i - 1) % 2) = 1 /\ 2 - ((2*i) % 2) = 2
      BY <2>1
    <3>3. /\ byte(2*i - 1) = LittleEndian(EntryValue(entries[i]))[1]
          /\ byte(2*i) = LittleEndian(EntryValue(entries[i]))[2]
      BY <3>2
    <3> HIDE DEF byte
    <3>4. result[2*i - 1] = byte(2*i - 1) /\ result[2*i] = byte(2*i)
      BY <2>2, <3>2
    <3> QED BY <3>1, <3>3, <3>4, BytesOfWord DEF WordAt
  <2> QED BY <2>3, <2>4 DEF n
<1> QED BY <1>1, LoopInvariant, PTL

\* The loops compute the definitions the command line is specified with.
THEOREM LoopsComputeDefinitions == Spec => []LoopsMatchDefinitions
<1>1. IInv => LoopsMatchDefinitions
  <2> SUFFICES ASSUME IInv, pc = "done"
               PROVE  IF source = "bytes" /\ ParseBootOrder(data) = None
                      THEN result = None ELSE result = BuildBootOrder(entries)
    BY DEF LoopsMatchDefinitions
  <2>1. CASE source = "bytes" /\ Odd
    BY <2>1 DEF IInv, ParseBootOrder, Odd
  <2>2. CASE source = "list"
    BY <2>2 DEF IInv
  <2>3. CASE source = "bytes" /\ ~Odd
    <3> DEFINE n == Len(data) \div 2
    <3>1. /\ Named(n) /\ entries \in Seq(Entry) /\ data \in Seq(Byte)
          /\ result = BuildBootOrder(entries)
      BY <2>3 DEF IInv
    <3>2. ParseBootOrder(data) = [i \in 1..n |-> BootName(WordAt(data, i))]
      BY <2>3 DEF ParseBootOrder, Odd
    <3> HIDE DEF n
    <3>3. entries = [i \in 1..n |-> BootName(WordAt(data, i))]
      BY <3>1 DEF Named
    <3> QED BY <3>1, <3>2, <3>3, NoneAssumption
  <2> QED BY <2>1, <2>2, <2>3 DEF IInv
<1> QED BY <1>1, LoopInvariant, PTL
=============================================================================
