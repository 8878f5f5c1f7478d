------------------------- MODULE CredentialsProofs --------------------------
(***************************************************************************)
(* Proofs about Credentials, for every set of programs, keys, certificates,*)
(* calls and files.  First Der: what tlv of the signer writes, read_tlv of *)
(* the other module reads, wherever it stands and whatever follows it, also*)
(* across the lengths 127/128 and 255/256, where the form of the length    *)
(* changes; so the fields of a structure are those it was written from, and*)
(* the key of a certificate is found whatever its names and its serial     *)
(* number are.  Then what the functions of WUEFI_crypto.py and the signer  *)
(* do with the files.  The invariant, IInv, says what a call that is under *)
(* way holds and, while no other program wrote a file of its own, how that *)
(* matches the files: with the invariants that TLC checks alone, a call at *)
(* its second read of the certificate could hold anything.                 *)
(***************************************************************************)
EXTENDS Credentials, WellFoundedInduction, TLAPS

Sizes == {n \in Nat : n <= MaxContent}

LEMMA ShortSeqs ==
  ASSUME NEW S
  PROVE  /\ <<>> \in Seq(S)
         /\ \A a \in S : <<a>> \in Seq(S)
         /\ \A a, b \in S : <<a, b>> \in Seq(S)
OBVIOUS

\* A number of one or two bytes is read back from them.
LEMMA BigEndianReads ==
  ASSUME NEW n \in Sizes
  PROVE  /\ BigEndian(n) \in Seq(Byte)
         /\ Len(BigEndian(n)) = 1 \/ Len(BigEndian(n)) = 2
         /\ FromBigEndian(BigEndian(n)) = n
<1>1. CASE n < 256
  <2>1. n \in Byte
    BY <1>1 DEF Sizes, Byte, MaxContent
  <2>2. BigEndian(n) = <<n>>
    BY <1>1 DEF BigEndian
  <2>3. BigEndian(n) \in Seq(Byte)
    BY <2>1, <2>2, ShortSeqs
  <2>4. FromBigEndian(<<n>>) = n
    <3>1. n \in Nat
      BY DEF Sizes
    <3>2. ~ \E k \in 1..(Len(<<n>>) - 2) : <<n>>[k] # 0
      OBVIOUS
    <3> QED BY <3>1, <3>2 DEF FromBigEndian
  <2> QED BY <2>2, <2>3, <2>4
<1>2. CASE ~(n < 256)
  <2>1. PICK hi \in Byte, lo \in Byte : BigEndian(n) = <<hi, lo>> /\ n = 256 * hi + lo
    <3>1. (n \div 256) \in Byte /\ (n % 256) \in Byte
      BY DEF Sizes, Byte, MaxContent
    <3>2. n = 256 * (n \div 256) + (n % 256)
      BY DEF Sizes
    <3>3. BigEndian(n) = <<n \div 256, n % 256>>
      BY <1>2 DEF BigEndian
    <3> QED BY <3>1, <3>2, <3>3
  <2>2. BigEndian(n) \in Seq(Byte)
    BY <2>1, ShortSeqs
  <2>3. FromBigEndian(<<hi, lo>>) = 256 * hi + lo
    <3>1. hi \in Nat /\ lo \in Nat
      BY DEF Byte
    <3>2. ~ \E k \in 1..(Len(<<hi, lo>>) - 2) : <<hi, lo>>[k] # 0
      OBVIOUS
    <3> QED BY <3>1, <3>2 DEF FromBigEndian
  <2> QED BY <2>1, <2>2, <2>3
<1> QED BY <1>1, <1>2

\* What stands behind a first byte is found again,
LEMMA HeadAndRest ==
  ASSUME NEW S, NEW a \in S, NEW rest \in Seq(S)
  PROVE  /\ <<a>> \o rest \in Seq(S)
         /\ Len(<<a>> \o rest) = 1 + Len(rest)
         /\ (<<a>> \o rest)[1] = a
         /\ SubSeq(<<a>> \o rest, 2, 1 + Len(rest)) = rest
OBVIOUS

\* and so is a piece, by its bytes,
LEMMA PieceFound ==
  ASSUME NEW S, NEW data \in Seq(S), NEW a \in Nat, NEW piece \in Seq(S),
         a + Len(piece) <= Len(data), \A k \in 1..Len(piece) : data[a + k] = piece[k]
  PROVE  SubSeq(data, a + 1, a + Len(piece)) = piece
OBVIOUS

\* when three pieces stand in data one behind the other.
Joined(pre, a, size, content, post) == pre \o (<<a>> \o size \o content) \o post
StandIn(data, S, pre, a, size, content, post) ==
    /\ data \in Seq(S)
    /\ Len(data) = Len(pre) + 1 + Len(size) + Len(content) + Len(post)
    /\ data[Len(pre) + 1] = a
    /\ \A k \in 1..Len(size) : data[Len(pre) + 1 + k] = size[k]
    /\ \A k \in 1..Len(content) : data[Len(pre) + 1 + Len(size) + k] = content[k]

LEMMA Pieces ==
  ASSUME NEW S, NEW pre \in Seq(S), NEW a \in S, NEW size \in Seq(S), NEW content \in Seq(S),
         NEW post \in Seq(S)
  PROVE  StandIn(Joined(pre, a, size, content, post), S, pre, a, size, content, post)
<1> DEFINE data == Joined(pre, a, size, content, post)
<1>0. PICK head \in Seq(S) :
         /\ head = <<a>> \o size
         /\ Len(head) = 1 + Len(size) /\ head[1] = a
         /\ \A k \in 1..Len(size) : head[1 + k] = size[k]
  <2>1. /\ <<a>> \o size \in Seq(S)
        /\ Len(<<a>> \o size) = 1 + Len(size) /\ (<<a>> \o size)[1] = a
        /\ \A k \in 1..Len(size) : (<<a>> \o size)[1 + k] = size[k]
    OBVIOUS
  <2> QED BY <2>1
<1>1. PICK body \in Seq(S) :
         /\ body = <<a>> \o size \o content
         /\ Len(body) = 1 + Len(size) + Len(content)
         /\ body[1] = a
         /\ \A k \in 1..Len(size) : body[1 + k] = size[k]
         /\ \A k \in 1..Len(content) : body[1 + Len(size) + k] = content[k]
  <2>1. /\ head \o content \in Seq(S)
        /\ Len(head \o content) = 1 + Len(size) + Len(content)
        /\ (head \o content)[1] = a
        /\ \A k \in 1..Len(size) : (head \o content)[1 + k] = size[k]
        /\ \A k \in 1..Len(content) : (head \o content)[1 + Len(size) + k] = content[k]
    BY <1>0
  <2> QED BY <1>0, <2>1
<1>2. /\ data \in Seq(S) /\ Len(data) = Len(pre) + Len(body) + Len(post)
      /\ \A k \in 1..Len(body) : data[Len(pre) + k] = body[k]
  BY <1>1 DEF Joined
<1> HIDE DEF data
<1>3. Len(pre) \in Nat /\ Len(size) \in Nat /\ Len(content) \in Nat
  OBVIOUS
<1>4. data[Len(pre) + 1] = a
  BY <1>1, <1>2, <1>3
<1>5. ASSUME NEW k \in 1..Len(size) PROVE data[Len(pre) + 1 + k] = size[k]
  <2>1. 1 + k \in 1..Len(body) /\ Len(pre) + (1 + k) = Len(pre) + 1 + k
    BY <1>1, <1>3
  <2> QED BY <2>1, <1>1, <1>2
<1>6. ASSUME NEW k \in 1..Len(content) PROVE data[Len(pre) + 1 + Len(size) + k] = content[k]
  <2>1. /\ 1 + Len(size) + k \in 1..Len(body)
        /\ Len(pre) + (1 + Len(size) + k) = Len(pre) + 1 + Len(size) + k
    BY <1>1, <1>3
  <2> QED BY <2>1, <1>1, <1>2
<1>7. Len(data) = Len(pre) + 1 + Len(size) + Len(content) + Len(post)
  BY <1>1, <1>2, <1>3
<1>8. StandIn(data, S, pre, a, size, content, post)
  BY <1>2, <1>4, <1>5, <1>6, <1>7 DEF StandIn
<1> QED BY <1>8 DEF data

\* The length as tlv writes it: one byte below 128, and otherwise a byte that
\* counts the bytes behind it.
LEMMA ShortLength ==
  ASSUME NEW n \in Nat, n < 128
  PROVE  /\ LengthBytes(n) \in Seq(Byte)
         /\ Len(LengthBytes(n)) = 1 /\ LengthBytes(n)[1] = n
<1>1. n \in Byte /\ LengthBytes(n) = <<n>>
  BY DEF Byte, LengthBytes
<1> QED BY <1>1, ShortSeqs

LEMMA LongLength ==
  ASSUME NEW n \in Sizes, n >= 128
  PROVE  \E count \in Nat :
           /\ count = Len(BigEndian(n)) /\ count # 0
           /\ LengthBytes(n) \in Seq(Byte)
           /\ Len(LengthBytes(n)) = 1 + count /\ LengthBytes(n)[1] = 128 + count
           /\ SubSeq(LengthBytes(n), 2, 1 + count) = BigEndian(n)
<1>1. PICK raw \in Seq(Byte) : raw = BigEndian(n) /\ (Len(raw) = 1 \/ Len(raw) = 2)
  BY BigEndianReads
<1>2. PICK count \in Nat : count = Len(raw) /\ count # 0 /\ 128 + count \in Byte
  <2>1. PICK count \in {1, 2} : count = Len(raw)
    BY <1>1
  <2>2. count \in Nat /\ count # 0 /\ 128 + count \in Byte
    BY DEF Byte
  <2> QED BY <2>1, <2>2
<1>3. LengthBytes(n) = <<128 + count>> \o raw
  <2>1. ~(n < 128)
    BY DEF Sizes
  <2> QED BY <2>1, <1>1, <1>2 DEF LengthBytes
<1>4. /\ <<128 + count>> \o raw \in Seq(Byte)
      /\ Len(<<128 + count>> \o raw) = 1 + Len(raw)
      /\ (<<128 + count>> \o raw)[1] = 128 + count
      /\ SubSeq(<<128 + count>> \o raw, 2, 1 + Len(raw)) = raw
  BY <1>2, HeadAndRest
<1>5. /\ LengthBytes(n) \in Seq(Byte)
      /\ Len(LengthBytes(n)) = 1 + count /\ LengthBytes(n)[1] = 128 + count
      /\ SubSeq(LengthBytes(n), 2, 1 + count) = BigEndian(n)
  BY <1>1, <1>2, <1>3, <1>4
<1> QED BY <1>1, <1>2, <1>5
-----------------------------------------------------------------------------
\* read_tlv on a length of one byte, and on one of more.
LEMMA ShortRead ==
  ASSUME NEW data, NEW off \in Nat, NEW n \in Nat, Len(data) \in Nat,
         n < 128, data[off + 2] = n, off + 2 + n <= Len(data)
  PROVE  ReadTlv(data, off) = [tag |-> data[off + 1], end |-> off + 2 + n,
                               value |-> SubSeq(data, off + 2 + 1, off + 2 + n)]
<1>1. ~LongForm(data, off)
  BY DEF LongForm
<1>2. /\ ContentAt(data, off) = off + 2
      /\ ContentEnd(data, off) = off + 2 + n
  BY <1>1 DEF CountOf, ContentAt, ContentSize, ContentEnd
<1>3. ~(off + 2 > Len(data)) /\ ~(off + 2 + n > Len(data))
  OBVIOUS
<1> QED BY <1>1, <1>2, <1>3 DEF ReadTlv

LEMMA LongRead ==
  ASSUME NEW data, NEW off \in Nat, NEW n \in Nat, NEW count \in Nat, Len(data) \in Nat,
         count # 0, data[off + 2] = 128 + count,
         FromBigEndian(SubSeq(data, off + 3, off + 2 + count)) = n,
         off + 2 + count + n <= Len(data)
  PROVE  ReadTlv(data, off) = [tag |-> data[off + 1], end |-> off + 2 + count + n,
                               value |-> SubSeq(data, off + 2 + count + 1, off + 2 + count + n)]
<1>1. LongForm(data, off) /\ CountOf(data, off) = count
  BY DEF LongForm, CountOf
<1>2. ContentAt(data, off) = off + 2 + count
  BY <1>1 DEF ContentAt
<1>3. ContentSize(data, off) = n
  BY <1>1, <1>2 DEF ContentSize
<1>4. ContentEnd(data, off) = off + 2 + count + n
  BY <1>2, <1>3 DEF ContentEnd
<1>5. /\ ~(off + 2 > Len(data)) /\ ~(off + 2 + count > Len(data))
      /\ ~(off + 2 + count + n > Len(data))
  OBVIOUS
<1> QED BY <1>1, <1>2, <1>4, <1>5 DEF ReadTlv

\* The length that stands in data is read, and the content behind it.
LEMMA LengthIsRead ==
  ASSUME NEW data \in Seq(Byte), NEW off \in Nat, NEW n \in Sizes, NEW size \in Seq(Byte),
         size = LengthBytes(n), off + 1 + Len(size) + n <= Len(data),
         \A k \in 1..Len(size) : data[off + 1 + k] = size[k]
  PROVE  ReadTlv(data, off) = [tag |-> data[off + 1], end |-> off + 1 + Len(size) + n,
                               value |-> SubSeq(data, off + 1 + Len(size) + 1,
                                                off + 1 + Len(size) + n)]
<1>1. n \in Nat /\ Len(data) \in Nat /\ Len(size) \in Nat
  BY DEF Sizes
<1>2. CASE n < 128
  <2>1. Len(size) = 1 /\ size[1] = n
    BY <1>1, <1>2, ShortLength
  <2>2. data[off + 2] = n /\ off + 2 + n <= Len(data)
    <3>1. data[off + 1 + 1] = size[1] /\ off + 1 + 1 = off + 2
      BY <2>1
    <3> QED BY <2>1, <3>1, <1>1
  <2>3. ReadTlv(data, off) = [tag |-> data[off + 1], end |-> off + 2 + n,
                              value |-> SubSeq(data, off + 2 + 1, off + 2 + n)]
    BY <2>2, <1>1, <1>2, ShortRead
  <2>4. off + 1 + Len(size) = off + 2
    BY <2>1
  <2> QED BY <2>3, <2>4
<1>3. CASE n >= 128
  <2>1. PICK count \in Nat : /\ count = Len(BigEndian(n)) /\ count # 0
                             /\ Len(size) = 1 + count /\ size[1] = 128 + count
                             /\ SubSeq(size, 2, 1 + count) = BigEndian(n)
    BY <1>3, LongLength
  <2>2. off + 1 + Len(size) = off + 2 + count
    BY <2>1
  <2>3. data[off + 2] = 128 + count /\ off + 2 + count + n <= Len(data)
    <3>1. 1 \in 1..Len(size) /\ off + 1 + 1 = off + 2
      BY <2>1
    <3>2. data[off + 1 + 1] = size[1]
      BY <3>1
    <3> QED BY <2>1, <2>2, <3>1, <3>2
  <2>4. SubSeq(data, off + 3, off + 2 + count) = BigEndian(n)
    <3>1. PICK raw \in Seq(Byte) : raw = BigEndian(n) /\ Len(raw) = count
      BY <2>1, BigEndianReads
    <3>2. \A k \in 1..Len(raw) : raw[k] = size[1 + k]
      BY <2>1, <3>1
    <3>3. \A k \in 1..Len(raw) : data[off + 2 + k] = raw[k]
      <4>1. \A k \in 1..Len(raw) : 1 + k \in 1..Len(size) /\ off + 1 + (1 + k) = off + 2 + k
        BY <2>1, <3>1
      <4> QED BY <3>2, <4>1
    <3>4. off + 2 \in Nat /\ off + 2 + Len(raw) <= Len(data)
      BY <2>3, <3>1, <1>1
    <3>5. SubSeq(data, off + 2 + 1, off + 2 + Len(raw)) = raw
      BY <3>3, <3>4, PieceFound
    <3>6. off + 2 + 1 = off + 3
      OBVIOUS
    <3> QED BY <3>1, <3>5, <3>6
  <2>5. FromBigEndian(SubSeq(data, off + 3, off + 2 + count)) = n
    BY <2>4, BigEndianReads
  <2>6. ReadTlv(data, off) = [tag |-> data[off + 1], end |-> off + 2 + count + n,
                              value |-> SubSeq(data, off + 2 + count + 1, off + 2 + count + n)]
    <3>1. /\ n \in Nat /\ Len(data) \in Nat /\ count # 0 /\ data[off + 2] = 128 + count
          /\ FromBigEndian(SubSeq(data, off + 3, off + 2 + count)) = n
          /\ off + 2 + count + n <= Len(data)
      BY <2>1, <2>3, <2>5, <1>1
    <3> QED BY ONLY <3>1, off \in Nat, count \in Nat, LongRead
  <2> QED BY <2>2, <2>6
<1> QED BY <1>1, <1>2, <1>3

\* A value that tlv wrote is read back by read_tlv with its tag and content,
\* and the offset behind it, from any place in any data (WUEFI_crypto_sbsign.py
\* writes the length, WUEFI_crypto.py reads it).
THEOREM WrittenTlvIsRead ==
  ASSUME NEW tag \in Byte, NEW content \in Seq(Byte), Len(content) \in Sizes,
         NEW pre \in Seq(Byte), NEW post \in Seq(Byte)
  PROVE  ReadTlv(pre \o Tlv(tag, content) \o post, Len(pre))
           = [tag |-> tag, value |-> content, end |-> Len(pre) + Len(Tlv(tag, content))]
<1>1. PICK n \in Sizes : n = Len(content) /\ n \in Nat
  BY DEF Sizes
<1>2. PICK size \in Seq(Byte) : size = LengthBytes(n)
  <2>1. n < 128 \/ n >= 128
    BY <1>1
  <2> QED BY <1>1, <2>1, ShortLength, LongLength
<1>3. PICK off \in Nat : off = Len(pre)
  OBVIOUS
<1>4. Tlv(tag, content) = <<tag>> \o size \o content
  BY <1>1, <1>2 DEF Tlv
<1>5. Len(Tlv(tag, content)) = 1 + Len(size) + n
  BY <1>1, <1>4
<1>6. PICK data : data = Joined(pre, tag, size, content, post)
  OBVIOUS
<1>7. /\ data \in Seq(Byte)
      /\ Len(data) = Len(pre) + 1 + Len(size) + Len(content) + Len(post)
      /\ data[Len(pre) + 1] = tag
      /\ \A k \in 1..Len(size) : data[Len(pre) + 1 + k] = size[k]
      /\ \A k \in 1..Len(content) : data[Len(pre) + 1 + Len(size) + k] = content[k]
  <2>1. StandIn(Joined(pre, tag, size, content, post), Byte, pre, tag, size, content, post)
    BY Pieces
  <2> QED BY <1>6, <2>1 DEF StandIn
<1>8. off + 1 + Len(size) + n <= Len(data) /\ off + 1 + Len(size) \in Nat
  <2>1. Len(size) \in Nat /\ Len(post) \in Nat
    OBVIOUS
  <2> QED BY <2>1, <1>1, <1>3, <1>7
<1>9. ReadTlv(data, off) = [tag |-> data[off + 1], end |-> off + 1 + Len(size) + n,
                            value |-> SubSeq(data, off + 1 + Len(size) + 1,
                                             off + 1 + Len(size) + n)]
  <2>1. \A k \in 1..Len(size) : data[off + 1 + k] = size[k]
    BY <1>3, <1>7
  <2> QED BY <2>1, <1>2, <1>7, <1>8, LengthIsRead
<1>10. SubSeq(data, off + 1 + Len(size) + 1, off + 1 + Len(size) + n) = content
  <2>1. \A k \in 1..Len(content) : data[off + 1 + Len(size) + k] = content[k]
    BY <1>3, <1>7
  <2>2. off + 1 + Len(size) + Len(content) <= Len(data)
    BY <1>1, <1>8
  <2>3. SubSeq(data, off + 1 + Len(size) + 1, off + 1 + Len(size) + Len(content)) = content
    BY <2>1, <2>2, <1>7, <1>8, PieceFound
  <2> QED BY <2>3, <1>1
<1>11. off + 1 + Len(size) + n = off + (1 + Len(size) + n)
  <2>1. Len(size) \in Nat
    OBVIOUS
  <2> QED BY <2>1, <1>1
<1>12. data = pre \o Tlv(tag, content) \o post
  BY <1>4, <1>6 DEF Joined
<1> QED BY <1>3, <1>5, <1>7, <1>9, <1>10, <1>11, <1>12
-----------------------------------------------------------------------------
(***************************************************************************)
(* Sequences of values, read one after the other.                          *)
(***************************************************************************)
LEMMA HasLeast ==
  ASSUME NEW T, T \subseteq Nat, T # {}
  PROVE  \E x \in T : \A y \in T : x <= y
<1> DEFINE R == OpToRel(<, Nat)
<1>1. IsWellFoundedOn(R, Nat)
  BY Zenon, NatLessThanWellFounded
<1>2. \A x, y \in Nat : <<y, x>> \in R <=> y < x
  BY DEF OpToRel
<1> HIDE DEF R
<1>3. PICK x \in T : \A y \in T : ~(<<y, x>> \in R)
  BY <1>1, WFMin
<1>4. ASSUME NEW y \in T PROVE x <= y
  <2>1. x \in Nat /\ y \in Nat /\ ~(y < x)
    BY <1>2, <1>3
  <2> QED BY <2>1
<1> QED BY <1>4

LEMMA Along ==
  ASSUME NEW n \in Nat, NEW T, 0 \in T, \A k \in 1..n : k - 1 \in T => k \in T
  PROVE  \A k \in 0..n : k \in T
<1> DEFINE bad == (0..n) \ T
<1>1. SUFFICES ASSUME bad # {} PROVE FALSE
  OBVIOUS
<1>2. bad \subseteq Nat
  OBVIOUS
<1>3. PICK x \in bad : \A y \in bad : x <= y
  BY <1>1, <1>2, HasLeast
<1>4. x \in 1..n /\ x - 1 \in 0..n /\ ~(x <= x - 1)
  OBVIOUS
<1>5. x - 1 \in T
  BY <1>3, <1>4
<1> QED BY <1>4, <1>5

\* What FlattenSeq joins is found in what it gives: up to each element, and behind it.
JoinedUp(f, seqs) == /\ f[0] = <<>>
                     /\ \A k \in 1..Len(seqs) : f[k] = f[k - 1] \o seqs[k]

LEMMA PrefixesExist ==
  ASSUME NEW S, NEW seqs \in Seq(Seq(S))
  PROVE  \E f \in [0..Len(seqs) -> Seq(S)] : JoinedUp(f, seqs)
<1> DEFINE n == Len(seqs)
           Up(f, m) == f[0] = <<>> /\ \A k \in 1..m : f[k] = f[k - 1] \o seqs[k]
           T == {m \in 0..n : \E f \in [0..m -> Seq(S)] : Up(f, m)}
<1>0. n \in Nat
  OBVIOUS
<1>1. 0 \in T
  <2>1. [k \in 0..0 |-> <<>>] \in [0..0 -> Seq(S)] /\ Up([k \in 0..0 |-> <<>>], 0)
    BY ShortSeqs
  <2>2. \E f \in [0..0 -> Seq(S)] : Up(f, 0)
    <3> HIDE DEF Up
    <3> QED BY <2>1
  <2> HIDE DEF Up, n
  <2> QED BY <1>0, <2>2
<1>2. ASSUME NEW m \in 1..n, m - 1 \in T PROVE m \in T
  <2>1. PICK f \in [0..(m - 1) -> Seq(S)] : Up(f, m - 1)
    BY <1>2
  <2> DEFINE h == [k \in 0..m |-> IF k = m THEN f[m - 1] \o seqs[m] ELSE f[k]]
  <2>2. f[m - 1] \o seqs[m] \in Seq(S)
    OBVIOUS
  <2>3. \A k \in 0..m : (k # m => k \in 0..(m - 1)) /\ h[k] \in Seq(S)
    BY <2>2
  <2>4. h \in [0..m -> Seq(S)]
    BY <2>3
  <2>5. m \in 0..m /\ h[m] = f[m - 1] \o seqs[m]
    <3>1. m \in 0..m
      <4> HIDE DEF n
      <4> QED BY <1>0
    <3> QED BY <3>1, Zenon
  <2>6. \A k \in 0..(m - 1) : h[k] = f[k]
    <3> SUFFICES ASSUME NEW k \in 0..(m - 1) PROVE h[k] = f[k]
      OBVIOUS
    <3>1. k \in 0..m /\ k # m
      <4> HIDE DEF n
      <4> QED BY <1>0
    <3> QED BY <3>1, Zenon
  <2> HIDE DEF h
  <2>7. h[0] = <<>>
    BY <2>1, <2>6
  <2>8. ASSUME NEW k \in 1..m PROVE h[k] = h[k - 1] \o seqs[k]
    <3>1. k - 1 \in 0..(m - 1) /\ h[k - 1] = f[k - 1]
      BY <2>6
    <3>2. CASE k = m
      BY <2>5, <3>1, <3>2
    <3>3. CASE k # m
      <4>1. k \in 1..(m - 1) /\ k \in 0..(m - 1)
        BY <3>3
      <4>2. f[k] = f[k - 1] \o seqs[k]
        BY <2>1, <4>1
      <4> QED BY <2>6, <3>1, <4>1, <4>2
    <3> QED BY <3>2, <3>3
  <2>9. Up(h, m)
    BY <2>7, <2>8
  <2> HIDE DEF Up
  <2> QED BY <2>4, <2>9
<1>3. \A k \in 1..n : k - 1 \in T => k \in T
  BY <1>2
<1>4. n \in T
  <2>1. n \in 0..n
    BY <1>0
  <2> HIDE DEF T, n
  <2> QED BY <1>0, <1>1, <1>3, <2>1, Along
<1> QED BY <1>4 DEF T, JoinedUp

LEMMA FlattenIs ==
  ASSUME NEW S, NEW seqs \in Seq(Seq(S))
  PROVE  \E f \in [0..Len(seqs) -> Seq(S)] :
            JoinedUp(f, seqs) /\ FlattenSeq(seqs) = f[Len(seqs)]
<1> DEFINE n == Len(seqs)
           Is(g) == g = [i \in 1..n |-> IF i = 1 THEN seqs[i] ELSE g[i - 1] \o seqs[i]]
           flat == CHOOSE g : Is(g)
<1>1. PICK f \in [0..n -> Seq(S)] : JoinedUp(f, seqs)
  BY PrefixesExist
<1>2. CASE n = 0
  <2>1. FlattenSeq(seqs) = seqs /\ seqs = <<>>
    BY <1>2 DEF FlattenSeq
  <2> QED BY <1>1, <1>2, <2>1 DEF JoinedUp
<1>3. CASE n # 0
  <2>1. FlattenSeq(seqs) = flat[n]
    BY <1>3 DEF FlattenSeq
  <2> DEFINE g == [i \in 1..n |-> f[i]]
  <2>2. \A i \in 1..n : i # 1 => i - 1 \in 1..n
    OBVIOUS
  <2>3. \A i \in 1..n : g[i] = IF i = 1 THEN seqs[i] ELSE g[i - 1] \o seqs[i]
    <3>1. ASSUME NEW i \in 1..n, i = 1 PROVE f[i] = seqs[i]
      <4>1. f[1] = f[0] \o seqs[1] /\ f[0] = <<>>
        <5>1. 1 - 1 = 0 /\ 1 \in 1..n
          BY <3>1
        <5> QED BY <1>1, <5>1 DEF JoinedUp
      <4>2. seqs[1] \in Seq(S)
        BY <3>1
      <4> QED BY <3>1, <4>1, <4>2
    <3> QED BY <1>1, <2>2, <3>1 DEF JoinedUp
  <2>4. Is(g)
    <3>1. g = [i \in 1..n |-> g[i]]
      OBVIOUS
    <3> HIDE DEF g
    <3> QED BY <2>3, <3>1
  <2>5. Is(flat)
    <3> HIDE DEF Is
    <3> QED BY <2>4
  <2> HIDE DEF flat
  <2>6. \A i \in 1..n : flat[i] = IF i = 1 THEN seqs[i] ELSE flat[i - 1] \o seqs[i]
    BY <2>5
  <2> DEFINE T == {m \in 0..n : m = 0 \/ flat[m] = f[m]}
  <2>7. ASSUME NEW m \in 1..n, m - 1 \in T PROVE m \in T
    <3>1. flat[m] = IF m = 1 THEN seqs[m] ELSE flat[m - 1] \o seqs[m]
      BY <2>6
    <3>2. f[m] = IF m = 1 THEN seqs[m] ELSE f[m - 1] \o seqs[m]
      <4>1. g[m] = f[m] /\ (m # 1 => g[m - 1] = f[m - 1])
        BY <2>2
      <4> HIDE DEF g
      <4> QED BY <2>3, <4>1
    <3>3. m # 1 => flat[m - 1] = f[m - 1]
      BY <2>7
    <3> QED BY <3>1, <3>2, <3>3
  <2>8. 0 \in T /\ n \in 0..n /\ n \in Nat
    OBVIOUS
  <2>9. n \in T
    <3>1. \A m \in 1..n : m - 1 \in T => m \in T
      BY <2>7
    <3> HIDE DEF T, n
    <3> QED BY <2>8, <3>1, Along
  <2> QED BY <1>1, <1>3, <2>1, <2>9
<1> QED BY <1>2, <1>3

LEMMA Associative ==
  ASSUME NEW S
  PROVE  \A a, b, c \in Seq(S) : (a \o b) \o c = a \o (b \o c) /\ b \o c \in Seq(S)
OBVIOUS

LEMMA BehindEach ==
  ASSUME NEW S, NEW seqs \in Seq(Seq(S)), NEW f \in [0..Len(seqs) -> Seq(S)], JoinedUp(f, seqs)
  PROVE  \A k \in 0..Len(seqs) : \E rest \in Seq(S) : f[Len(seqs)] = f[k] \o rest
<1> DEFINE n == Len(seqs)
           T == {m \in 0..n : \E rest \in Seq(S) : f[n] = f[n - m] \o rest}
<1>0. /\ n \in Nat /\ \A k \in 1..n : seqs[k] \in Seq(S)
      /\ \A k \in 0..n : f[k] \in Seq(S)
  OBVIOUS
<1>1. 0 \in T
  <2>1. n - 0 = n /\ n \in 0..n /\ 0 \in 0..n
    BY <1>0
  <2>2. f[n] \in Seq(S)
    BY <2>1
  <2>3. f[n] = f[n] \o <<>> /\ <<>> \in Seq(S)
    BY <2>2
  <2>4. \E rest \in Seq(S) : f[n] = f[n - 0] \o rest
    BY <2>1, <2>3
  <2> HIDE DEF n
  <2> QED BY <2>1, <2>4
<1>2. ASSUME NEW m \in 1..n, m - 1 \in T PROVE m \in T
  <2>1. PICK rest \in Seq(S) : f[n] = f[n - (m - 1)] \o rest
    BY <1>2
  <2> DEFINE k == n - (m - 1)
  <2>2. k \in 1..n /\ k - 1 = n - m /\ k - 1 \in 0..n /\ k \in 0..n /\ m \in 0..n
    BY <1>0
  <2> HIDE DEF k
  <2>3. f[k] = f[k - 1] \o seqs[k]
    BY <2>2 DEF JoinedUp
  <2>4. seqs[k] \in Seq(S) /\ f[k - 1] \in Seq(S)
    BY <1>0, <2>2, Zenon
  <2>5. (f[k - 1] \o seqs[k]) \o rest = f[k - 1] \o (seqs[k] \o rest) /\ seqs[k] \o rest \in Seq(S)
    <3>1. \A a, b, c \in Seq(S) : (a \o b) \o c = a \o (b \o c) /\ b \o c \in Seq(S)
      BY Associative
    <3> QED BY <2>4, <3>1, Zenon
  <2>6. f[n] = f[n - m] \o (seqs[k] \o rest)
    BY <2>1, <2>2, <2>3, <2>5 DEF k
  <2> HIDE DEF n
  <2> QED BY <2>2, <2>5, <2>6
<1>3. \A m \in 1..n : m - 1 \in T => m \in T
  BY <1>2
<1>4. \A m \in 0..n : m \in T
  <2> HIDE DEF T, n
  <2> QED BY <1>0, <1>1, <1>3, Along
<1>5. ASSUME NEW k \in 0..n PROVE \E rest \in Seq(S) : f[n] = f[k] \o rest
  <2>1. n - k \in 0..n /\ n - (n - k) = k
    BY <1>0
  <2>2. n - k \in T
    BY <1>4, <2>1
  <2> HIDE DEF n
  <2> QED BY <2>1, <2>2
<1> QED BY <1>5

\* What tlv writes: two to four bytes, and the content.
LEMMA TlvSize ==
  ASSUME NEW tag \in Byte, NEW content \in Seq(Byte), Len(content) \in Sizes
  PROVE  /\ Tlv(tag, content) \in Seq(Byte)
         /\ Len(Tlv(tag, content)) \in (Len(content) + 2)..(Len(content) + 4)
<1>1. PICK n \in Sizes : n = Len(content) /\ n \in Nat
  BY DEF Sizes
<1>2. PICK size \in Seq(Byte) : size = LengthBytes(n) /\ Len(size) \in 1..3
  <2>1. CASE n < 128
    BY <1>1, <2>1, ShortLength
  <2>2. CASE n >= 128
    <3>1. PICK count \in Nat : /\ count = Len(BigEndian(n))
                              /\ LengthBytes(n) \in Seq(Byte) /\ Len(LengthBytes(n)) = 1 + count
      BY <2>2, LongLength
    <3>2. count = 1 \/ count = 2
      BY <3>1, BigEndianReads
    <3>3. PICK size \in Seq(Byte) : size = LengthBytes(n) /\ Len(size) = 1 + count
      BY <3>1
    <3>4. Len(size) \in 1..3
      BY <3>2, <3>3
    <3> QED BY <3>3, <3>4
  <2> QED BY <1>1, <2>1, <2>2
<1>3. Tlv(tag, content) = <<tag>> \o size \o content
  BY <1>1, <1>2 DEF Tlv
<1>4. /\ <<tag>> \o size \o content \in Seq(Byte)
      /\ Len(<<tag>> \o size \o content) = 1 + Len(size) + Len(content)
  OBVIOUS
<1>5. Len(Tlv(tag, content)) = 1 + Len(size) + n
  BY <1>1, <1>3, <1>4
<1>6. 1 + Len(size) + n \in (n + 2)..(n + 4)
  <2>1. PICK k \in 1..3 : k = Len(size)
    BY <1>2
  <2>2. 1 + k + n \in (n + 2)..(n + 4)
    BY <1>1
  <2> QED BY <2>1, <2>2
<1> QED BY <1>1, <1>3, <1>4, <1>5, <1>6, Zenon

\* Values that tlv wrote one behind the other, with their tags and contents.
Written(items, tags, contents) ==
    /\ items \in Seq(Seq(Byte)) /\ tags \in Seq(Byte) /\ contents \in Seq(Seq(Byte))
    /\ Len(tags) = Len(items) /\ Len(contents) = Len(items)
    /\ \A k \in 1..Len(items) : /\ Len(contents[k]) \in Sizes
                               /\ items[k] = Tlv(tags[k], contents[k])

\* Where each of them ends.
Ends(off, items) == /\ off[0] = 0 /\ off[Len(items)] = Len(FlattenSeq(items))
                    /\ \A k \in 1..Len(items) : /\ off[k] = off[k - 1] + Len(items[k])
                                               /\ off[k - 1] + 2 <= off[k]
ReadAt(data, off, tags, contents, k) ==
    ReadTlv(data, off[k - 1]) = [tag |-> tags[k], value |-> contents[k], end |-> off[k]]

LEMMA TlvsRead ==
  ASSUME NEW items, NEW tags, NEW contents, Written(items, tags, contents)
  PROVE  \E off \in [0..Len(items) -> Nat] :
           /\ FlattenSeq(items) \in Seq(Byte)
           /\ Ends(off, items)
           /\ \A k \in 1..Len(items) : ReadAt(FlattenSeq(items), off, tags, contents, k)
<1> DEFINE n == Len(items)
<1>1. /\ items \in Seq(Seq(Byte)) /\ n \in Nat
      /\ \A k \in 1..n : /\ tags[k] \in Byte /\ contents[k] \in Seq(Byte) /\ Len(contents[k]) \in Sizes
                         /\ items[k] = Tlv(tags[k], contents[k]) /\ items[k] \in Seq(Byte)
  BY DEF Written
<1>2. PICK f \in [0..n -> Seq(Byte)] : JoinedUp(f, items) /\ FlattenSeq(items) = f[n]
  BY <1>1, FlattenIs
<1>3. \A k \in 0..n : \E rest \in Seq(Byte) : f[n] = f[k] \o rest
  <2>1. items \in Seq(Seq(Byte)) /\ f \in [0..Len(items) -> Seq(Byte)] /\ JoinedUp(f, items)
    BY <1>1, <1>2
  <2>2. \A k \in 0..Len(items) : \E rest \in Seq(Byte) : f[Len(items)] = f[k] \o rest
    BY ONLY <2>1, BehindEach
  <2> QED BY <2>2
<1> DEFINE off == [k \in 0..n |-> Len(f[k])]
<1>4. off \in [0..n -> Nat] /\ n \in 0..n /\ 0 \in 0..n
  BY <1>1
<1> HIDE DEF n
<1>5. \A k \in 0..n : off[k] = Len(f[k]) /\ f[k] \in Seq(Byte)
  OBVIOUS
<1> HIDE DEF off
<1>6. off[0] = 0 /\ off[n] = Len(FlattenSeq(items)) /\ FlattenSeq(items) \in Seq(Byte)
  <2>1. f[0] = <<>>
    BY <1>2 DEF JoinedUp
  <2> QED BY <1>2, <1>4, <1>5, <2>1
<1>7. ASSUME NEW k \in 1..n
      PROVE  /\ off[k] = off[k - 1] + Len(items[k]) /\ off[k - 1] + 2 <= off[k]
             /\ ReadTlv(f[n], off[k - 1]) = [tag |-> tags[k], value |-> contents[k], end |-> off[k]]
  <2>1. k \in 0..n /\ k - 1 \in 0..n
    BY <1>1
  <2>2. PICK pre \in Seq(Byte) : pre = f[k - 1]
    BY <2>1
  <2>3. PICK tag \in Byte, content \in Seq(Byte) :
          tag = tags[k] /\ content = contents[k] /\ Len(content) \in Sizes /\ items[k] = Tlv(tag, content)
    BY <1>1
  <2>4. PICK rest \in Seq(Byte) : f[n] = f[k] \o rest
    BY <1>3, <2>1
  <2>5. f[k] = pre \o Tlv(tag, content)
    BY <1>2, <2>2, <2>3 DEF JoinedUp, n
  <2>6. ReadTlv(pre \o Tlv(tag, content) \o rest, Len(pre))
          = [tag |-> tag, value |-> content, end |-> Len(pre) + Len(Tlv(tag, content))]
    <3>1. Len(content) \in Sizes
      BY <2>3
    <3> QED BY ONLY <3>1, tag \in Byte, content \in Seq(Byte), pre \in Seq(Byte), rest \in Seq(Byte),
                    WrittenTlvIsRead
  <2>7. Tlv(tag, content) \in Seq(Byte) /\ Len(Tlv(tag, content)) \in Nat /\ Len(Tlv(tag, content)) >= 2
    <3>1. Len(content) \in Nat /\ Len(content) \in Sizes
      BY <2>3
    <3>2. /\ Tlv(tag, content) \in Seq(Byte)
          /\ Len(Tlv(tag, content)) \in (Len(content) + 2)..(Len(content) + 4)
      BY ONLY <3>1, tag \in Byte, content \in Seq(Byte), TlvSize
    <3> QED BY ONLY <3>1, <3>2
  <2>8. Len(f[k]) = Len(pre) + Len(Tlv(tag, content)) /\ Len(pre) \in Nat
    BY <2>5, <2>7
  <2>9. off[k] = Len(pre) + Len(Tlv(tag, content)) /\ off[k - 1] = Len(pre)
    BY <1>5, <2>1, <2>2, <2>8
  <2>10. ReadTlv(f[n], off[k - 1]) = [tag |-> tags[k], value |-> contents[k], end |-> off[k]]
    BY <2>3, <2>4, <2>5, <2>6, <2>9
  <2>11. off[k] = off[k - 1] + Len(items[k]) /\ off[k - 1] + 2 <= off[k]
    BY <2>3, <2>7, <2>8, <2>9
  <2> QED BY <2>10, <2>11
<1>8. Ends(off, items)
  BY <1>6, <1>7 DEF Ends, n
<1>9. \A k \in 1..n : ReadAt(FlattenSeq(items), off, tags, contents, k)
  BY <1>2, <1>7 DEF ReadAt
<1> QED BY <1>4, <1>6, <1>8, <1>9 DEF n
-----------------------------------------------------------------------------
(***************************************************************************)
(* The loop of from_x509_certder_get_pubkey over the fields of a content.  *)
(***************************************************************************)
LEMMA FromBigEndianIsNat ==
  ASSUME NEW raw \in Seq(Byte)
  PROVE  FromBigEndian(raw) \in Nat
<1>1. \A k \in 1..Len(raw) : raw[k] \in Nat
  <2> SUFFICES ASSUME NEW k \in 1..Len(raw) PROVE raw[k] \in Nat
    OBVIOUS
  <2>1. PICK b \in Byte : b = raw[k]
    OBVIOUS
  <2>2. b \in Nat
    BY DEF Byte
  <2> QED BY <2>1, <2>2, Zenon
<1> DEFINE digit(k) == IF k < Len(raw) THEN raw[Len(raw) - k] ELSE 0
<1>2. ASSUME NEW k \in 0..1 PROVE digit(k) \in Nat
  <2>1. CASE k < Len(raw)
    <3>1. Len(raw) - k \in 1..Len(raw)
      BY <2>1
    <3> QED BY <1>1, <2>1, <3>1
  <2>2. CASE ~(k < Len(raw))
    BY <2>2
  <2> QED BY <2>1, <2>2
<1>3. digit(0) \in Nat /\ digit(1) \in Nat
  BY <1>2
<1>4. FromBigEndian(raw) = IF \E k \in 1..(Len(raw) - 2) : raw[k] # 0 THEN MaxContent + 1
                           ELSE digit(0) + 256 * digit(1)
  BY DEF FromBigEndian
<1> HIDE DEF digit
<1> QED BY <1>3, <1>4 DEF MaxContent

\* What is read ends behind where it begins, and inside the data.
LEMMA ReadGoesOn ==
  ASSUME NEW data \in Seq(Byte), NEW off \in Nat, off < Len(data), ~Failed(ReadTlv(data, off))
  PROVE  ReadTlv(data, off).end \in (off + 1)..Len(data)
<1> DEFINE n == Len(data)
<1>0. n \in Nat
  OBVIOUS
<1>1. /\ ~(off + 2 > n) /\ ~(ContentEnd(data, off) > n) /\ ~(ContentAt(data, off) > n)
      /\ ReadTlv(data, off).end = ContentEnd(data, off)
  BY DEF ReadTlv, Failed
<1>2. off + 2 \in 1..n /\ data[off + 2] \in 0..255
  <2>1. off + 2 \in 1..n
    BY <1>0, <1>1
  <2>2. data[off + 2] \in Byte
    BY <2>1
  <2> QED BY <2>1, <2>2 DEF Byte
<1>3. CountOf(data, off) \in Nat /\ data[off + 2] \in Nat
  <2>1. PICK b \in 0..255 : b = data[off + 2]
    BY <1>2
  <2>2. (b >= 128 => b - 128 \in Nat) /\ b \in Nat
    OBVIOUS
  <2> QED BY <2>1, <2>2 DEF CountOf, LongForm
<1>4. ContentAt(data, off) \in (off + 2)..n
  BY <1>0, <1>1, <1>3 DEF ContentAt
<1>5. ContentSize(data, off) \in Nat
  <2>1. off + 3 \in 1..(n + 1) /\ ContentAt(data, off) \in 0..n
    BY <1>0, <1>4, <1>2
  <2>2. SubSeq(data, off + 3, ContentAt(data, off)) \in Seq(Byte)
    BY <2>1
  <2>3. FromBigEndian(SubSeq(data, off + 3, ContentAt(data, off))) \in Nat
    BY <2>2, FromBigEndianIsNat
  <2> QED BY <1>3, <2>3 DEF ContentSize
<1>6. ContentEnd(data, off) \in Nat /\ ContentEnd(data, off) >= off + 2
  BY <1>4, <1>5, <1>0 DEF ContentEnd
<1> QED BY <1>0, <1>1, <1>6

FieldsFrom(f, data, k) ==
    IF Failed(ReadTlv(data, k)) THEN <<ReadTlv(data, k)>>
    ELSE <<ReadTlv(data, k)>> \o f[ReadTlv(data, k).end]

LEMMA FieldsIs ==
  ASSUME NEW data \in Seq(Byte)
  PROVE  \E from : /\ \A k \in 0..Len(data) : Fields(data, k) = from[k]
                   /\ from[Len(data)] = <<>>
                   /\ \A k \in 0..(Len(data) - 1) : from[k] = FieldsFrom(from, data, k)
<1> DEFINE n == Len(data)
           Body(f, k) == IF k >= n THEN <<>>
                         ELSE IF Failed(ReadTlv(data, k)) THEN <<ReadTlv(data, k)>>
                         ELSE <<ReadTlv(data, k)>> \o f[ReadTlv(data, k).end]
           Is(f) == f = [k \in 0..n |-> Body(f, k)]
           Behind(f, c) == \A k \in c..n : f[k] = Body(f, k)
           T == {m \in 0..n : \E f : Behind(f, n - m)}
<1>0. n \in Nat
  OBVIOUS
<1>1. \A k \in 0..(n - 1) : ~Failed(ReadTlv(data, k)) => ReadTlv(data, k).end \in (k + 1)..n
  BY ReadGoesOn
<1> HIDE DEF n
<1>2. 0 \in T
  <2> DEFINE f == [k \in {n} |-> <<>>]
  <2>1. \A k \in (n - 0)..n : k = n /\ k >= n
    BY <1>0
  <2>2. Behind(f, n - 0)
    BY <2>1
  <2> HIDE DEF f, Behind
  <2> QED BY <1>0, <2>2
<1>3. ASSUME NEW m \in 1..n, m - 1 \in T PROVE m \in T
  <2> DEFINE c == n - m
  <2>1. PICK f : Behind(f, n - (m - 1))
    BY <1>3
  <2>2. c \in 0..(n - 1) /\ n - (m - 1) = c + 1
    BY <1>0
  <2>3. \A k \in (c + 1)..n : f[k] = Body(f, k)
    <3> HIDE DEF Body, c
    <3> QED BY <2>1, <2>2
  <2> DEFINE h == [k \in c..n |-> IF k = c THEN Body(f, c) ELSE f[k]]
  <2> HIDE DEF c
  <2>4. h[c] = Body(f, c)
    <3> HIDE DEF Body
    <3> QED BY <1>0, <2>2
  <2>5. \A k \in (c + 1)..n : h[k] = f[k]
    <3> HIDE DEF Body
    <3> QED BY <1>0, <2>2
  <2> HIDE DEF h
  <2>6. ASSUME NEW k \in c..n PROVE Body(f, k) = Body(h, k)
    <3>1. CASE k >= n \/ Failed(ReadTlv(data, k))
      BY <3>1
    <3>2. CASE ~(k >= n) /\ ~Failed(ReadTlv(data, k))
      <4>1. k \in 0..(n - 1)
        BY <1>0, <2>2, <3>2
      <4>2. ReadTlv(data, k).end \in (c + 1)..n
        BY <1>0, <1>1, <2>2, <3>2, <4>1
      <4>3. f[ReadTlv(data, k).end] = h[ReadTlv(data, k).end]
        BY <2>5, <4>2
      <4> QED BY <4>3
    <3> QED BY <3>1, <3>2
  <2>7. Behind(h, c)
    <3> SUFFICES ASSUME NEW k \in c..n PROVE h[k] = Body(h, k)
      OBVIOUS
    <3>1. k = c \/ k \in (c + 1)..n
      BY <1>0, <2>2
    <3>2. h[k] = Body(f, k)
      <4> HIDE DEF Body
      <4> QED BY <2>3, <2>4, <2>5, <3>1
    <3> HIDE DEF Body
    <3> QED BY <2>6, <3>2
  <2>8. \E f2 : Behind(f2, n - m)
    <3> HIDE DEF Behind
    <3> QED BY <2>7 DEF c
  <2>9. m \in 0..n
    BY <1>0
  <2> HIDE DEF Behind
  <2> QED BY <2>8, <2>9
<1>4. n \in T
  <2>1. \A m \in 1..n : m - 1 \in T => m \in T
    BY <1>3
  <2> HIDE DEF T
  <2>2. \A m \in 0..n : m \in T
    BY <1>0, <1>2, <2>1, Along
  <2> QED BY <1>0, <2>2
<1>5. PICK f : Behind(f, 0)
  <2>1. PICK f : Behind(f, n - n)
    BY <1>4
  <2>2. n - n = 0
    BY <1>0
  <2> HIDE DEF Behind
  <2> QED BY <2>1, <2>2
<1> DEFINE g == [k \in 0..n |-> f[k]]
<1>6. Is(g)
  <2>1. ASSUME NEW k \in 0..n PROVE g[k] = Body(g, k)
    <3>1. g[k] = Body(f, k)
      <4> HIDE DEF Body
      <4> QED BY <1>5
    <3>2. Body(f, k) = Body(g, k)
      <4> HIDE DEF g
      <4>1. \A j \in 0..n : g[j] = f[j]
        BY DEF g
      <4>2. CASE k >= n \/ Failed(ReadTlv(data, k))
        BY <4>2
      <4>3. CASE ~(k >= n) /\ ~Failed(ReadTlv(data, k))
        <5>1. k \in 0..(n - 1)
          BY <1>0, <4>3
        <5>2. ReadTlv(data, k).end \in 0..n
          BY <1>0, <1>1, <4>3, <5>1
        <5>3. f[ReadTlv(data, k).end] = g[ReadTlv(data, k).end]
          BY <4>1, <5>2
        <5> QED BY <5>3
      <4> QED BY <4>2, <4>3
    <3> HIDE DEF Body, g
    <3> QED BY <3>1, <3>2
  <2> HIDE DEF Body
  <2>2. g = [k \in 0..n |-> g[k]]
    OBVIOUS
  <2> HIDE DEF g
  <2> QED BY <2>1, <2>2
<1> DEFINE from == CHOOSE h : Is(h)
<1>7. Is(from)
  <2> HIDE DEF Is
  <2> QED BY <1>6
<1>8. ASSUME NEW k \in 0..n PROVE Fields(data, k) = from[k]
  BY DEF Fields, n
<1> HIDE DEF from
<1>9. \A k \in 0..n : from[k] = Body(from, k)
  <2> HIDE DEF Body
  <2> QED BY <1>7
<1>10. from[n] = <<>>
  <2>1. n \in 0..n /\ n >= n
    BY <1>0
  <2> QED BY <1>9, <2>1
<1>11. ASSUME NEW k \in 0..(n - 1) PROVE from[k] = FieldsFrom(from, data, k)
  <2>1. k \in 0..n /\ ~(k >= n)
    BY <1>0
  <2>2. from[k] = Body(from, k)
    <3> HIDE DEF Body
    <3> QED BY <1>9, <2>1
  <2> QED BY <2>1, <2>2 DEF FieldsFrom
<1> QED BY <1>8, <1>10, <1>11 DEF n

\* Values written one behind the other are the fields that the loop finds, from
\* each on, for any number of them.
LEMMA RestOf ==
  ASSUME NEW S, NEW s \in Seq(S), NEW k \in 1..Len(s)
  PROVE  /\ <<s[k]>> \o SubSeq(s, k + 1, Len(s)) = SubSeq(s, k, Len(s))
         /\ SubSeq(s, Len(s) + 1, Len(s)) = <<>>
OBVIOUS

FieldsOf(off, tags, contents) ==
    [k \in 1..Len(tags) |-> [tag |-> tags[k], value |-> contents[k], end |-> off[k]]]

LEMMA FieldsRead ==
  ASSUME NEW items, NEW tags, NEW contents, Written(items, tags, contents), Len(items) # 0
  PROVE  \E off \in [0..Len(items) -> Nat] :
           /\ FlattenSeq(items) \in Seq(Byte) /\ Ends(off, items)
           /\ FieldsOf(off, tags, contents) \in Seq(Tlvs)
           /\ \A k \in 1..Len(items) :
                /\ ReadAt(FlattenSeq(items), off, tags, contents, k)
                /\ Fields(FlattenSeq(items), off[k - 1])
                     = SubSeq(FieldsOf(off, tags, contents), k, Len(items))
<1> DEFINE n == Len(items)
<1>1. PICK off \in [0..n -> Nat] :
        /\ FlattenSeq(items) \in Seq(Byte) /\ Ends(off, items)
        /\ \A k \in 1..n : ReadAt(FlattenSeq(items), off, tags, contents, k)
  BY TlvsRead
<1>2. n \in Nat /\ n # 0 /\ Len(tags) = n /\ \A k \in 1..n : tags[k] \in Byte /\ contents[k] \in Seq(Byte)
  BY DEF Written
<1> DEFINE fields == FieldsOf(off, tags, contents)
           data == FlattenSeq(items)
<1>3. off[0] = 0 /\ off[n] = Len(data) /\ \A k \in 1..n : off[k - 1] + 2 <= off[k]
  BY <1>1 DEF Ends
<1>4. fields \in Seq(Tlvs) /\ Len(fields) = n
  <2>1. \A k \in 1..n : [tag |-> tags[k], value |-> contents[k], end |-> off[k]] \in Tlvs
    <3>1. \A k \in 1..n : off[k] \in Nat
      BY <1>2
    <3> QED BY <1>2, <3>1 DEF Tlvs
  <2>2. fields = [k \in 1..n |-> [tag |-> tags[k], value |-> contents[k], end |-> off[k]]]
    BY <1>2 DEF FieldsOf
  <2> QED BY <1>2, <2>1, <2>2
<1>5. \A k \in 1..n : /\ fields[k] = [tag |-> tags[k], value |-> contents[k], end |-> off[k]]
                      /\ fields[k] = ReadTlv(data, off[k - 1]) /\ fields[k] \in Tlvs /\ fields[k].end = off[k]
  <2>1. \A k \in 1..n : fields[k] = [tag |-> tags[k], value |-> contents[k], end |-> off[k]]
    BY <1>2 DEF FieldsOf
  <2>2. \A k \in 1..n : fields[k] \in Tlvs
    BY <1>4
  <2>3. \A k \in 1..n : ReadTlv(data, off[k - 1]) = [tag |-> tags[k], value |-> contents[k], end |-> off[k]]
    BY <1>1 DEF ReadAt
  <2> HIDE DEF fields, data
  <2> QED BY <2>1, <2>2, <2>3
<1>6. data \in Seq(Byte) /\ Len(data) \in Nat
  BY <1>1
<1>7. PICK from : /\ \A k \in 0..Len(data) : Fields(data, k) = from[k]
                  /\ from[Len(data)] = <<>>
                  /\ \A k \in 0..(Len(data) - 1) : from[k] = FieldsFrom(from, data, k)
  BY <1>6, FieldsIs
<1> HIDE DEF n, fields, data
<1>8. \A k \in 0..n : off[k] \in 0..Len(data) /\ (k # n => off[k] \in 0..(Len(data) - 1))
  <2> DEFINE T == {m \in 0..n : /\ off[n - m] <= Len(data)
                                /\ m # 0 => off[n - m] <= Len(data) - 1}
  <2>1. 0 \in T
    <3>1. n - 0 = n /\ Len(data) <= Len(data) /\ 0 \in 0..n
      BY <1>2, <1>6
    <3> QED BY <1>3, <3>1
  <2>2. ASSUME NEW m \in 1..n, m - 1 \in T PROVE m \in T
    <3>1. /\ n - (m - 1) \in 1..n /\ (n - (m - 1)) - 1 = n - m /\ m \in 0..n /\ n - m \in 0..n
          /\ n - (m - 1) \in 0..n
      BY <1>2
    <3>2. off[n - m] + 2 <= off[n - (m - 1)] /\ off[n - (m - 1)] <= Len(data)
      BY <1>3, <2>2, <3>1
    <3>3. off[n - m] \in Nat /\ off[n - (m - 1)] \in Nat
      BY <3>1
    <3>4. off[n - m] <= Len(data) /\ off[n - m] <= Len(data) - 1
      BY <1>6, <3>2, <3>3
    <3> QED BY <3>1, <3>4
  <2>3. \A m \in 0..n : m \in T
    <3>1. \A m \in 1..n : m - 1 \in T => m \in T
      BY <2>2
    <3> HIDE DEF T
    <3> QED BY <1>2, <2>1, <3>1, Along
  <2> SUFFICES ASSUME NEW k \in 0..n
               PROVE  off[k] \in 0..Len(data) /\ (k # n => off[k] \in 0..(Len(data) - 1))
    OBVIOUS
  <2>4. n - k \in 0..n /\ n - (n - k) = k /\ (k # n => n - k # 0)
    BY <1>2
  <2>5. n - k \in T
    BY <2>3, <2>4
  <2>6. off[k] \in Nat
    OBVIOUS
  <2> QED BY <1>6, <2>4, <2>5, <2>6
<1>9. ASSUME NEW k \in 1..n
      PROVE  from[off[k - 1]] = <<fields[k]>> \o from[off[k]]
  <2>1. k - 1 \in 0..n /\ k - 1 # n
    BY <1>2
  <2>2. from[off[k - 1]] = FieldsFrom(from, data, off[k - 1])
    BY <1>7, <1>8, <2>1
  <2>3. ReadTlv(data, off[k - 1]) = fields[k] /\ fields[k] \in Tlvs /\ fields[k].end = off[k]
    BY <1>5
  <2>4. ~Failed(fields[k])
    BY <2>3, OutcomesAssumption DEF Failed
  <2> QED BY <2>2, <2>3, <2>4 DEF FieldsFrom
<1> DEFINE U == {m \in 0..n : from[off[n - m]] = SubSeq(fields, n - m + 1, n)}
<1>10. 0 \in U
  <2>1. n - 0 = n /\ 0 \in 0..n
    BY <1>2
  <2>2. SubSeq(fields, n + 1, n) = <<>>
    <3>1. 1 \in 1..Len(fields)
      BY <1>2, <1>4
    <3> QED BY <1>4, <3>1, RestOf
  <2>3. from[off[n]] = <<>>
    BY <1>3, <1>7
  <2> QED BY <2>1, <2>2, <2>3
<1>11. ASSUME NEW m \in 1..n, m - 1 \in U PROVE m \in U
  <2> DEFINE k == n - m + 1
  <2>1. k \in 1..n /\ n - (m - 1) = k /\ k - 1 = n - m /\ n - (m - 1) + 1 = k + 1 /\ m \in 0..n
    BY <1>2
  <2>2. from[off[k]] = SubSeq(fields, k + 1, n)
    <3> HIDE DEF k
    <3> QED BY <1>11, <2>1
  <2> HIDE DEF k
  <2>3. from[off[k - 1]] = <<fields[k]>> \o SubSeq(fields, k + 1, n)
    BY <1>9, <2>1, <2>2
  <2>4. <<fields[k]>> \o SubSeq(fields, k + 1, n) = SubSeq(fields, k, n)
    BY <1>4, <2>1, RestOf
  <2>5. from[off[n - m]] = SubSeq(fields, n - m + 1, n)
    BY <2>1, <2>3, <2>4 DEF k
  <2> QED BY <2>1, <2>5
<1>12. \A m \in 0..n : m \in U
  <2>1. \A m \in 1..n : m - 1 \in U => m \in U
    BY <1>11
  <2> HIDE DEF U
  <2> QED BY <1>2, <1>10, <2>1, Along
<1>13. ASSUME NEW k \in 1..n PROVE Fields(data, off[k - 1]) = SubSeq(fields, k, n)
  <2>1. n - k + 1 \in 0..n /\ n - (n - k + 1) = k - 1 /\ n - (n - k + 1) + 1 = k /\ k - 1 \in 0..n
    BY <1>2
  <2>2. n - k + 1 \in U
    BY <1>12, <2>1
  <2>3. from[off[k - 1]] = SubSeq(fields, k, n)
    BY <2>1, <2>2
  <2> QED BY <1>7, <1>8, <2>1, <2>3
<1> QED BY <1>1, <1>4, <1>13 DEF n, fields, data
-----------------------------------------------------------------------------
(***************************************************************************)
(* The way of from_x509_certder_get_pubkey to the key.                     *)
(***************************************************************************)
LEMMA TlvRead ==
  ASSUME NEW tag \in Byte, NEW content \in Seq(Byte), Len(content) \in Sizes
  PROVE  /\ ReadTlv(Tlv(tag, content), 0) \in Tlvs
         /\ ReadTlv(Tlv(tag, content), 0).tag = tag
         /\ ReadTlv(Tlv(tag, content), 0).value = content
         /\ ReadTlv(Tlv(tag, content), 0).end = Len(Tlv(tag, content))
<1>1. PICK raw \in Seq(Byte) : raw = Tlv(tag, content)
  BY TlvSize
<1>2. ReadTlv(<<>> \o raw \o <<>>, Len(<<>>)) = [tag |-> tag, value |-> content, end |-> Len(<<>>) + Len(raw)]
  <2>1. <<>> \in Seq(Byte)
    OBVIOUS
  <2>2. ReadTlv(<<>> \o Tlv(tag, content) \o <<>>, Len(<<>>))
          = [tag |-> tag, value |-> content, end |-> Len(<<>>) + Len(Tlv(tag, content))]
    BY <2>1, WrittenTlvIsRead
  <2> QED BY <1>1, <2>2
<1>3. <<>> \o raw \o <<>> = raw /\ Len(<<>>) = 0 /\ 0 + Len(raw) = Len(raw) /\ Len(raw) \in Nat
  OBVIOUS
<1>4. ReadTlv(raw, 0) = [tag |-> tag, value |-> content, end |-> Len(raw)]
  BY <1>2, <1>3
<1> QED BY <1>1, <1>3, <1>4 DEF Tlvs

LEMMA NotFailed ==
  ASSUME NEW t \in Tlvs
  PROVE  ~Failed(t)
BY OutcomesAssumption DEF Failed

\* What the fields of joined values are, and where they are read.
Parsed(items, tags, contents, off, fields) ==
    /\ FlattenSeq(items) \in Seq(Byte)
    /\ off \in [0..Len(items) -> Nat] /\ off[0] = 0
    /\ fields \in Seq(Tlvs) /\ Len(fields) = Len(items) /\ Len(items) \in Nat
    /\ \A k \in 1..Len(items) :
         /\ fields[k].tag = tags[k] /\ fields[k].value = contents[k] /\ fields[k].end = off[k]
         /\ ReadTlv(FlattenSeq(items), off[k - 1]) = fields[k]
         /\ Fields(FlattenSeq(items), off[k - 1]) = SubSeq(fields, k, Len(items))

LEMMA FieldsParsed ==
  ASSUME NEW items, NEW tags, NEW contents, Written(items, tags, contents), Len(items) # 0
  PROVE  \E off, fields : Parsed(items, tags, contents, off, fields)
<1>1. PICK off \in [0..Len(items) -> Nat] :
        /\ FlattenSeq(items) \in Seq(Byte) /\ Ends(off, items)
        /\ FieldsOf(off, tags, contents) \in Seq(Tlvs)
        /\ \A k \in 1..Len(items) :
             /\ ReadAt(FlattenSeq(items), off, tags, contents, k)
             /\ Fields(FlattenSeq(items), off[k - 1])
                  = SubSeq(FieldsOf(off, tags, contents), k, Len(items))
  <2>1. Written(items, tags, contents) /\ Len(items) # 0
    OBVIOUS
  <2> QED BY ONLY <2>1, FieldsRead
<1>2. PICK fields : fields = FieldsOf(off, tags, contents)
  OBVIOUS
<1>3. Len(tags) = Len(items) /\ Len(items) \in Nat
  BY DEF Written
<1>4. \A k \in 1..Len(items) : fields[k] = [tag |-> tags[k], value |-> contents[k], end |-> off[k]]
  BY <1>2, <1>3 DEF FieldsOf
<1>5. Len(fields) = Len(items)
  BY <1>2, <1>3 DEF FieldsOf
<1>6. ASSUME NEW k \in 1..Len(items)
      PROVE  /\ fields[k].tag = tags[k] /\ fields[k].value = contents[k] /\ fields[k].end = off[k]
             /\ ReadTlv(FlattenSeq(items), off[k - 1]) = fields[k]
             /\ Fields(FlattenSeq(items), off[k - 1]) = SubSeq(fields, k, Len(items))
  <2>1. fields[k].tag = tags[k] /\ fields[k].value = contents[k] /\ fields[k].end = off[k]
    <3>1. fields[k] = [tag |-> tags[k], value |-> contents[k], end |-> off[k]]
      BY <1>4
    <3> QED BY ONLY <3>1
  <2>2. ReadTlv(FlattenSeq(items), off[k - 1]) = fields[k]
    BY <1>1, <1>4 DEF ReadAt
  <2> QED BY <1>1, <1>2, <2>1, <2>2
<1>7. off[0] = 0
  BY <1>1 DEF Ends
<1>8. fields \in Seq(Tlvs) /\ FlattenSeq(items) \in Seq(Byte) /\ off \in [0..Len(items) -> Nat]
  BY <1>1, <1>2
<1>9. Parsed(items, tags, contents, off, fields)
  BY ONLY <1>3, <1>5, <1>6, <1>7, <1>8, Zenon DEF Parsed
<1> QED BY ONLY <1>9, Zenon

\* The bit string behind the algorithm.
LEMMA BitStringIs ==
  ASSUME NEW items, NEW tags, NEW contents, Written(items, tags, contents), Len(items) = 2,
         NEW key \in Seq(Byte), tags[2] = 3, contents[2] = << 0 >> \o key
  PROVE  BitString(FlattenSeq(items)) = key
<1>1. PICK off, fields : Parsed(items, tags, contents, off, fields)
  <2>1. Written(items, tags, contents) /\ Len(items) # 0
    OBVIOUS
  <2> QED BY ONLY <2>1, FieldsParsed
<1> DEFINE data == FlattenSeq(items)
<1>2. 1 \in 1..Len(items) /\ 2 \in 1..Len(items) /\ 1 - 1 = 0 /\ 2 - 1 = 1
  OBVIOUS
<1>3. PICK algorithm \in Tlvs : algorithm = ReadTlv(data, 0) /\ algorithm.end = off[1]
  <2>1. fields[1] \in Tlvs /\ fields[1].end = off[1] /\ ReadTlv(data, off[0]) = fields[1] /\ off[0] = 0
    BY <1>1, <1>2 DEF Parsed
  <2> HIDE DEF data
  <2> QED BY <2>1
<1>4. PICK bits \in Tlvs : bits = ReadTlv(data, off[1]) /\ bits.tag = 3 /\ bits.value = <<0>> \o key
  <2>1. fields[2].tag = tags[2] /\ fields[2].value = contents[2] /\ ReadTlv(data, off[1]) = fields[2]
    BY <1>1, <1>2, Zenon DEF Parsed
  <2>2. fields[2] \in Tlvs
    BY <1>1, <1>2 DEF Parsed
  <2>3. fields[2].tag = 3 /\ fields[2].value = <<0>> \o key
    BY <2>1
  <2> HIDE DEF data
  <2> QED BY <2>1, <2>2, <2>3
<1>5. <<0>> \o key # <<>> /\ (<<0>> \o key)[1] = 0 /\ Tail(<<0>> \o key) = key
  OBVIOUS
<1>6. ~Failed(algorithm) /\ ~Failed(bits)
  BY NotFailed
<1> HIDE DEF data
<1>7. BitString(data) = Tail(bits.value)
  BY <1>3, <1>4, <1>5, <1>6 DEF BitString, Bind
<1> QED BY <1>4, <1>5, <1>7 DEF data

\* A content's fields: with a version in front or not, the sixth behind it.
LEMMA KeyInfoIs ==
  ASSUME NEW items, NEW tags, NEW contents, NEW off, NEW all, Parsed(items, tags, contents, off, all),
         NEW v \in {0, 1}, Len(items) >= 6 + v, tags[1 + v] = 2, tags[6 + v] = 48
  PROVE  KeyInfo(FlattenSeq(items), off[v]) = BitString(contents[6 + v])
<1> DEFINE n == Len(items)
           fields == SubSeq(all, v + 1, n)
<1>1. n \in Nat /\ Len(all) = n /\ all \in Seq(Tlvs)
  BY DEF Parsed
<1>2. all[1 + v].tag = 2 /\ all[6 + v].tag = 48 /\ all[6 + v].value = contents[6 + v]
  <2>1. 1 + v \in 1..n /\ 6 + v \in 1..n
    BY <1>1
  <2> QED BY <2>1 DEF Parsed
<1>3. fields \in Seq(Tlvs) /\ Len(fields) = n - v /\ n - v \in Nat
  BY <1>1
<1>4. fields[1] = all[1 + v] /\ fields[6] = all[6 + v]
  <2>1. 1 \in 1..(n - v) /\ 6 \in 1..(n - v) /\ v + 1 + 1 - 1 = 1 + v /\ v + 1 + 6 - 1 = 6 + v
    BY <1>1
  <2> QED BY <1>1, <2>1
<1>5. Fields(FlattenSeq(items), off[v]) = fields
  <2>1. 1 + v \in 1..n /\ (1 + v) - 1 = v /\ 1 + v = v + 1
    BY <1>1
  <2>2. Fields(FlattenSeq(items), off[(1 + v) - 1]) = SubSeq(all, 1 + v, n)
    BY <2>1 DEF Parsed
  <2> QED BY <2>1, <2>2
<1> HIDE DEF fields
<1>6. PICK f : f = fields /\ f[1].tag = 2 /\ f[6].tag = 48 /\ f[6].value = contents[6 + v] /\ Len(f) >= 6
  <2>1. n - v >= 6
    BY <1>1
  <2> QED BY <1>2, <1>3, <1>4, <2>1
<1>7. ~Failed(Last(f)) /\ f # <<>>
  <2>1. n - v >= 6
    BY <1>1
  <2>2. Len(fields) \in 1..Len(fields)
    BY <1>3, <2>1
  <2>3. fields[Len(fields)] \in Tlvs
    BY <1>3, <2>2
  <2>4. fields # <<>>
    BY <1>3, <2>1
  <2> QED BY <1>6, <2>3, <2>4, NotFailed DEF Last
<1>8. KeyInfoAt(f) = 6
  BY <1>6 DEF KeyInfoAt
<1>9. ~(6 > Len(f))
  BY <1>1, <1>3, <1>6
<1>10. KeyInfo(FlattenSeq(items), off[v]) = BitString(f[6].value)
  <2>1. Fields(FlattenSeq(items), off[v]) = f
    BY <1>5, <1>6
  <2> QED BY <1>6, <1>7, <1>8, <1>9, <2>1 DEF KeyInfo
<1> QED BY <1>6, <1>10

\* The structures of a certificate: its items, those of the TBSCertificate (in the first
\* of them) and those of the key's description (in the sixth behind the version).
Certificate(certs, ctags, ccontents, items) ==
    /\ Written(certs, ctags, ccontents) /\ Len(certs) # 0 /\ Len(FlattenSeq(certs)) \in Sizes
    /\ ctags[1] = 48 /\ ccontents[1] = FlattenSeq(items)
Tbs(items, tags, contents, v, infos) ==
    /\ Written(items, tags, contents)
    /\ v \in {0, 1} /\ Len(items) >= 6 + v /\ (v = 1 => tags[1] = 160)
    /\ tags[1 + v] = 2 /\ tags[6 + v] = 48 /\ contents[6 + v] = FlattenSeq(infos)
Describes(infos, itags, icontents, key) ==
    /\ Written(infos, itags, icontents) /\ Len(infos) = 2
    /\ key \in Seq(Byte) /\ itags[2] = 3 /\ icontents[2] = <<0>> \o key
HoldsKey(certs, key) ==
    \E items, infos : /\ \E ctags, ccontents : Certificate(certs, ctags, ccontents, items)
                      /\ \E tags, contents, v : Tbs(items, tags, contents, v, infos)
                      /\ \E itags, icontents : Describes(infos, itags, icontents, key)

\* From the bytes of a certificate whose public key stands where X.509 puts it, with
\* or without a version, from_x509_certder_get_pubkey gives that key.
THEOREM KeyIsFound ==
  ASSUME NEW certs, NEW key, HoldsKey(certs, key)
  PROVE  GetPubkey(DerSeq(certs)) = key
<1>7a. PICK items, infos : /\ \E ctags, ccontents : Certificate(certs, ctags, ccontents, items)
                         /\ \E tags, contents, v : Tbs(items, tags, contents, v, infos)
                         /\ \E itags, icontents : Describes(infos, itags, icontents, key)
  BY DEF HoldsKey
<1>b. PICK ctags, ccontents : Certificate(certs, ctags, ccontents, items)
  BY <1>7a
<1>c. PICK tags, contents, v : Tbs(items, tags, contents, v, infos)
  BY <1>7a
<1>d. PICK itags, icontents : Describes(infos, itags, icontents, key)
  BY <1>7a
<1>0. /\ Written(certs, ctags, ccontents) /\ Len(certs) # 0 /\ Len(FlattenSeq(certs)) \in Sizes
      /\ Written(items, tags, contents) /\ ctags[1] = 48 /\ ccontents[1] = FlattenSeq(items)
      /\ v \in {0, 1} /\ Len(items) >= 6 + v /\ (v = 1 => tags[1] = 160)
      /\ tags[1 + v] = 2 /\ tags[6 + v] = 48
      /\ Written(infos, itags, icontents) /\ Len(infos) = 2 /\ contents[6 + v] = FlattenSeq(infos)
      /\ key \in Seq(Byte) /\ itags[2] = 3 /\ icontents[2] = <<0>> \o key
  BY <1>b, <1>c, <1>d DEF Certificate, Tbs, Describes
<1> USE <1>0
<1>1. PICK cert \in Tlvs : cert = ReadTlv(DerSeq(certs), 0) /\ cert.tag = 48 /\ cert.value = FlattenSeq(certs)
  <2>1. FlattenSeq(certs) \in Seq(Byte)
    BY TlvsRead
  <2>2. 48 \in Byte
    BY DEF Byte
  <2>3. /\ ReadTlv(Tlv(48, FlattenSeq(certs)), 0) \in Tlvs
        /\ ReadTlv(Tlv(48, FlattenSeq(certs)), 0).tag = 48
        /\ ReadTlv(Tlv(48, FlattenSeq(certs)), 0).value = FlattenSeq(certs)
    BY <2>1, <2>2, TlvRead
  <2> QED BY <2>3 DEF DerSeq
<1>2. PICK tbs \in Tlvs : tbs = ReadTlv(cert.value, 0) /\ tbs.tag = 48 /\ tbs.value = FlattenSeq(items)
  <2>1. PICK off, fields : Parsed(certs, ctags, ccontents, off, fields)
    BY FieldsParsed
  <2>2. 1 \in 1..Len(certs) /\ 1 - 1 = 0
    BY <2>1 DEF Parsed
  <2>3. /\ fields[1] \in Tlvs /\ fields[1].tag = 48 /\ fields[1].value = FlattenSeq(items)
        /\ ReadTlv(FlattenSeq(certs), 0) = fields[1]
    BY <2>1, <2>2 DEF Parsed
  <2> QED BY <1>1, <2>3
<1>3. PICK off, fields : Parsed(items, tags, contents, off, fields)
  <2>1. Written(items, tags, contents) /\ Len(items) # 0
    <3>1. Len(items) # 0
      OBVIOUS
    <3> QED BY <3>1
  <2> QED BY ONLY <2>1, FieldsParsed
<1>4. PICK first \in Tlvs : /\ first = ReadTlv(tbs.value, 0) /\ first.tag = tags[1] /\ first.end = off[1]
  <2>1. 1 \in 1..Len(items) /\ 1 - 1 = 0
    BY <1>3 DEF Parsed
  <2>2. /\ fields[1] \in Tlvs /\ fields[1].tag = tags[1] /\ fields[1].end = off[1]
        /\ ReadTlv(FlattenSeq(items), 0) = fields[1]
    BY <1>3, <2>1, SMTT(30) DEF Parsed
  <2> QED BY <1>2, <2>2
<1>5. BehindVersion(first) = off[v]
  <2>1. off[0] = 0
    BY <1>3 DEF Parsed
  <2>2. CASE v = 0
    BY <1>4, <2>1, <2>2 DEF BehindVersion
  <2>3. CASE v = 1
    BY <1>4, <2>3 DEF BehindVersion
  <2> QED BY <2>2, <2>3
<1>6. KeyInfo(tbs.value, off[v]) = key
  <2>1. KeyInfo(FlattenSeq(items), off[v]) = BitString(contents[6 + v])
    <3>1. /\ Parsed(items, tags, contents, off, fields) /\ v \in {0, 1}
          /\ Len(items) >= 6 + v /\ tags[1 + v] = 2 /\ tags[6 + v] = 48
      BY <1>3
    <3> QED BY ONLY <3>1, KeyInfoIs
  <2>2. BitString(FlattenSeq(infos)) = key
    BY BitStringIs
  <2> QED BY <1>2, <2>1, <2>2
<1>7. ~Failed(cert) /\ ~Failed(tbs) /\ ~Failed(first)
  BY NotFailed
<1> QED BY <1>1, <1>2, <1>4, <1>5, <1>6, <1>7 DEF GetPubkey, Bind
-----------------------------------------------------------------------------
(***************************************************************************)
(* The certificates of the model.                                          *)
(***************************************************************************)
LEMMA SameItems ==
  ASSUME NEW S, NEW s \in Seq(S), NEW t \in Seq(S), Len(s) = Len(t), \A k \in 1..Len(s) : s[k] = t[k]
  PROVE  s = t
OBVIOUS

LEMMA EightJoined ==
  ASSUME NEW a, NEW b, NEW c, NEW d, NEW e, NEW f, NEW g, NEW h
  PROVE  /\ <<a>> \o <<b, c, d, e, f, g>> \o <<h>> = <<a, b, c, d, e, f, g, h>>
         /\ <<>> \o <<b, c, d, e, f, g>> \o <<>> = <<b, c, d, e, f, g>>
<1>0. PICK S : a \in S /\ b \in S /\ c \in S /\ d \in S /\ e \in S /\ f \in S /\ g \in S /\ h \in S
  <2> DEFINE S == {a, b, c, d, e, f, g, h}
  <2>1. a \in S /\ b \in S /\ c \in S /\ d \in S /\ e \in S /\ f \in S /\ g \in S /\ h \in S
    OBVIOUS
  <2> HIDE DEF S
  <2> QED BY <2>1
<1>1. PICK s \in Seq(S) : /\ s = <<b, c, d, e, f, g>> /\ Len(s) = 6
                         /\ s[1] = b /\ s[2] = c /\ s[3] = d /\ s[4] = e /\ s[5] = f /\ s[6] = g
  <2>1. <<b, c, d, e, f, g>> \in Seq(S)
    BY <1>0
  <2> QED BY <2>1
<1>2. PICK t \in Seq(S) : /\ t = <<a, b, c, d, e, f, g, h>> /\ Len(t) = 8
                         /\ t[1] = a /\ t[2] = b /\ t[3] = c /\ t[4] = d /\ t[5] = e /\ t[6] = f
                         /\ t[7] = g /\ t[8] = h
  <2>1. <<a, b, c, d, e, f, g, h>> \in Seq(S)
    BY <1>0
  <2> QED BY <2>1
<1>3. <<>> \o s \o <<>> = s
  OBVIOUS
<1>4. <<a>> \o s \o <<h>> = t
  <2>1. PICK u \in Seq(S) : /\ u = <<a>> \o s /\ Len(u) = 7 /\ u[1] = a
                           /\ \A k \in 1..6 : u[1 + k] = s[k]
    <3>1. /\ <<a>> \o s \in Seq(S) /\ Len(<<a>> \o s) = 1 + Len(s)
          /\ (<<a>> \o s)[1] = a /\ \A k \in 1..Len(s) : (<<a>> \o s)[1 + k] = s[k]
      BY <1>0
    <3>2. PICK u : u = <<a>> \o s
      OBVIOUS
    <3>3. u \in Seq(S) /\ Len(u) = 1 + Len(s) /\ u[1] = a /\ \A k \in 1..Len(s) : u[1 + k] = s[k]
      BY <3>1, <3>2
    <3>4. u \in Seq(S) /\ Len(u) = 7 /\ u[1] = a /\ \A k \in 1..6 : u[1 + k] = s[k]
      BY ONLY <1>1, <3>3
    <3> QED BY <3>2, <3>4, Zenon
  <2>2. PICK v \in Seq(S) : /\ v = u \o <<h>> /\ Len(v) = 8 /\ v[8] = h
                           /\ \A k \in 1..7 : v[k] = u[k]
    <3>1. /\ u \o <<h>> \in Seq(S) /\ Len(u \o <<h>>) = Len(u) + 1
          /\ (u \o <<h>>)[Len(u) + 1] = h /\ \A k \in 1..Len(u) : (u \o <<h>>)[k] = u[k]
      BY <1>0
    <3>2. PICK v : v = u \o <<h>>
      OBVIOUS
    <3>3. v \in Seq(S) /\ Len(v) = Len(u) + 1 /\ v[Len(u) + 1] = h /\ \A k \in 1..Len(u) : v[k] = u[k]
      BY <3>1, <3>2
    <3>4. v \in Seq(S) /\ Len(v) = 8 /\ v[8] = h /\ \A k \in 1..7 : v[k] = u[k]
      BY ONLY <2>1, <3>3
    <3> QED BY <3>2, <3>4, Zenon
  <2>3. ASSUME NEW k \in 1..8 PROVE v[k] = t[k]
    <3>1. /\ u[1 + 1] = s[1] /\ u[1 + 2] = s[2] /\ u[1 + 3] = s[3] /\ u[1 + 4] = s[4]
          /\ u[1 + 5] = s[5] /\ u[1 + 6] = s[6]
      BY <2>1
    <3>2. /\ v[1] = a /\ v[2] = b /\ v[3] = c /\ v[4] = d /\ v[5] = e /\ v[6] = f
          /\ v[7] = g /\ v[8] = h
      BY <1>1, <2>1, <2>2, <3>1
    <3>3. k = 1 \/ k = 2 \/ k = 3 \/ k = 4 \/ k = 5 \/ k = 6 \/ k = 7 \/ k = 8
      OBVIOUS
    <3> QED BY <1>2, <3>2, <3>3
  <2>4. v = t
    <3>1. v \in Seq(S) /\ t \in Seq(S) /\ Len(v) = Len(t) /\ \A k \in 1..Len(v) : v[k] = t[k]
      BY <1>2, <2>2, <2>3
    <3> QED BY ONLY <3>1, SameItems
  <2> QED BY <2>1, <2>2, <2>4
<1> QED BY <1>1, <1>2, <1>3, <1>4

\* Contents of a bounded size, alone and joined.
AtMost(n) == {raw \in Seq(Byte) : Len(raw) <= n}

LEMMA AtMostIs ==
  ASSUME NEW n \in Nat, n <= MaxContent, NEW raw \in AtMost(n)
  PROVE  raw \in Seq(Byte) /\ Len(raw) \in Sizes
<1>1. raw \in Seq(Byte) /\ Len(raw) <= n
  BY DEF AtMost
<1>2. Len(raw) \in Nat
  BY <1>1
<1> QED BY <1>1, <1>2 DEF Sizes, MaxContent

LEMMA TlvAtMost ==
  ASSUME NEW n \in Nat, n <= MaxContent, NEW tag \in Byte, NEW raw \in AtMost(n)
  PROVE  /\ Tlv(tag, raw) \in Seq(Byte) /\ Len(Tlv(tag, raw)) <= n + 4
         /\ Tlv(tag, raw) \in AtMost(n + 4)
<1>1. raw \in Seq(Byte) /\ Len(raw) \in Sizes /\ Len(raw) <= n
  BY AtMostIs DEF AtMost
<1>2. Len(raw) \in Nat
  BY <1>1
<1>3. Tlv(tag, raw) \in Seq(Byte) /\ Len(Tlv(tag, raw)) \in (Len(raw) + 2)..(Len(raw) + 4)
  BY <1>1, TlvSize
<1>4. Len(Tlv(tag, raw)) <= n + 4
  BY <1>1, <1>2, <1>3
<1> QED BY <1>3, <1>4 DEF AtMost

LEMMA SizeOfJoined ==
  ASSUME NEW items \in Seq(Seq(Byte))
  PROVE  \E len \in [0..Len(items) -> Nat] :
           /\ len[0] = 0 /\ len[Len(items)] = Len(FlattenSeq(items)) /\ FlattenSeq(items) \in Seq(Byte)
           /\ \A k \in 1..Len(items) : len[k] = len[k - 1] + Len(items[k])
<1> DEFINE n == Len(items)
<1>1. PICK f \in [0..n -> Seq(Byte)] : JoinedUp(f, items) /\ FlattenSeq(items) = f[n]
  BY FlattenIs
<1>2. n \in Nat /\ \A k \in 1..n : items[k] \in Seq(Byte)
  OBVIOUS
<1> DEFINE len == [k \in 0..n |-> Len(f[k])]
<1> HIDE DEF n
<1>3. n \in 0..n /\ 0 \in 0..n
  BY <1>2
<1>4. \A k \in 0..n : f[k] \in Seq(Byte) /\ len[k] = Len(f[k]) /\ len[k] \in Nat
  <2> SUFFICES ASSUME NEW k \in 0..n PROVE f[k] \in Seq(Byte) /\ len[k] = Len(f[k]) /\ len[k] \in Nat
    OBVIOUS
  <2>1. f[k] \in Seq(Byte)
    OBVIOUS
  <2>2. Len(f[k]) \in Nat
    BY <2>1
  <2>3. len[k] = Len(f[k])
    OBVIOUS
  <2> QED BY <2>1, <2>2, <2>3
<1>5. len \in [0..n -> Nat]
  BY <1>4
<1> HIDE DEF len
<1>6. f[0] = <<>> /\ \A k \in 1..n : f[k] = f[k - 1] \o items[k]
  BY <1>1 DEF JoinedUp, n
<1>7. len[0] = 0 /\ len[n] = Len(FlattenSeq(items)) /\ FlattenSeq(items) \in Seq(Byte)
  BY <1>1, <1>3, <1>4, <1>6
<1>8. ASSUME NEW k \in 1..n PROVE len[k] = len[k - 1] + Len(items[k])
  <2>1. k \in 0..n /\ k - 1 \in 0..n
    BY <1>2
  <2>2. PICK a \in Seq(Byte), b \in Seq(Byte) : a = f[k - 1] /\ b = items[k]
    BY <1>2, <1>4, <2>1
  <2>3. Len(a \o b) = Len(a) + Len(b)
    OBVIOUS
  <2>4. f[k] = a \o b /\ len[k] = Len(f[k]) /\ len[k - 1] = Len(a)
    BY <1>4, <1>6, <2>1, <2>2
  <2> QED BY <2>2, <2>3, <2>4
<1> QED BY <1>5, <1>7, <1>8 DEF n

LEMMA RoomLeft ==
  ASSUME NEW size \in Nat, NEW more \in Nat, NEW content \in Nat, NEW before \in Nat, NEW room \in Nat,
         size <= before, more <= content + 4, before + content + 4 <= room
  PROVE  size + more <= room
OBVIOUS

\* Values written one behind the other, upto[k] the room for the first k of them.
Rooms(items, tags, contents, upto, n) ==
    /\ items \in Seq(Seq(Byte)) /\ tags \in Seq(Byte) /\ contents \in Seq(Seq(Byte))
    /\ upto \in Seq(Nat) /\ n \in Nat /\ n # 0
    /\ Len(items) = n /\ Len(tags) = n /\ Len(contents) = n /\ Len(upto) = n
    /\ Len(contents[1]) + 4 <= upto[1]
    /\ \A k \in 2..n : upto[k - 1] + Len(contents[k]) + 4 <= upto[k]
    /\ \A k \in 1..n : Len(contents[k]) \in Sizes /\ items[k] = Tlv(tags[k], contents[k])

LEMMA WrittenIs ==
  ASSUME NEW items, NEW tags, NEW contents, NEW upto, NEW n, Rooms(items, tags, contents, upto, n)
  PROVE  Written(items, tags, contents) /\ FlattenSeq(items) \in AtMost(upto[n])
<1> USE DEF Rooms
<1>0. \A j \in 1..n : upto[j] \in Nat
  BY ONLY Rooms(items, tags, contents, upto, n)
<1>1. Written(items, tags, contents)
  BY DEF Written
<1>2. PICK len \in [0..n -> Nat] :
        /\ len[0] = 0 /\ len[n] = Len(FlattenSeq(items)) /\ FlattenSeq(items) \in Seq(Byte)
        /\ \A k \in 1..n : len[k] = len[k - 1] + Len(items[k])
  BY SizeOfJoined
<1>3. ASSUME NEW k \in 1..n PROVE Len(items[k]) <= Len(contents[k]) + 4
  <2>1. /\ tags[k] \in Byte /\ contents[k] \in Seq(Byte) /\ Len(contents[k]) \in Sizes
        /\ items[k] = Tlv(tags[k], contents[k]) /\ Len(contents[k]) \in Nat
    OBVIOUS
  <2>2. Len(Tlv(tags[k], contents[k])) \in (Len(contents[k]) + 2)..(Len(contents[k]) + 4)
    BY <2>1, TlvSize
  <2> QED BY <2>1, <2>2
<1> DEFINE T == {k \in 0..n : k # 0 => len[k] <= upto[k]}
<1>4. ASSUME NEW k \in 1..n, k - 1 \in T PROVE k \in T
  <2>1. PICK size \in Nat, more \in Nat, content \in Nat, now \in Nat, room \in Nat :
          /\ size = len[k - 1] /\ more = Len(items[k]) /\ content = Len(contents[k])
          /\ now = len[k] /\ room = upto[k]
    <3>1. k - 1 \in 0..n /\ k \in 0..n /\ items[k] \in Seq(Byte) /\ contents[k] \in Seq(Byte)
      OBVIOUS
    <3>2. len[k - 1] \in Nat /\ len[k] \in Nat /\ upto[k] \in Nat
      <4>1. len[k - 1] \in Nat /\ len[k] \in Nat
        BY ONLY <3>1, len \in [0..n -> Nat]
      <4>2. upto[k] \in Nat
        BY ONLY <1>0, k \in 1..n
      <4> QED BY <4>1, <4>2
    <3>3. Len(items[k]) \in Nat /\ Len(contents[k]) \in Nat
      BY <3>1
    <3> QED BY <3>2, <3>3
  <2>2. now = size + more /\ more <= content + 4
    BY <1>2, <1>3, <2>1
  <2>3. k = 1 => now <= room
    <3> HAVE k = 1
    <3>1. size = 0 /\ content + 4 <= room
      BY <1>2, <2>1
    <3> QED BY <2>1, <2>2, <3>1
  <2>4. k # 1 => now <= room
    <3> HAVE k # 1
    <3>1. k \in 2..n /\ k - 1 \in 0..n /\ k - 1 # 0
      OBVIOUS
    <3>2. PICK before \in Nat : before = upto[k - 1] /\ before + content + 4 <= room
      <4>1. upto[k - 1] \in Nat /\ upto[k - 1] + Len(contents[k]) + 4 <= upto[k]
        <5>1. upto[k - 1] \in Nat
          <6>1. k - 1 \in 1..n
            BY ONLY <3>1, Rooms(items, tags, contents, upto, n), k \in 1..n
          <6> QED BY ONLY <1>0, <6>1
        <5>2. upto[k - 1] + Len(contents[k]) + 4 <= upto[k]
          BY <3>1, Zenon
        <5> QED BY <5>1, <5>2
      <4> QED BY <2>1, <4>1
    <3>3. size <= before
      <4>1. len[k - 1] <= upto[k - 1]
        BY <1>4, <3>1
      <4> QED BY <2>1, <3>2, <4>1
    <3>4. size + more <= room
      BY <2>2, <3>2, <3>3, RoomLeft
    <3> QED BY <2>2, <3>4
  <2>5. k \in 0..n /\ len[k] <= upto[k]
    BY <2>1, <2>3, <2>4
  <2> QED BY <2>5
<1>5. n \in T
  <2>1. 0 \in T /\ n \in 0..n /\ \A k \in 1..n : k - 1 \in T => k \in T
    BY <1>4
  <2> HIDE DEF T
  <2> QED BY <2>1, Along
<1>6. Len(FlattenSeq(items)) <= upto[n]
  BY <1>2, <1>5
<1> QED BY <1>1, <1>2, <1>6 DEF AtMost

-----------------------------------------------------------------------------
(***************************************************************************)
(* The parts of a certificate, and the key found in it.                    *)
(***************************************************************************)
LEMMA Bytes == \A n \in 0..255 : n \in Byte
BY DEF Byte

LEMMA FillerIs ==
  ASSUME NEW n \in Nat, NEW byte \in Byte
  PROVE  /\ Filler(n, byte) \in AtMost(n) /\ Len(Filler(n, byte)) = n
         /\ \A k \in 1..n : Filler(n, byte)[k] = byte
<1>1. Filler(n, byte) \in Seq(Byte) /\ Len(Filler(n, byte)) = n
  BY DEF Filler
<1>2. \A k \in 1..n : Filler(n, byte)[k] = byte
  BY DEF Filler
<1> QED BY <1>1, <1>2 DEF AtMost

LEMMA Larger ==
  ASSUME NEW n \in Nat, NEW m \in Nat, n <= m, NEW raw \in AtMost(n)
  PROVE  raw \in AtMost(m)
<1>1. raw \in Seq(Byte) /\ Len(raw) \in Nat /\ Len(raw) <= n
  BY DEF AtMost
<1>2. Len(raw) <= m
  BY <1>1
<1> QED BY <1>1, <1>2 DEF AtMost

\* Each part is a value that tlv wrote, of a bounded size.
IsTlv(raw, tag, n) == \E content \in AtMost(n) : raw = Tlv(tag, content)

LEMMA OneItem ==
  ASSUME NEW S, NEW raw \in Seq(S)
  PROVE  FlattenSeq(<<raw>>) = raw
<1>1. /\ <<raw>> \in Seq(Seq(S)) /\ Len(<<raw>>) = 1 /\ <<raw>>[1] = raw
  OBVIOUS
<1>2. PICK f \in [0..Len(<<raw>>) -> Seq(S)] :
        JoinedUp(f, <<raw>>) /\ FlattenSeq(<<raw>>) = f[Len(<<raw>>)]
  BY <1>1, FlattenIs
<1>3. f[0] = <<>> /\ f[1] = f[1 - 1] \o raw /\ FlattenSeq(<<raw>>) = f[1]
  <2>1. 1 \in 1..Len(<<raw>>)
    BY <1>1
  <2>2. f[0] = <<>> /\ f[1] = f[1 - 1] \o <<raw>>[1]
    BY <1>2, <2>1 DEF JoinedUp
  <2> QED BY <1>1, <1>2, <2>2
<1>4. <<>> \o raw = raw
  OBVIOUS
<1>5. f[1 - 1] = <<>>
  BY <1>3
<1> QED BY <1>3, <1>4, <1>5

LEMMA ZeroInFront ==
  ASSUME NEW n \in Nat, NEW raw \in AtMost(n)
  PROVE  <<0>> \o raw \in AtMost(n + 1)
<1>1. raw \in Seq(Byte) /\ Len(raw) <= n /\ 0 \in Byte
  BY DEF AtMost, Byte
<1>2. <<0>> \o raw \in Seq(Byte) /\ Len(<<0>> \o raw) = 1 + Len(raw)
  BY <1>1
<1>3. Len(raw) \in Nat
  BY <1>1
<1>4. Len(<<0>> \o raw) <= n + 1
  BY <1>1, <1>2, <1>3
<1> QED BY <1>2, <1>4 DEF AtMost

LEMMA IntegerIs ==
  ASSUME NEW n \in Nat, NEW raw \in AtMost(n)
  PROVE  IsTlv(DerInteger(raw), 2, n + 1)
<1>1. <<0>> \o raw \in AtMost(n + 1) /\ raw \in AtMost(n + 1)
  BY ZeroInFront, Larger
<1> QED BY <1>1 DEF DerInteger, IsTlv

\* Contents of a value, with the tag and the size that a leaf below needs.
LEMMA Contents ==
  ASSUME NEW n \in Nat, n <= MaxContent, NEW content \in AtMost(n)
  PROVE  content \in Seq(Byte) /\ Len(content) \in Sizes /\ Len(content) \in 0..n
<1>1. content \in Seq(Byte) /\ Len(content) \in Sizes /\ Len(content) <= n
  BY AtMostIs DEF AtMost
<1>2. Len(content) \in Nat
  BY <1>1
<1> QED BY <1>1, <1>2

\* A sequence of two values.
LEMMA TwoWritten ==
  ASSUME NEW t1 \in Byte, NEW n1 \in Nat, n1 <= 40000, NEW c1 \in AtMost(n1),
         NEW t2 \in Byte, NEW n2 \in Nat, n2 <= 20000, NEW c2 \in AtMost(n2)
  PROVE  /\ Written(<<Tlv(t1, c1), Tlv(t2, c2)>>, <<t1, t2>>, <<c1, c2>>)
         /\ FlattenSeq(<<Tlv(t1, c1), Tlv(t2, c2)>>) \in AtMost((n1 + 4) + (n2 + 4))
<1> DEFINE items == <<Tlv(t1, c1), Tlv(t2, c2)>>
           tags == <<t1, t2>>
           contents == <<c1, c2>>
           upto == <<n1 + 4, (n1 + 4) + (n2 + 4)>>
<1>1. /\ c1 \in Seq(Byte) /\ Len(c1) \in Sizes /\ Len(c1) \in 0..n1
      /\ c2 \in Seq(Byte) /\ Len(c2) \in Sizes /\ Len(c2) \in 0..n2
  BY Contents DEF MaxContent
<1>2. Tlv(t1, c1) \in Seq(Byte) /\ Tlv(t2, c2) \in Seq(Byte)
  BY <1>1, TlvSize
<1>3. /\ items \in Seq(Seq(Byte)) /\ Len(items) = 2
      /\ items[1] = Tlv(t1, c1) /\ items[2] = Tlv(t2, c2)
  BY <1>2
<1>4. tags \in Seq(Byte) /\ Len(tags) = 2 /\ tags[1] = t1 /\ tags[2] = t2
  OBVIOUS
<1>5. contents \in Seq(Seq(Byte)) /\ Len(contents) = 2 /\ contents[1] = c1 /\ contents[2] = c2
  BY <1>1
<1>6. upto \in Seq(Nat) /\ Len(upto) = 2 /\ upto[1] = n1 + 4 /\ upto[2] = (n1 + 4) + (n2 + 4)
  OBVIOUS
<1> HIDE DEF items, tags, contents, upto
<1>7. \A k \in 1..2 : Len(contents[k]) \in Sizes /\ items[k] = Tlv(tags[k], contents[k])
  BY <1>1, <1>3, <1>4, <1>5
<1>8. /\ Len(contents[1]) + 4 <= upto[1]
      /\ \A k \in 2..2 : upto[k - 1] + Len(contents[k]) + 4 <= upto[k]
  BY <1>1, <1>5, <1>6
<1>9. Written(items, tags, contents) /\ FlattenSeq(items) \in AtMost(upto[2])
  <2>1. /\ items \in Seq(Seq(Byte)) /\ tags \in Seq(Byte) /\ contents \in Seq(Seq(Byte))
        /\ upto \in Seq(Nat) /\ 2 \in Nat /\ 2 # 0
        /\ Len(items) = 2 /\ Len(tags) = 2 /\ Len(contents) = 2 /\ Len(upto) = 2
        /\ Len(contents[1]) + 4 <= upto[1]
        /\ \A k \in 2..2 : upto[k - 1] + Len(contents[k]) + 4 <= upto[k]
        /\ \A k \in 1..2 : Len(contents[k]) \in Sizes /\ items[k] = Tlv(tags[k], contents[k])
    BY <1>3, <1>4, <1>5, <1>6, <1>7, <1>8
  <2>2. Rooms(items, tags, contents, upto, 2)
    BY ONLY <2>1 DEF Rooms
  <2> QED BY ONLY <2>2, WrittenIs
<1> QED BY <1>6, <1>9 DEF items, tags, contents

LEMMA AlgorithmIs ==
  ASSUME NEW n \in Byte
  PROVE  IsTlv(AlgorithmIdentifier(n), 48, 17)
<1> DEFINE oid == [k \in 1..9 |-> n]
<1>1. oid \in AtMost(9) /\ <<>> \in AtMost(0)
  <2>1. oid \in Seq(Byte) /\ Len(oid) = 9 /\ <<>> \in Seq(Byte) /\ Len(<<>>) = 0
    OBVIOUS
  <2> QED BY <2>1 DEF AtMost
<1>3. FlattenSeq(<<Tlv(6, oid), Tlv(5, <<>>)>>) \in AtMost(17)
  <2>1. 6 \in Byte /\ 5 \in Byte
    BY DEF Byte
  <2> HIDE DEF oid
  <2>2. PICK c1 \in AtMost(9), c2 \in AtMost(0) : c1 = oid /\ c2 = <<>>
    BY <1>1
  <2>3. /\ Written(<<Tlv(6, c1), Tlv(5, c2)>>, <<6, 5>>, <<c1, c2>>)
        /\ FlattenSeq(<<Tlv(6, c1), Tlv(5, c2)>>) \in AtMost((9 + 4) + (0 + 4))
    BY <2>1, TwoWritten
  <2>4. (9 + 4) + (0 + 4) = 17
    OBVIOUS
  <2> QED BY <2>2, <2>3, <2>4
<1> QED BY <1>3 DEF AlgorithmIdentifier, DerOid, DerSeq, IsTlv

LEMMA NameIs ==
  ASSUME NEW shape \in Shapes
  PROVE  IsTlv(NameDer(shape), 48, 16384)
<1>1. PICK n \in Nat : n = shape.name /\ n <= 16384
  <2>1. shape.name \in 0..MaxName
    BY ShapesAssumption
  <2>3. PICK n : n = shape.name
    OBVIOUS
  <2>4. n \in 0..MaxName
    BY <2>1, <2>3, Zenon
  <2>5. n \in Nat /\ n <= 16384
    BY <2>4 DEF MaxName
  <2> QED BY <2>3, <2>5
<1>2. PICK raw \in AtMost(16384) : raw = Filler(shape.name, 65)
  <2>1. Filler(n, 65) \in AtMost(n)
    BY FillerIs DEF Byte
  <2>2. Filler(n, 65) \in AtMost(16384)
    BY <1>1, <2>1, Larger
  <2> QED BY <1>1, <2>2
<1>3. raw \in Seq(Byte)
  BY DEF AtMost
<1>4. FlattenSeq(<<raw>>) = raw
  BY <1>3, OneItem
<1> QED BY <1>2, <1>4 DEF NameDer, DerSeq, IsTlv

LEMMA SerialIs ==
  ASSUME NEW shape \in Shapes
  PROVE  IsTlv(DerInteger(shape.serial), 2, 21)
<1>1. shape.serial \in AtMost(20)
  <2>1. shape.serial \in Seq(Byte) /\ Len(shape.serial) \in 1..20
    BY ShapesAssumption DEF MaxSerial
  <2>2. \A x \in 1..20 : x <= 20
    OBVIOUS
  <2>3. Len(shape.serial) <= 20
    BY <2>1, <2>2, Zenon
  <2> QED BY <2>1, <2>3, Zenon DEF AtMost
<1> QED BY <1>1, IntegerIs

KeyInfoItems(k) == <<AlgorithmIdentifier(1), Tlv(3, <<0>> \o KeyBytes(k))>>

LEMMA KeyInfoWritten ==
  ASSUME NEW k \in Keys
  PROVE  /\ KeyBytes(k) \in AtMost(270) /\ KeyBytes(k)[1] = k
         /\ FlattenSeq(KeyInfoItems(k)) \in AtMost(296)
         /\ \E tags, contents : /\ Written(KeyInfoItems(k), tags, contents)
                               /\ tags[2] = 3 /\ contents[2] = <<0>> \o KeyBytes(k)
<1>1. k \in Byte
  BY KeysAssumption
<1>2. PICK bits \in AtMost(270) : bits = KeyBytes(k) /\ bits[1] = k
  BY <1>1, FillerIs DEF KeyBytes
<1>3. PICK algorithm \in AtMost(17) : AlgorithmIdentifier(1) = Tlv(48, algorithm)
  BY AlgorithmIs, Bytes DEF IsTlv
<1>4. PICK content \in AtMost(271) : content = <<0>> \o bits
  <2>1. <<0>> \o bits \in AtMost(270 + 1)
    BY ZeroInFront
  <2>2. 270 + 1 = 271
    OBVIOUS
  <2> QED BY <2>1, <2>2
<1>5. /\ Written(<<Tlv(48, algorithm), Tlv(3, content)>>, <<48, 3>>, <<algorithm, content>>)
      /\ FlattenSeq(<<Tlv(48, algorithm), Tlv(3, content)>>) \in AtMost((17 + 4) + (271 + 4))
  <2>1. 48 \in Byte /\ 3 \in Byte
    BY DEF Byte
  <2> QED BY <2>1, TwoWritten
<1>6. /\ Written(KeyInfoItems(k), <<48, 3>>, <<algorithm, content>>)
      /\ FlattenSeq(KeyInfoItems(k)) \in AtMost(296)
  <2>1. (17 + 4) + (271 + 4) = 296
    OBVIOUS
  <2> QED BY <1>2, <1>3, <1>4, <1>5, <2>1 DEF KeyInfoItems
<1>7. <<48, 3>>[2] = 3 /\ <<algorithm, content>>[2] = <<0>> \o KeyBytes(k)
  BY <1>2, <1>4
<1> QED BY <1>2, <1>6, <1>7

LEMMA SixAre ==
  ASSUME NEW S, NEW a \in S, NEW b \in S, NEW c \in S, NEW d \in S, NEW e \in S, NEW f \in S
  PROVE  /\ <<a, b, c, d, e, f>> \in Seq(S) /\ Len(<<a, b, c, d, e, f>>) = 6
         /\ <<a, b, c, d, e, f>>[1] = a
         /\ <<a, b, c, d, e, f>>[2] = b
         /\ <<a, b, c, d, e, f>>[3] = c
         /\ <<a, b, c, d, e, f>>[4] = d
         /\ <<a, b, c, d, e, f>>[5] = e
         /\ <<a, b, c, d, e, f>>[6] = f
OBVIOUS

LEMMA EightAre ==
  ASSUME NEW S, NEW a \in S, NEW b \in S, NEW c \in S, NEW d \in S, NEW e \in S, NEW f \in S, NEW g \in S, NEW h \in S
  PROVE  /\ <<a, b, c, d, e, f, g, h>> \in Seq(S) /\ Len(<<a, b, c, d, e, f, g, h>>) = 8
         /\ <<a, b, c, d, e, f, g, h>>[1] = a
         /\ <<a, b, c, d, e, f, g, h>>[2] = b
         /\ <<a, b, c, d, e, f, g, h>>[3] = c
         /\ <<a, b, c, d, e, f, g, h>>[4] = d
         /\ <<a, b, c, d, e, f, g, h>>[5] = e
         /\ <<a, b, c, d, e, f, g, h>>[6] = f
         /\ <<a, b, c, d, e, f, g, h>>[7] = g
         /\ <<a, b, c, d, e, f, g, h>>[8] = h
OBVIOUS

\* What is needed of one value.
LEMMA PartIs ==
  ASSUME NEW tag \in Byte, NEW n \in Nat, n <= 40000, NEW content \in AtMost(n)
  PROVE  /\ tag \in Byte /\ content \in Seq(Byte) /\ Len(content) \in Sizes /\ Len(content) \in 0..n
         /\ Tlv(tag, content) \in Seq(Byte)
<1>1. content \in Seq(Byte) /\ Len(content) \in Sizes /\ Len(content) \in 0..n
  BY Contents DEF MaxContent
<1> QED BY <1>1, TlvSize

\* The fields of a TBSCertificate with a version and extensions, and without.
LEMMA EightWritten ==
  ASSUME NEW c1 \in AtMost(6), NEW c2 \in AtMost(21), NEW c3 \in AtMost(17),
         NEW c4 \in AtMost(16384), NEW c5 \in AtMost(30), NEW c7 \in AtMost(296),
         NEW c8 \in AtMost(60)
  PROVE  \E items, tags, contents :
           /\ items = <<Tlv(160, c1), Tlv(2, c2), Tlv(48, c3), Tlv(48, c4), Tlv(48, c5),
                         Tlv(48, c4), Tlv(48, c7), Tlv(163, c8)>>
           /\ Written(items, tags, contents) /\ FlattenSeq(items) \in AtMost(33230) /\ Len(items) = 8
           /\ tags = <<160, 2, 48, 48, 48, 48, 48, 163>> /\ contents = <<c1, c2, c3, c4, c5, c4, c7, c8>>
<1> DEFINE items == <<Tlv(160, c1), Tlv(2, c2), Tlv(48, c3), Tlv(48, c4), Tlv(48, c5),
                      Tlv(48, c4), Tlv(48, c7), Tlv(163, c8)>>
           tags == <<160, 2, 48, 48, 48, 48, 48, 163>>
           contents == <<c1, c2, c3, c4, c5, c4, c7, c8>>
           upto == <<10, 35, 56, 16444, 16478, 32866, 33166, 33230>>
<1>1. c1 \in Seq(Byte) /\ Len(c1) \in Sizes /\ Len(c1) <= 6 /\ Len(c1) \in Nat /\ Tlv(160, c1) \in Seq(Byte)
  <2>1. 160 \in Byte /\ 6 \in Nat /\ 6 <= 40000 /\ c1 \in AtMost(6)
    BY DEF Byte
  <2> QED BY ONLY <2>1, PartIs
<1>2. c2 \in Seq(Byte) /\ Len(c2) \in Sizes /\ Len(c2) <= 21 /\ Len(c2) \in Nat /\ Tlv(2, c2) \in Seq(Byte)
  <2>1. 2 \in Byte /\ 21 \in Nat /\ 21 <= 40000 /\ c2 \in AtMost(21)
    BY DEF Byte
  <2> QED BY ONLY <2>1, PartIs
<1>3. c3 \in Seq(Byte) /\ Len(c3) \in Sizes /\ Len(c3) <= 17 /\ Len(c3) \in Nat /\ Tlv(48, c3) \in Seq(Byte)
  <2>1. 48 \in Byte /\ 17 \in Nat /\ 17 <= 40000 /\ c3 \in AtMost(17)
    BY DEF Byte
  <2> QED BY ONLY <2>1, PartIs
<1>4. c4 \in Seq(Byte) /\ Len(c4) \in Sizes /\ Len(c4) <= 16384 /\ Len(c4) \in Nat /\ Tlv(48, c4) \in Seq(Byte)
  <2>1. 48 \in Byte /\ 16384 \in Nat /\ 16384 <= 40000 /\ c4 \in AtMost(16384)
    BY DEF Byte
  <2> QED BY ONLY <2>1, PartIs
<1>5. c5 \in Seq(Byte) /\ Len(c5) \in Sizes /\ Len(c5) <= 30 /\ Len(c5) \in Nat /\ Tlv(48, c5) \in Seq(Byte)
  <2>1. 48 \in Byte /\ 30 \in Nat /\ 30 <= 40000 /\ c5 \in AtMost(30)
    BY DEF Byte
  <2> QED BY ONLY <2>1, PartIs
<1>6. c7 \in Seq(Byte) /\ Len(c7) \in Sizes /\ Len(c7) <= 296 /\ Len(c7) \in Nat /\ Tlv(48, c7) \in Seq(Byte)
  <2>1. 48 \in Byte /\ 296 \in Nat /\ 296 <= 40000 /\ c7 \in AtMost(296)
    BY DEF Byte
  <2> QED BY ONLY <2>1, PartIs
<1>7. c8 \in Seq(Byte) /\ Len(c8) \in Sizes /\ Len(c8) <= 60 /\ Len(c8) \in Nat /\ Tlv(163, c8) \in Seq(Byte)
  <2>1. 163 \in Byte /\ 60 \in Nat /\ 60 <= 40000 /\ c8 \in AtMost(60)
    BY DEF Byte
  <2> QED BY ONLY <2>1, PartIs
<1>8. /\ items \in Seq(Seq(Byte)) /\ Len(items) = 8
      /\ items[1] = Tlv(160, c1) /\ items[2] = Tlv(2, c2) /\ items[3] = Tlv(48, c3) /\ items[4] = Tlv(48, c4)
      /\ items[5] = Tlv(48, c5) /\ items[6] = Tlv(48, c4) /\ items[7] = Tlv(48, c7) /\ items[8] = Tlv(163, c8)
  <2>1. /\ Tlv(160, c1) \in Seq(Byte) /\ Tlv(2, c2) \in Seq(Byte) /\ Tlv(48, c3) \in Seq(Byte)
        /\ Tlv(48, c4) \in Seq(Byte) /\ Tlv(48, c5) \in Seq(Byte) /\ Tlv(48, c7) \in Seq(Byte)
        /\ Tlv(163, c8) \in Seq(Byte)
    BY <1>1, <1>2, <1>3, <1>4, <1>5, <1>6, <1>7
  <2> QED BY ONLY <2>1, EightAre
<1>9. /\ tags \in Seq(Byte) /\ Len(tags) = 8
      /\ tags[1] = 160 /\ tags[2] = 2 /\ tags[3] = 48 /\ tags[4] = 48
      /\ tags[5] = 48 /\ tags[6] = 48 /\ tags[7] = 48 /\ tags[8] = 163
  <2>1. /\ 160 \in Byte /\ 2 \in Byte /\ 48 \in Byte
        /\ 163 \in Byte
    BY DEF Byte
  <2> QED BY ONLY <2>1, EightAre
<1>10. /\ contents \in Seq(Seq(Byte)) /\ Len(contents) = 8
      /\ contents[1] = c1 /\ contents[2] = c2 /\ contents[3] = c3 /\ contents[4] = c4
      /\ contents[5] = c5 /\ contents[6] = c4 /\ contents[7] = c7 /\ contents[8] = c8
  <2>1. /\ c1 \in Seq(Byte) /\ c2 \in Seq(Byte) /\ c3 \in Seq(Byte)
        /\ c4 \in Seq(Byte) /\ c5 \in Seq(Byte) /\ c7 \in Seq(Byte)
        /\ c8 \in Seq(Byte)
    BY <1>1, <1>2, <1>3, <1>4, <1>5, <1>6, <1>7
  <2> QED BY ONLY <2>1, EightAre
<1>11. /\ upto \in Seq(Nat) /\ Len(upto) = 8
      /\ upto[1] = 10 /\ upto[2] = 35 /\ upto[3] = 56 /\ upto[4] = 16444
      /\ upto[5] = 16478 /\ upto[6] = 32866 /\ upto[7] = 33166 /\ upto[8] = 33230
  <2>1. /\ 10 \in Nat /\ 35 \in Nat /\ 56 \in Nat
        /\ 16444 \in Nat /\ 16478 \in Nat /\ 32866 \in Nat
        /\ 33166 \in Nat /\ 33230 \in Nat
    BY DEF Byte
  <2> QED BY ONLY <2>1, EightAre
<1> HIDE DEF items, tags, contents, upto
<1> DEFINE Row(k) == /\ Len(contents[k]) \in Sizes /\ items[k] = Tlv(tags[k], contents[k])
                     /\ k # 1 => upto[k - 1] + Len(contents[k]) + 4 <= upto[k]
<1>12. Row(1) /\ Len(contents[1]) + 4 <= upto[1]
  BY <1>1, <1>8, <1>9, <1>10, <1>11
<1>13. Row(2)
  <2>1. upto[2 - 1] = 10 /\ upto[2] = 35 /\ contents[2] = c2 /\ tags[2] = 2 /\ items[2] = Tlv(2, c2)
    BY <1>8, <1>9, <1>10, <1>11
  <2> QED BY <1>2, <2>1
<1>14. Row(3)
  <2>1. upto[3 - 1] = 35 /\ upto[3] = 56 /\ contents[3] = c3 /\ tags[3] = 48 /\ items[3] = Tlv(48, c3)
    BY <1>8, <1>9, <1>10, <1>11
  <2> QED BY <1>3, <2>1
<1>15. Row(4)
  <2>1. upto[4 - 1] = 56 /\ upto[4] = 16444 /\ contents[4] = c4 /\ tags[4] = 48 /\ items[4] = Tlv(48, c4)
    BY <1>8, <1>9, <1>10, <1>11
  <2> QED BY <1>4, <2>1
<1>16. Row(5)
  <2>1. upto[5 - 1] = 16444 /\ upto[5] = 16478 /\ contents[5] = c5 /\ tags[5] = 48 /\ items[5] = Tlv(48, c5)
    BY <1>8, <1>9, <1>10, <1>11
  <2> QED BY <1>5, <2>1
<1>17. Row(6)
  <2>1. upto[6 - 1] = 16478 /\ upto[6] = 32866 /\ contents[6] = c4 /\ tags[6] = 48 /\ items[6] = Tlv(48, c4)
    BY <1>8, <1>9, <1>10, <1>11
  <2> QED BY <1>4, <2>1
<1>18. Row(7)
  <2>1. upto[7 - 1] = 32866 /\ upto[7] = 33166 /\ contents[7] = c7 /\ tags[7] = 48 /\ items[7] = Tlv(48, c7)
    BY <1>8, <1>9, <1>10, <1>11
  <2> QED BY <1>6, <2>1
<1>19. Row(8)
  <2>1. upto[8 - 1] = 33166 /\ upto[8] = 33230 /\ contents[8] = c8 /\ tags[8] = 163 /\ items[8] = Tlv(163, c8)
    BY <1>8, <1>9, <1>10, <1>11
  <2> QED BY <1>7, <2>1
<1> HIDE DEF Row
<1>20. PICK n \in Nat : n = 8
  OBVIOUS
<1>21. \A k \in 1..n : Row(k)
  <2> SUFFICES ASSUME NEW k \in 1..n PROVE Row(k)
    OBVIOUS
  <2>1. k = 1 \/ k = 2 \/ k = 3 \/ k = 4 \/ k = 5 \/ k = 6 \/ k = 7 \/ k = 8
    BY <1>20
  <2> QED BY ONLY <2>1, <1>12, <1>13, <1>14, <1>15, <1>16, <1>17, <1>18, <1>19
<1>22. Written(items, tags, contents) /\ FlattenSeq(items) \in AtMost(33230)
  <2>1. \A k \in 1..n : Len(contents[k]) \in Sizes /\ items[k] = Tlv(tags[k], contents[k])
    BY ONLY <1>21 DEF Row
  <2>2. \A k \in 2..n : upto[k - 1] + Len(contents[k]) + 4 <= upto[k]
    <3> SUFFICES ASSUME NEW k \in 2..n PROVE upto[k - 1] + Len(contents[k]) + 4 <= upto[k]
      OBVIOUS
    <3>1. k \in 1..n /\ k # 1
      OBVIOUS
    <3> QED BY ONLY <1>21, <3>1 DEF Row
  <2>3. /\ items \in Seq(Seq(Byte)) /\ tags \in Seq(Byte) /\ contents \in Seq(Seq(Byte))
        /\ upto \in Seq(Nat) /\ n \in Nat /\ n # 0 /\ upto[n] = 33230
        /\ Len(items) = n /\ Len(tags) = n /\ Len(contents) = n /\ Len(upto) = n
        /\ Len(contents[1]) + 4 <= upto[1]
    BY <1>8, <1>9, <1>10, <1>11, <1>12, <1>20
  <2>4. Written(items, tags, contents) /\ FlattenSeq(items) \in AtMost(upto[n])
    <3>1. /\ items \in Seq(Seq(Byte)) /\ tags \in Seq(Byte) /\ contents \in Seq(Seq(Byte))
          /\ upto \in Seq(Nat) /\ n \in Nat /\ n # 0
          /\ Len(items) = n /\ Len(tags) = n /\ Len(contents) = n /\ Len(upto) = n
          /\ Len(contents[1]) + 4 <= upto[1]
          /\ \A k \in 2..n : upto[k - 1] + Len(contents[k]) + 4 <= upto[k]
          /\ \A k \in 1..n : Len(contents[k]) \in Sizes /\ items[k] = Tlv(tags[k], contents[k])
      BY ONLY <2>1, <2>2, <2>3
    <3>2. Rooms(items, tags, contents, upto, n)
      BY ONLY <3>1 DEF Rooms
    <3> QED BY ONLY <3>2, WrittenIs
  <2> QED BY <2>3, <2>4
<1> QED BY <1>8, <1>22 DEF items, tags, contents

LEMMA SixWritten ==
  ASSUME NEW c2 \in AtMost(21), NEW c3 \in AtMost(17), NEW c4 \in AtMost(16384),
         NEW c5 \in AtMost(30), NEW c7 \in AtMost(296)
  PROVE  \E items, tags, contents :
           /\ items = <<Tlv(2, c2), Tlv(48, c3), Tlv(48, c4), Tlv(48, c5), Tlv(48, c4),
                         Tlv(48, c7)>>
           /\ Written(items, tags, contents) /\ FlattenSeq(items) \in AtMost(33156) /\ Len(items) = 6
           /\ tags = <<2, 48, 48, 48, 48, 48>> /\ contents = <<c2, c3, c4, c5, c4, c7>>
<1> DEFINE items == <<Tlv(2, c2), Tlv(48, c3), Tlv(48, c4), Tlv(48, c5), Tlv(48, c4),
                      Tlv(48, c7)>>
           tags == <<2, 48, 48, 48, 48, 48>>
           contents == <<c2, c3, c4, c5, c4, c7>>
           upto == <<25, 46, 16434, 16468, 32856, 33156>>
<1>1. c2 \in Seq(Byte) /\ Len(c2) \in Sizes /\ Len(c2) <= 21 /\ Len(c2) \in Nat /\ Tlv(2, c2) \in Seq(Byte)
  <2>1. 2 \in Byte /\ 21 \in Nat /\ 21 <= 40000 /\ c2 \in AtMost(21)
    BY DEF Byte
  <2> QED BY ONLY <2>1, PartIs
<1>2. c3 \in Seq(Byte) /\ Len(c3) \in Sizes /\ Len(c3) <= 17 /\ Len(c3) \in Nat /\ Tlv(48, c3) \in Seq(Byte)
  <2>1. 48 \in Byte /\ 17 \in Nat /\ 17 <= 40000 /\ c3 \in AtMost(17)
    BY DEF Byte
  <2> QED BY ONLY <2>1, PartIs
<1>3. c4 \in Seq(Byte) /\ Len(c4) \in Sizes /\ Len(c4) <= 16384 /\ Len(c4) \in Nat /\ Tlv(48, c4) \in Seq(Byte)
  <2>1. 48 \in Byte /\ 16384 \in Nat /\ 16384 <= 40000 /\ c4 \in AtMost(16384)
    BY DEF Byte
  <2> QED BY ONLY <2>1, PartIs
<1>4. c5 \in Seq(Byte) /\ Len(c5) \in Sizes /\ Len(c5) <= 30 /\ Len(c5) \in Nat /\ Tlv(48, c5) \in Seq(Byte)
  <2>1. 48 \in Byte /\ 30 \in Nat /\ 30 <= 40000 /\ c5 \in AtMost(30)
    BY DEF Byte
  <2> QED BY ONLY <2>1, PartIs
<1>5. c7 \in Seq(Byte) /\ Len(c7) \in Sizes /\ Len(c7) <= 296 /\ Len(c7) \in Nat /\ Tlv(48, c7) \in Seq(Byte)
  <2>1. 48 \in Byte /\ 296 \in Nat /\ 296 <= 40000 /\ c7 \in AtMost(296)
    BY DEF Byte
  <2> QED BY ONLY <2>1, PartIs
<1>6. /\ items \in Seq(Seq(Byte)) /\ Len(items) = 6
      /\ items[1] = Tlv(2, c2) /\ items[2] = Tlv(48, c3) /\ items[3] = Tlv(48, c4) /\ items[4] = Tlv(48, c5)
      /\ items[5] = Tlv(48, c4) /\ items[6] = Tlv(48, c7)
  <2>1. /\ Tlv(2, c2) \in Seq(Byte) /\ Tlv(48, c3) \in Seq(Byte) /\ Tlv(48, c4) \in Seq(Byte)
        /\ Tlv(48, c5) \in Seq(Byte) /\ Tlv(48, c7) \in Seq(Byte)
    BY <1>1, <1>2, <1>3, <1>4, <1>5
  <2> QED BY ONLY <2>1, SixAre
<1>7. /\ tags \in Seq(Byte) /\ Len(tags) = 6
      /\ tags[1] = 2 /\ tags[2] = 48 /\ tags[3] = 48 /\ tags[4] = 48
      /\ tags[5] = 48 /\ tags[6] = 48
  <2>1. /\ 2 \in Byte /\ 48 \in Byte
    BY DEF Byte
  <2> QED BY ONLY <2>1, SixAre
<1>8. /\ contents \in Seq(Seq(Byte)) /\ Len(contents) = 6
      /\ contents[1] = c2 /\ contents[2] = c3 /\ contents[3] = c4 /\ contents[4] = c5
      /\ contents[5] = c4 /\ contents[6] = c7
  <2>1. /\ c2 \in Seq(Byte) /\ c3 \in Seq(Byte) /\ c4 \in Seq(Byte)
        /\ c5 \in Seq(Byte) /\ c7 \in Seq(Byte)
    BY <1>1, <1>2, <1>3, <1>4, <1>5
  <2> QED BY ONLY <2>1, SixAre
<1>9. /\ upto \in Seq(Nat) /\ Len(upto) = 6
      /\ upto[1] = 25 /\ upto[2] = 46 /\ upto[3] = 16434 /\ upto[4] = 16468
      /\ upto[5] = 32856 /\ upto[6] = 33156
  <2>1. /\ 25 \in Nat /\ 46 \in Nat /\ 16434 \in Nat
        /\ 16468 \in Nat /\ 32856 \in Nat /\ 33156 \in Nat
    BY DEF Byte
  <2> QED BY ONLY <2>1, SixAre
<1> HIDE DEF items, tags, contents, upto
<1> DEFINE Row(k) == /\ Len(contents[k]) \in Sizes /\ items[k] = Tlv(tags[k], contents[k])
                     /\ k # 1 => upto[k - 1] + Len(contents[k]) + 4 <= upto[k]
<1>10. Row(1) /\ Len(contents[1]) + 4 <= upto[1]
  BY <1>1, <1>6, <1>7, <1>8, <1>9
<1>11. Row(2)
  <2>1. upto[2 - 1] = 25 /\ upto[2] = 46 /\ contents[2] = c3 /\ tags[2] = 48 /\ items[2] = Tlv(48, c3)
    BY <1>6, <1>7, <1>8, <1>9
  <2> QED BY <1>2, <2>1
<1>12. Row(3)
  <2>1. upto[3 - 1] = 46 /\ upto[3] = 16434 /\ contents[3] = c4 /\ tags[3] = 48 /\ items[3] = Tlv(48, c4)
    BY <1>6, <1>7, <1>8, <1>9
  <2> QED BY <1>3, <2>1
<1>13. Row(4)
  <2>1. upto[4 - 1] = 16434 /\ upto[4] = 16468 /\ contents[4] = c5 /\ tags[4] = 48 /\ items[4] = Tlv(48, c5)
    BY <1>6, <1>7, <1>8, <1>9
  <2> QED BY <1>4, <2>1
<1>14. Row(5)
  <2>1. upto[5 - 1] = 16468 /\ upto[5] = 32856 /\ contents[5] = c4 /\ tags[5] = 48 /\ items[5] = Tlv(48, c4)
    BY <1>6, <1>7, <1>8, <1>9
  <2> QED BY <1>3, <2>1
<1>15. Row(6)
  <2>1. upto[6 - 1] = 32856 /\ upto[6] = 33156 /\ contents[6] = c7 /\ tags[6] = 48 /\ items[6] = Tlv(48, c7)
    BY <1>6, <1>7, <1>8, <1>9
  <2> QED BY <1>5, <2>1
<1> HIDE DEF Row
<1>16. PICK n \in Nat : n = 6
  OBVIOUS
<1>17. \A k \in 1..n : Row(k)
  <2> SUFFICES ASSUME NEW k \in 1..n PROVE Row(k)
    OBVIOUS
  <2>1. k = 1 \/ k = 2 \/ k = 3 \/ k = 4 \/ k = 5 \/ k = 6
    BY <1>16
  <2> QED BY ONLY <2>1, <1>10, <1>11, <1>12, <1>13, <1>14, <1>15
<1>18. Written(items, tags, contents) /\ FlattenSeq(items) \in AtMost(33156)
  <2>1. \A k \in 1..n : Len(contents[k]) \in Sizes /\ items[k] = Tlv(tags[k], contents[k])
    BY ONLY <1>17 DEF Row
  <2>2. \A k \in 2..n : upto[k - 1] + Len(contents[k]) + 4 <= upto[k]
    <3> SUFFICES ASSUME NEW k \in 2..n PROVE upto[k - 1] + Len(contents[k]) + 4 <= upto[k]
      OBVIOUS
    <3>1. k \in 1..n /\ k # 1
      OBVIOUS
    <3> QED BY ONLY <1>17, <3>1 DEF Row
  <2>3. /\ items \in Seq(Seq(Byte)) /\ tags \in Seq(Byte) /\ contents \in Seq(Seq(Byte))
        /\ upto \in Seq(Nat) /\ n \in Nat /\ n # 0 /\ upto[n] = 33156
        /\ Len(items) = n /\ Len(tags) = n /\ Len(contents) = n /\ Len(upto) = n
        /\ Len(contents[1]) + 4 <= upto[1]
    BY <1>6, <1>7, <1>8, <1>9, <1>10, <1>16
  <2>4. Written(items, tags, contents) /\ FlattenSeq(items) \in AtMost(upto[n])
    <3>1. /\ items \in Seq(Seq(Byte)) /\ tags \in Seq(Byte) /\ contents \in Seq(Seq(Byte))
          /\ upto \in Seq(Nat) /\ n \in Nat /\ n # 0
          /\ Len(items) = n /\ Len(tags) = n /\ Len(contents) = n /\ Len(upto) = n
          /\ Len(contents[1]) + 4 <= upto[1]
          /\ \A k \in 2..n : upto[k - 1] + Len(contents[k]) + 4 <= upto[k]
          /\ \A k \in 1..n : Len(contents[k]) \in Sizes /\ items[k] = Tlv(tags[k], contents[k])
      BY ONLY <2>1, <2>2, <2>3
    <3>2. Rooms(items, tags, contents, upto, n)
      BY ONLY <3>1 DEF Rooms
    <3> QED BY ONLY <3>2, WrittenIs
  <2> QED BY <2>3, <2>4
<1> QED BY <1>6, <1>18 DEF items, tags, contents

LEMMA ThreeAre ==
  ASSUME NEW S, NEW a \in S, NEW b \in S, NEW c \in S
  PROVE  /\ <<a, b, c>> \in Seq(S) /\ Len(<<a, b, c>>) = 3
         /\ <<a, b, c>>[1] = a
         /\ <<a, b, c>>[2] = b
         /\ <<a, b, c>>[3] = c
OBVIOUS

\* The parts of a certificate.
LEMMA ThreeWritten ==
  ASSUME NEW c1 \in AtMost(33230), NEW c2 \in AtMost(17), NEW c3 \in AtMost(257)
  PROVE  \E items, tags, contents :
           /\ items = <<Tlv(48, c1), Tlv(48, c2), Tlv(3, c3)>>
           /\ Written(items, tags, contents) /\ FlattenSeq(items) \in AtMost(33516) /\ Len(items) = 3
           /\ tags = <<48, 48, 3>> /\ contents = <<c1, c2, c3>>
<1> DEFINE items == <<Tlv(48, c1), Tlv(48, c2), Tlv(3, c3)>>
           tags == <<48, 48, 3>>
           contents == <<c1, c2, c3>>
           upto == <<33234, 33255, 33516>>
<1>1. c1 \in Seq(Byte) /\ Len(c1) \in Sizes /\ Len(c1) <= 33230 /\ Len(c1) \in Nat /\ Tlv(48, c1) \in Seq(Byte)
  <2>1. 48 \in Byte /\ 33230 \in Nat /\ 33230 <= 40000 /\ c1 \in AtMost(33230)
    BY DEF Byte
  <2> QED BY ONLY <2>1, PartIs
<1>2. c2 \in Seq(Byte) /\ Len(c2) \in Sizes /\ Len(c2) <= 17 /\ Len(c2) \in Nat /\ Tlv(48, c2) \in Seq(Byte)
  <2>1. 48 \in Byte /\ 17 \in Nat /\ 17 <= 40000 /\ c2 \in AtMost(17)
    BY DEF Byte
  <2> QED BY ONLY <2>1, PartIs
<1>3. c3 \in Seq(Byte) /\ Len(c3) \in Sizes /\ Len(c3) <= 257 /\ Len(c3) \in Nat /\ Tlv(3, c3) \in Seq(Byte)
  <2>1. 3 \in Byte /\ 257 \in Nat /\ 257 <= 40000 /\ c3 \in AtMost(257)
    BY DEF Byte
  <2> QED BY ONLY <2>1, PartIs
<1>4. /\ items \in Seq(Seq(Byte)) /\ Len(items) = 3
      /\ items[1] = Tlv(48, c1) /\ items[2] = Tlv(48, c2) /\ items[3] = Tlv(3, c3)
  <2>1. /\ Tlv(48, c1) \in Seq(Byte) /\ Tlv(48, c2) \in Seq(Byte) /\ Tlv(3, c3) \in Seq(Byte)
    BY <1>1, <1>2, <1>3
  <2> QED BY ONLY <2>1, ThreeAre
<1>5. /\ tags \in Seq(Byte) /\ Len(tags) = 3
      /\ tags[1] = 48 /\ tags[2] = 48 /\ tags[3] = 3
  <2>1. /\ 48 \in Byte /\ 3 \in Byte
    BY DEF Byte
  <2> QED BY ONLY <2>1, ThreeAre
<1>6. /\ contents \in Seq(Seq(Byte)) /\ Len(contents) = 3
      /\ contents[1] = c1 /\ contents[2] = c2 /\ contents[3] = c3
  <2>1. /\ c1 \in Seq(Byte) /\ c2 \in Seq(Byte) /\ c3 \in Seq(Byte)
    BY <1>1, <1>2, <1>3
  <2> QED BY ONLY <2>1, ThreeAre
<1>7. /\ upto \in Seq(Nat) /\ Len(upto) = 3
      /\ upto[1] = 33234 /\ upto[2] = 33255 /\ upto[3] = 33516
  <2>1. /\ 33234 \in Nat /\ 33255 \in Nat /\ 33516 \in Nat
    BY DEF Byte
  <2> QED BY ONLY <2>1, ThreeAre
<1> HIDE DEF items, tags, contents, upto
<1> DEFINE Row(k) == /\ Len(contents[k]) \in Sizes /\ items[k] = Tlv(tags[k], contents[k])
                     /\ k # 1 => upto[k - 1] + Len(contents[k]) + 4 <= upto[k]
<1>8. Row(1) /\ Len(contents[1]) + 4 <= upto[1]
  BY <1>1, <1>4, <1>5, <1>6, <1>7
<1>9. Row(2)
  <2>1. upto[2 - 1] = 33234 /\ upto[2] = 33255 /\ contents[2] = c2 /\ tags[2] = 48 /\ items[2] = Tlv(48, c2)
    BY <1>4, <1>5, <1>6, <1>7
  <2> QED BY <1>2, <2>1
<1>10. Row(3)
  <2>1. upto[3 - 1] = 33255 /\ upto[3] = 33516 /\ contents[3] = c3 /\ tags[3] = 3 /\ items[3] = Tlv(3, c3)
    BY <1>4, <1>5, <1>6, <1>7
  <2> QED BY <1>3, <2>1
<1> HIDE DEF Row
<1>11. PICK n \in Nat : n = 3
  OBVIOUS
<1>12. \A k \in 1..n : Row(k)
  <2> SUFFICES ASSUME NEW k \in 1..n PROVE Row(k)
    OBVIOUS
  <2>1. k = 1 \/ k = 2 \/ k = 3
    BY <1>11
  <2> QED BY ONLY <2>1, <1>8, <1>9, <1>10
<1>13. Written(items, tags, contents) /\ FlattenSeq(items) \in AtMost(33516)
  <2>1. \A k \in 1..n : Len(contents[k]) \in Sizes /\ items[k] = Tlv(tags[k], contents[k])
    BY ONLY <1>12 DEF Row
  <2>2. \A k \in 2..n : upto[k - 1] + Len(contents[k]) + 4 <= upto[k]
    <3> SUFFICES ASSUME NEW k \in 2..n PROVE upto[k - 1] + Len(contents[k]) + 4 <= upto[k]
      OBVIOUS
    <3>1. k \in 1..n /\ k # 1
      OBVIOUS
    <3> QED BY ONLY <1>12, <3>1 DEF Row
  <2>3. /\ items \in Seq(Seq(Byte)) /\ tags \in Seq(Byte) /\ contents \in Seq(Seq(Byte))
        /\ upto \in Seq(Nat) /\ n \in Nat /\ n # 0 /\ upto[n] = 33516
        /\ Len(items) = n /\ Len(tags) = n /\ Len(contents) = n /\ Len(upto) = n
        /\ Len(contents[1]) + 4 <= upto[1]
    BY <1>4, <1>5, <1>6, <1>7, <1>8, <1>11
  <2>4. Written(items, tags, contents) /\ FlattenSeq(items) \in AtMost(upto[n])
    <3>1. /\ items \in Seq(Seq(Byte)) /\ tags \in Seq(Byte) /\ contents \in Seq(Seq(Byte))
          /\ upto \in Seq(Nat) /\ n \in Nat /\ n # 0
          /\ Len(items) = n /\ Len(tags) = n /\ Len(contents) = n /\ Len(upto) = n
          /\ Len(contents[1]) + 4 <= upto[1]
          /\ \A k \in 2..n : upto[k - 1] + Len(contents[k]) + 4 <= upto[k]
          /\ \A k \in 1..n : Len(contents[k]) \in Sizes /\ items[k] = Tlv(tags[k], contents[k])
      BY ONLY <2>1, <2>2, <2>3
    <3>2. Rooms(items, tags, contents, upto, n)
      BY ONLY <3>1 DEF Rooms
    <3> QED BY ONLY <3>2, WrittenIs
  <2> QED BY <2>3, <2>4
<1> QED BY <1>4, <1>13 DEF items, tags, contents

\* A TBSCertificate: its fields behind the version, the sixth with the key.
LEMMA TbsWritten ==
  ASSUME NEW k \in Keys, NEW shape \in Shapes
  PROVE  /\ FlattenSeq(TbsItems(k, shape)) \in AtMost(33230)
         /\ \E tags, contents, v : Tbs(TbsItems(k, shape), tags, contents, v, KeyInfoItems(k))
<1>1. PICK version \in AtMost(6) : version = DerInteger(<<2>>)
  <2>1. <<2>> \in AtMost(1)
    <3>1. <<2>> \in Seq(Byte) /\ Len(<<2>>) = 1
      BY DEF Byte
    <3> QED BY <3>1 DEF AtMost
  <2>2. IsTlv(DerInteger(<<2>>), 2, 1 + 1)
    BY <2>1, IntegerIs
  <2>3. PICK n \in Nat : n = 2
    OBVIOUS
  <2>4. PICK c \in AtMost(n) : DerInteger(<<2>>) = Tlv(2, c)
    BY <2>2, <2>3 DEF IsTlv
  <2>5. Tlv(2, c) \in AtMost(n + 4)
    <3>1. n <= MaxContent /\ 2 \in Byte
      BY <2>3 DEF MaxContent, Byte
    <3> QED BY <3>1, TlvAtMost
  <2> QED BY <2>3, <2>4, <2>5
<1>2. PICK serial \in AtMost(21) : DerInteger(shape.serial) = Tlv(2, serial)
  BY SerialIs DEF IsTlv
<1>3. PICK algorithm \in AtMost(17) : AlgorithmIdentifier(1) = Tlv(48, algorithm)
  BY AlgorithmIs, Bytes DEF IsTlv
<1>4. PICK name \in AtMost(16384) : NameDer(shape) = Tlv(48, name)
  BY NameIs DEF IsTlv
<1>5. PICK validity \in AtMost(30) : DerSeq(<<Filler(30, 48)>>) = Tlv(48, validity)
  <2>1. 48 \in Byte
    BY DEF Byte
  <2>2. PICK raw \in AtMost(30) : raw = Filler(30, 48)
    BY <2>1, FillerIs
  <2>3. raw \in Seq(Byte)
    BY DEF AtMost
  <2>4. FlattenSeq(<<raw>>) = raw
    BY <2>3, OneItem
  <2> QED BY <2>2, <2>4 DEF DerSeq
<1>6. PICK info \in AtMost(296) : info = FlattenSeq(KeyInfoItems(k)) /\ KeyInfoDer(k) = Tlv(48, info)
  BY KeyInfoWritten DEF KeyInfoDer, KeyInfoItems, DerSeq
<1>7. PICK ext \in AtMost(60) : ext = Filler(60, 48)
  <2>1. 48 \in Byte
    BY DEF Byte
  <2> QED BY <2>1, FillerIs
<1> DEFINE six == <<Tlv(2, serial), Tlv(48, algorithm), Tlv(48, name), Tlv(48, validity), Tlv(48, name),
                    Tlv(48, info)>>
<1>8. shape.v3 \in BOOLEAN
  BY ShapesAssumption
<1>9. TbsItems(k, shape) = (IF shape.v3 THEN <<Tlv(160, version)>> ELSE <<>>) \o six
                             \o (IF shape.v3 THEN <<Tlv(163, ext)>> ELSE <<>>)
  BY <1>1, <1>2, <1>3, <1>4, <1>5, <1>6, <1>7 DEF TbsItems
<1>10. CASE shape.v3
  <2>1. PICK items, tags, contents :
           /\ items = <<Tlv(160, version), Tlv(2, serial), Tlv(48, algorithm), Tlv(48, name),
                        Tlv(48, validity), Tlv(48, name), Tlv(48, info), Tlv(163, ext)>>
           /\ Written(items, tags, contents) /\ FlattenSeq(items) \in AtMost(33230) /\ Len(items) = 8
           /\ tags = <<160, 2, 48, 48, 48, 48, 48, 163>>
           /\ contents = <<version, serial, algorithm, name, validity, name, info, ext>>
    BY EightWritten
  <2>2. TbsItems(k, shape) = <<Tlv(160, version)>> \o six \o <<Tlv(163, ext)>>
    BY <1>9, <1>10
  <2>3. TbsItems(k, shape) = items
    BY <2>1, <2>2, EightJoined
  <2>4. tags[1] = 160 /\ tags[1 + 1] = 2 /\ tags[6 + 1] = 48 /\ contents[6 + 1] = info
    BY <2>1
  <2>5. PICK v : v = 1
    OBVIOUS
  <2>6. /\ v \in {0, 1} /\ Len(items) >= 6 + v /\ (v = 1 => tags[1] = 160)
        /\ tags[1 + v] = 2 /\ tags[6 + v] = 48 /\ contents[6 + v] = FlattenSeq(KeyInfoItems(k))
    BY <1>6, <2>1, <2>4, <2>5
  <2>7. /\ Written(TbsItems(k, shape), tags, contents) /\ FlattenSeq(TbsItems(k, shape)) \in AtMost(33230)
        /\ Len(TbsItems(k, shape)) >= 6 + v
    <3>1. Written(items, tags, contents) /\ FlattenSeq(items) \in AtMost(33230) /\ Len(items) >= 6 + v
      BY <2>1, <2>6
    <3> QED BY ONLY <2>3, <3>1
  <2>8. Tbs(TbsItems(k, shape), tags, contents, v, KeyInfoItems(k))
    BY ONLY <2>6, <2>7 DEF Tbs
  <2> QED BY ONLY <2>7, <2>8
<1>11. CASE ~shape.v3
  <2>1. PICK items, tags, contents :
           /\ items = six
           /\ Written(items, tags, contents) /\ FlattenSeq(items) \in AtMost(33156) /\ Len(items) = 6
           /\ tags = <<2, 48, 48, 48, 48, 48>>
           /\ contents = <<serial, algorithm, name, validity, name, info>>
    BY SixWritten
  <2>2. TbsItems(k, shape) = <<>> \o six \o <<>>
    BY <1>9, <1>11
  <2>3. TbsItems(k, shape) = items
    BY <2>1, <2>2, EightJoined
  <2>4. tags[1 + 0] = 2 /\ tags[6 + 0] = 48 /\ contents[6 + 0] = info
    BY <2>1
  <2>5. PICK v : v = 0
    OBVIOUS
  <2>6. /\ v \in {0, 1} /\ Len(items) >= 6 + v /\ (v = 1 => tags[1] = 160)
        /\ tags[1 + v] = 2 /\ tags[6 + v] = 48 /\ contents[6 + v] = FlattenSeq(KeyInfoItems(k))
    BY <1>6, <2>1, <2>4, <2>5
  <2>7. FlattenSeq(items) \in AtMost(33230)
    BY <2>1, Larger
  <2>8. /\ Written(TbsItems(k, shape), tags, contents) /\ FlattenSeq(TbsItems(k, shape)) \in AtMost(33230)
        /\ Len(TbsItems(k, shape)) >= 6 + v
    <3>1. Written(items, tags, contents) /\ Len(items) >= 6 + v
      BY <2>1, <2>6
    <3> QED BY ONLY <2>3, <2>7, <3>1
  <2>9. Tbs(TbsItems(k, shape), tags, contents, v, KeyInfoItems(k))
    BY ONLY <2>6, <2>8 DEF Tbs
  <2> QED BY ONLY <2>8, <2>9
<1> QED BY <1>8, <1>10, <1>11

\* A certificate, and the way of from_x509_certder_get_pubkey to its key.
CertItems(k, shape) ==
    <<DerSeq(TbsItems(k, shape)), AlgorithmIdentifier(1), Tlv(3, <<0>> \o Filler(256, 1))>>

LEMMA CertWritten ==
  ASSUME NEW k \in Keys, NEW shape \in Shapes
  PROVE  /\ FlattenSeq(CertItems(k, shape)) \in AtMost(33516) /\ Len(FlattenSeq(CertItems(k, shape))) \in Sizes
         /\ \E tags, contents : Certificate(CertItems(k, shape), tags, contents, TbsItems(k, shape))
<1>1. PICK tbs \in AtMost(33230) : tbs = FlattenSeq(TbsItems(k, shape))
  BY TbsWritten
<1>2. PICK algorithm \in AtMost(17) : AlgorithmIdentifier(1) = Tlv(48, algorithm)
  BY AlgorithmIs, Bytes DEF IsTlv
<1> DEFINE bits == <<0>> \o Filler(256, 1)
<1>3. bits \in AtMost(257)
  <2>1. 1 \in Byte /\ 256 \in Nat
    BY DEF Byte
  <2>2. PICK raw \in AtMost(256) : raw = Filler(256, 1)
    BY <2>1, FillerIs
  <2>3. <<0>> \o raw \in AtMost(256 + 1)
    BY ZeroInFront
  <2>4. 256 + 1 = 257
    OBVIOUS
  <2> QED BY <2>2, <2>3, <2>4
<1> HIDE DEF bits
<1>4. PICK items, tags, contents :
         /\ items = <<Tlv(48, tbs), Tlv(48, algorithm), Tlv(3, bits)>>
         /\ Written(items, tags, contents) /\ FlattenSeq(items) \in AtMost(33516) /\ Len(items) = 3
         /\ tags = <<48, 48, 3>> /\ contents = <<tbs, algorithm, bits>>
  BY <1>3, ThreeWritten
<1>5. items = CertItems(k, shape)
  BY <1>1, <1>2, <1>4 DEF CertItems, DerSeq, bits
<1>6. tags[1] = 48 /\ contents[1] = tbs
  BY <1>4
<1>7. Len(FlattenSeq(items)) \in Sizes
  <2>1. 33516 \in Nat /\ 33516 <= MaxContent
    BY DEF MaxContent
  <2> QED BY <1>4, <2>1, AtMostIs
<1>8. Certificate(items, tags, contents, TbsItems(k, shape))
  BY <1>1, <1>4, <1>6, <1>7 DEF Certificate
<1>9. /\ FlattenSeq(items) \in AtMost(33516) /\ Len(FlattenSeq(items)) \in Sizes
      /\ Certificate(items, tags, contents, TbsItems(k, shape))
  BY <1>4, <1>7, <1>8
<1> HIDE DEF bits
<1>10. /\ FlattenSeq(CertItems(k, shape)) \in AtMost(33516) /\ Len(FlattenSeq(CertItems(k, shape))) \in Sizes
       /\ Certificate(CertItems(k, shape), tags, contents, TbsItems(k, shape))
  BY ONLY <1>5, <1>9
<1> QED BY ONLY <1>10

LEMMA CertKey ==
  ASSUME NEW k \in Keys, NEW shape \in Shapes
  PROVE  GetPubkey(CertBytes(k, shape)) = KeyBytes(k)
<1>1. \E tags, contents : Certificate(CertItems(k, shape), tags, contents, TbsItems(k, shape))
  BY CertWritten
<1>2. \E tags, contents, v : Tbs(TbsItems(k, shape), tags, contents, v, KeyInfoItems(k))
  BY TbsWritten
<1>3. \E tags, contents : Describes(KeyInfoItems(k), tags, contents, KeyBytes(k))
  <2>1. PICK tags, contents : /\ Written(KeyInfoItems(k), tags, contents)
                             /\ tags[2] = 3 /\ contents[2] = <<0>> \o KeyBytes(k)
    BY KeyInfoWritten
  <2>2. Len(KeyInfoItems(k)) = 2
    BY DEF KeyInfoItems
  <2>3. KeyBytes(k) \in Seq(Byte)
    BY KeyInfoWritten DEF AtMost
  <2>4. Describes(KeyInfoItems(k), tags, contents, KeyBytes(k))
    BY <2>1, <2>2, <2>3 DEF Describes
  <2> QED BY <2>4
<1>4. HoldsKey(CertItems(k, shape), KeyBytes(k))
  BY <1>1, <1>2, <1>3, Zenon DEF HoldsKey
<1>5. GetPubkey(DerSeq(CertItems(k, shape))) = KeyBytes(k)
  BY <1>4, KeyIsFound
<1> QED BY <1>5 DEF CertBytes, CertItems

\* So the model's table of the keys found in certificates has the key of each.
LEMMA KeyOfIs ==
  ASSUME NEW k \in Keys, NEW shape \in Shapes
  PROVE  KeyOf[k][shape] = k
<1>0. CertDer[k][shape] = CertBytes(k, shape)
  BY DEF CertDer
<1>1. PICK bytes : bytes = GetPubkey(CertDer[k][shape]) /\ bytes = KeyBytes(k)
  BY <1>0, CertKey
<1>2. bytes \in Seq(Byte) /\ bytes[1] = k
  BY <1>1, KeyInfoWritten DEF AtMost
<1>3. ~Failed(bytes)
  BY <1>2, OutcomesAssumption DEF Failed
<1>4. bytes \in {KeyBytes(j) : j \in Keys}
  BY <1>1
<1>5. KeyIn(k, shape) = bytes[1]
  BY <1>1, <1>3, <1>4 DEF KeyIn
<1>6. KeyOf[k][shape] = KeyIn(k, shape)
  BY DEF KeyOf
<1> QED BY <1>2, <1>5, <1>6
-----------------------------------------------------------------------------
(***************************************************************************)
(* The signature of an image: its parts fit into their lengths, and read   *)
(* back as they were written.                                              *)
(***************************************************************************)
\* One more item behind others.
LEMMA OneMore ==
  ASSUME NEW S, NEW s \in Seq(S), NEW x \in S
  PROVE  /\ Append(s, x) \in Seq(S) /\ Len(Append(s, x)) = Len(s) + 1 /\ Len(s) \in Nat
         /\ Append(s, x)[Len(s) + 1] = x /\ \A k \in 1..Len(s) : Append(s, x)[k] = s[k]
OBVIOUS

LEMMA FlattenMore ==
  ASSUME NEW S, NEW seqs \in Seq(Seq(S)), NEW x \in Seq(S)
  PROVE  /\ FlattenSeq(seqs) \in Seq(S)
         /\ FlattenSeq(Append(seqs, x)) = FlattenSeq(seqs) \o x
<1> DEFINE n == Len(seqs)
           more == Append(seqs, x)
<1>1. /\ more \in Seq(Seq(S)) /\ Len(more) = n + 1 /\ n \in Nat /\ more[n + 1] = x
      /\ \A k \in 1..n : more[k] = seqs[k]
  BY OneMore
<1>2. PICK f \in [0..n -> Seq(S)] : JoinedUp(f, seqs) /\ FlattenSeq(seqs) = f[n]
  BY FlattenIs
<1> HIDE DEF more
<1>3. PICK g \in [0..Len(more) -> Seq(S)] : JoinedUp(g, more) /\ FlattenSeq(more) = g[Len(more)]
  BY <1>1, FlattenIs
<1> HIDE DEF n
<1>4. f[0] = <<>> /\ \A k \in 1..n : f[k] = f[k - 1] \o seqs[k]
  BY <1>2 DEF JoinedUp, n
<1>5. g[0] = <<>> /\ \A k \in 1..(n + 1) : g[k] = g[k - 1] \o more[k]
  BY <1>1, <1>3 DEF JoinedUp
<1> DEFINE T == {k \in 0..n : f[k] = g[k]}
<1>6. ASSUME NEW k \in 1..n, k - 1 \in T PROVE k \in T
  <2>1. f[k] = f[k - 1] \o seqs[k] /\ f[k - 1] = g[k - 1]
    BY <1>4, <1>6
  <2>2. k \in 1..(n + 1) /\ more[k] = seqs[k]
    BY <1>1
  <2>3. g[k] = g[k - 1] \o more[k]
    BY <1>5, <2>2
  <2>4. f[k] = g[k]
    BY ONLY <2>1, <2>2, <2>3
  <2> QED BY <1>1, <2>4
<1>7. 0 \in T /\ n \in 0..n
  BY <1>1, <1>4, <1>5
<1>8. n \in T
  <2> HIDE DEF T
  <2> QED BY <1>1, <1>6, <1>7, Along
<1>9. g[n + 1] = g[n] \o x
  <2>0. n \in Nat
    BY <1>1
  <2>1. n + 1 \in 1..(n + 1) /\ (n + 1) - 1 = n
    BY ONLY <2>0
  <2> QED BY <1>1, <1>5, <2>1
<1>10. f[n] \in Seq(S)
  BY <1>7
<1> QED BY <1>1, <1>2, <1>3, <1>8, <1>9, <1>10 DEF more

LEMMA SizesAre == \A n \in Sizes : n \in Nat /\ n <= MaxContent
BY DEF Sizes

\* Values in at most n bytes, and one more.
Fits(items, tags, contents, n) == Written(items, tags, contents) /\ FlattenSeq(items) \in AtMost(n)

LEMMA FitsOne ==
  ASSUME NEW tag \in Byte, NEW n \in Sizes, NEW content \in AtMost(n)
  PROVE  Fits(<<Tlv(tag, content)>>, <<tag>>, <<content>>, n + 4)
<1>1. /\ content \in Seq(Byte) /\ Len(content) \in Sizes
      /\ Tlv(tag, content) \in Seq(Byte) /\ Tlv(tag, content) \in AtMost(n + 4)
  <2>1. n \in Nat /\ n <= MaxContent
    BY SizesAre
  <2> QED BY <2>1, AtMostIs, TlvAtMost
<1>2. PICK raw \in Seq(Byte) : raw = Tlv(tag, content) /\ raw \in AtMost(n + 4)
  BY <1>1
<1>3. FlattenSeq(<<raw>>) = raw
  BY OneItem
<1>4. /\ <<raw>> \in Seq(Seq(Byte)) /\ <<tag>> \in Seq(Byte) /\ <<content>> \in Seq(Seq(Byte))
      /\ Len(<<raw>>) = 1 /\ Len(<<tag>>) = 1 /\ Len(<<content>>) = 1
      /\ <<raw>>[1] = raw /\ <<tag>>[1] = tag /\ <<content>>[1] = content
  BY <1>1
<1>5. Written(<<raw>>, <<tag>>, <<content>>)
  <2>1. \A k \in 1..1 : Len(<<content>>[k]) \in Sizes /\ <<raw>>[k] = Tlv(<<tag>>[k], <<content>>[k])
    BY <1>1, <1>2, <1>4
  <2> QED BY ONLY <1>4, <2>1 DEF Written
<1> QED BY <1>2, <1>3, <1>5 DEF Fits

LEMMA FitsMore ==
  ASSUME NEW items, NEW tags, NEW contents, NEW n \in Nat, Fits(items, tags, contents, n),
         NEW tag \in Byte, NEW m \in Sizes, NEW content \in AtMost(m)
  PROVE  Fits(Append(items, Tlv(tag, content)), Append(tags, tag), Append(contents, content), n + m + 4)
<1>1. /\ content \in Seq(Byte) /\ Len(content) \in Sizes
      /\ Tlv(tag, content) \in Seq(Byte) /\ Tlv(tag, content) \in AtMost(m + 4)
  <2>1. m \in Nat /\ m <= MaxContent
    BY SizesAre
  <2> QED BY <2>1, AtMostIs, TlvAtMost
<1>2. PICK raw \in Seq(Byte) : raw = Tlv(tag, content) /\ raw \in AtMost(m + 4)
  BY <1>1
<1>3. /\ items \in Seq(Seq(Byte)) /\ tags \in Seq(Byte) /\ contents \in Seq(Seq(Byte))
      /\ Len(tags) = Len(items) /\ Len(contents) = Len(items)
      /\ \A k \in 1..Len(items) : /\ Len(contents[k]) \in Sizes
                                 /\ items[k] = Tlv(tags[k], contents[k])
  BY DEF Fits, Written
<1>4. PICK l \in Nat : l = Len(items)
  BY <1>3
<1> DEFINE its == Append(items, raw)
           tgs == Append(tags, tag)
           cts == Append(contents, content)
<1>6. its \in Seq(Seq(Byte)) /\ Len(its) = l + 1 /\ its[l + 1] = raw /\ \A k \in 1..l : its[k] = items[k]
  BY <1>3, <1>4, OneMore
<1>7. tgs \in Seq(Byte) /\ Len(tgs) = l + 1 /\ tgs[l + 1] = tag /\ \A k \in 1..l : tgs[k] = tags[k]
  BY <1>3, <1>4, OneMore
<1>8. cts \in Seq(Seq(Byte)) /\ Len(cts) = l + 1 /\ cts[l + 1] = content /\ \A k \in 1..l : cts[k] = contents[k]
  BY <1>1, <1>3, <1>4, OneMore
<1> HIDE DEF its, tgs, cts
<1>9. ASSUME NEW k \in 1..(l + 1) PROVE Len(cts[k]) \in Sizes /\ its[k] = Tlv(tgs[k], cts[k])
  <2>1. k \in 1..l \/ k = l + 1
    OBVIOUS
  <2>2. CASE k \in 1..l
    <3>1. Len(contents[k]) \in Sizes /\ items[k] = Tlv(tags[k], contents[k])
      BY <1>3, <1>4, <2>2
    <3> QED BY ONLY <1>6, <1>7, <1>8, <2>2, <3>1
  <2>3. CASE k = l + 1
    BY <1>1, <1>2, <1>6, <1>7, <1>8, <2>3
  <2> QED BY <2>1, <2>2, <2>3
<1>10. Written(its, tgs, cts)
  BY ONLY <1>6, <1>7, <1>8, <1>9 DEF Written
<1>11. FlattenSeq(its) = FlattenSeq(items) \o raw
  BY <1>3, FlattenMore DEF its
<1>12. FlattenSeq(its) \in AtMost(n + m + 4)
  <2>1. PICK front \in Seq(Byte) : front = FlattenSeq(items) /\ Len(front) <= n
    BY DEF Fits, AtMost
  <2>2. raw \in Seq(Byte) /\ Len(raw) <= m + 4
    BY <1>2 DEF AtMost
  <2>3. front \o raw \in Seq(Byte) /\ Len(front \o raw) = Len(front) + Len(raw) /\ Len(front) \in Nat /\ Len(raw) \in Nat
    OBVIOUS
  <2>4. Len(front \o raw) <= n + m + 4
    <3>1. m \in Nat
      BY SizesAre
    <3> QED BY <2>1, <2>2, <2>3, <3>1
  <2> QED BY <1>11, <2>1, <2>3, <2>4 DEF AtMost
<1> QED BY <1>2, <1>10, <1>12 DEF Fits, its, tgs, cts

LEMMA LastOf ==
  ASSUME NEW S, NEW s \in Seq(S), NEW t \in Seq(S), Len(t) = Len(s) + 1,
         \A k \in 1..Len(s) : t[k] = s[k]
  PROVE  Append(s, t[Len(t)]) = t
<1>1. Len(s) \in Nat
  OBVIOUS
<1>2. t[Len(t)] \in S
  BY <1>1
<1>3. PICK x \in S : x = t[Len(t)]
  BY <1>2
<1>4. PICK u : u = Append(s, x)
  OBVIOUS
<1>5. u \in Seq(S) /\ Len(u) = Len(s) + 1 /\ u[Len(s) + 1] = x /\ \A k \in 1..Len(s) : u[k] = s[k]
  BY <1>4, OneMore
<1>6. \A k \in 1..Len(u) : k \in 1..Len(s) \/ k = Len(s) + 1
  BY <1>1, <1>5
<1>7. \A k \in 1..Len(u) : u[k] = t[k]
  BY <1>3, <1>5, <1>6
<1>8. u = t
  BY <1>5, <1>7, SameItems
<1> QED BY <1>3, <1>4, <1>8

LEMMA SecondAppended ==
  ASSUME NEW S, NEW a \in S, NEW b \in S
  PROVE  Append(<<a>>, b) = <<a, b>>
<1>1. /\ <<a>> \in Seq(S) /\ Len(<<a>>) = 1 /\ <<a>>[1] = a
      /\ <<a, b>> \in Seq(S) /\ Len(<<a, b>>) = 2 /\ <<a, b>>[1] = a /\ <<a, b>>[2] = b
  OBVIOUS
<1>2. PICK s \in Seq(S), t \in Seq(S) :
        s = <<a>> /\ t = <<a, b>> /\ Len(s) = 1 /\ Len(t) = 2 /\ s[1] = a /\ t[1] = a /\ t[2] = b
  BY <1>1
<1>3. Len(t) = Len(s) + 1 /\ \A k \in 1..Len(s) : t[k] = s[k]
  BY <1>2
<1>4. Append(s, t[Len(t)]) = t
  BY ONLY <1>3, s \in Seq(S), t \in Seq(S), LastOf
<1> QED BY <1>2, <1>4

LEMMA ThirdAppended ==
  ASSUME NEW S, NEW a \in S, NEW b \in S, NEW c \in S
  PROVE  Append(<<a, b>>, c) = <<a, b, c>>
<1>1. /\ <<a, b>> \in Seq(S) /\ Len(<<a, b>>) = 2 /\ <<a, b>>[1] = a /\ <<a, b>>[2] = b
      /\ <<a, b, c>> \in Seq(S) /\ Len(<<a, b, c>>) = 3
      /\ <<a, b, c>>[1] = a /\ <<a, b, c>>[2] = b /\ <<a, b, c>>[3] = c
  OBVIOUS
<1>2. PICK s \in Seq(S), t \in Seq(S) :
        /\ s = <<a, b>> /\ t = <<a, b, c>> /\ Len(s) = 2 /\ Len(t) = 3
        /\ s[1] = a /\ s[2] = b /\ t[1] = a /\ t[2] = b /\ t[3] = c
  BY <1>1
<1>3. Len(t) = Len(s) + 1 /\ \A k \in 1..Len(s) : t[k] = s[k]
  BY <1>2
<1>4. Append(s, t[Len(t)]) = t
  BY ONLY <1>3, s \in Seq(S), t \in Seq(S), LastOf
<1> QED BY <1>2, <1>4

LEMMA FourthAppended ==
  ASSUME NEW S, NEW a \in S, NEW b \in S, NEW c \in S, NEW d \in S
  PROVE  Append(<<a, b, c>>, d) = <<a, b, c, d>>
<1>1. /\ <<a, b, c>> \in Seq(S) /\ Len(<<a, b, c>>) = 3
      /\ <<a, b, c>>[1] = a /\ <<a, b, c>>[2] = b /\ <<a, b, c>>[3] = c
      /\ <<a, b, c, d>> \in Seq(S) /\ Len(<<a, b, c, d>>) = 4
      /\ <<a, b, c, d>>[1] = a /\ <<a, b, c, d>>[2] = b /\ <<a, b, c, d>>[3] = c
      /\ <<a, b, c, d>>[4] = d
  OBVIOUS
<1>2. PICK s \in Seq(S), t \in Seq(S) :
        /\ s = <<a, b, c>> /\ t = <<a, b, c, d>> /\ Len(s) = 3 /\ Len(t) = 4
        /\ s[1] = a /\ s[2] = b /\ s[3] = c /\ t[1] = a /\ t[2] = b /\ t[3] = c /\ t[4] = d
  BY <1>1
<1>3. Len(t) = Len(s) + 1 /\ \A k \in 1..Len(s) : t[k] = s[k]
  BY <1>2
<1>4. Append(s, t[Len(t)]) = t
  BY ONLY <1>3, s \in Seq(S), t \in Seq(S), LastOf
<1> QED BY <1>2, <1>4

LEMMA FifthAppended ==
  ASSUME NEW S, NEW a \in S, NEW b \in S, NEW c \in S, NEW d \in S, NEW e \in S
  PROVE  Append(<<a, b, c, d>>, e) = <<a, b, c, d, e>>
<1>1. /\ <<a, b, c, d>> \in Seq(S) /\ Len(<<a, b, c, d>>) = 4
      /\ <<a, b, c, d>>[1] = a /\ <<a, b, c, d>>[2] = b /\ <<a, b, c, d>>[3] = c
      /\ <<a, b, c, d>>[4] = d
      /\ <<a, b, c, d, e>> \in Seq(S) /\ Len(<<a, b, c, d, e>>) = 5
      /\ <<a, b, c, d, e>>[1] = a /\ <<a, b, c, d, e>>[2] = b /\ <<a, b, c, d, e>>[3] = c
      /\ <<a, b, c, d, e>>[4] = d /\ <<a, b, c, d, e>>[5] = e
  OBVIOUS
<1>2. PICK s \in Seq(S), t \in Seq(S) :
        /\ s = <<a, b, c, d>> /\ t = <<a, b, c, d, e>> /\ Len(s) = 4 /\ Len(t) = 5
        /\ s[1] = a /\ s[2] = b /\ s[3] = c /\ s[4] = d
        /\ t[1] = a /\ t[2] = b /\ t[3] = c /\ t[4] = d /\ t[5] = e
  BY <1>1
<1>3. Len(t) = Len(s) + 1 /\ \A k \in 1..Len(s) : t[k] = s[k]
  BY <1>2
<1>4. Append(s, t[Len(t)]) = t
  BY ONLY <1>3, s \in Seq(S), t \in Seq(S), LastOf
<1> QED BY <1>2, <1>4

LEMMA SixthAppended ==
  ASSUME NEW S, NEW a \in S, NEW b \in S, NEW c \in S, NEW d \in S, NEW e \in S, NEW f \in S
  PROVE  Append(<<a, b, c, d, e>>, f) = <<a, b, c, d, e, f>>
<1>1. /\ <<a, b, c, d, e>> \in Seq(S) /\ Len(<<a, b, c, d, e>>) = 5
      /\ <<a, b, c, d, e>>[1] = a /\ <<a, b, c, d, e>>[2] = b /\ <<a, b, c, d, e>>[3] = c
      /\ <<a, b, c, d, e>>[4] = d /\ <<a, b, c, d, e>>[5] = e
  OBVIOUS
<1>2. PICK s \in Seq(S), t \in Seq(S) :
        /\ s = <<a, b, c, d, e>> /\ t = <<a, b, c, d, e, f>> /\ Len(s) = 5 /\ Len(t) = 6
        /\ s[1] = a /\ s[2] = b /\ s[3] = c /\ s[4] = d /\ s[5] = e
        /\ t[1] = a /\ t[2] = b /\ t[3] = c /\ t[4] = d /\ t[5] = e /\ t[6] = f
  <2>1. /\ <<a, b, c, d, e, f>> \in Seq(S) /\ Len(<<a, b, c, d, e, f>>) = 6
        /\ <<a, b, c, d, e, f>>[1] = a /\ <<a, b, c, d, e, f>>[2] = b
        /\ <<a, b, c, d, e, f>>[3] = c /\ <<a, b, c, d, e, f>>[4] = d
        /\ <<a, b, c, d, e, f>>[5] = e /\ <<a, b, c, d, e, f>>[6] = f
    BY SixAre
  <2>2. PICK t \in Seq(S) :
          /\ t = <<a, b, c, d, e, f>> /\ Len(t) = 6
          /\ t[1] = a /\ t[2] = b /\ t[3] = c /\ t[4] = d /\ t[5] = e /\ t[6] = f
    BY <2>1
  <2> QED BY <1>1, <2>2
<1>3. Len(t) = Len(s) + 1 /\ \A k \in 1..Len(s) : t[k] = s[k]
  BY <1>2
<1>4. Append(s, t[Len(t)]) = t
  BY ONLY <1>3, s \in Seq(S), t \in Seq(S), LastOf
<1> QED BY <1>2, <1>4

\* The fields that are read of values written one behind the other.
ReadAs(raw, contents) ==
    /\ Len(Fields(raw, 0)) = Len(contents)
    /\ \A k \in 1..Len(contents) : Fields(raw, 0)[k].value = contents[k]

LEMMA FieldsFound ==
  ASSUME NEW items, NEW tags, NEW contents, Written(items, tags, contents), Len(items) # 0
  PROVE  ReadAs(FlattenSeq(items), contents)
<1>1. PICK off, fields : Parsed(items, tags, contents, off, fields)
  BY FieldsParsed
<1>2. PICK n \in Nat \ {0} : n = Len(items) /\ n = Len(contents)
  BY DEF Written
<1>3. /\ fields \in Seq(Tlvs) /\ Len(fields) = n /\ off[0] = 0
      /\ \A k \in 1..n : /\ fields[k].value = contents[k]
                         /\ Fields(FlattenSeq(items), off[k - 1]) = SubSeq(fields, k, n)
  BY <1>1, <1>2 DEF Parsed
<1>4. Fields(FlattenSeq(items), 0) = SubSeq(fields, 1, n)
  <2>1. 1 \in 1..n /\ 1 - 1 = 0
    OBVIOUS
  <2>2. Fields(FlattenSeq(items), off[1 - 1]) = SubSeq(fields, 1, n)
    BY ONLY <1>3, <2>1
  <2> QED BY <1>3, <2>1, <2>2
<1>5. SubSeq(fields, 1, n) = fields
  BY <1>3
<1> QED BY <1>2, <1>3, <1>4, <1>5 DEF ReadAs

LEMMA PairFlat ==
  ASSUME NEW S, NEW a \in Seq(S), NEW b \in Seq(S)
  PROVE  FlattenSeq(<<a, b>>) = a \o b
<1>1. <<a>> \in Seq(Seq(S))
  OBVIOUS
<1>2. FlattenSeq(Append(<<a>>, b)) = FlattenSeq(<<a>>) \o b
  BY <1>1, FlattenMore
<1>3. FlattenSeq(<<a>>) = a
  BY OneItem
<1>4. PICK T : T = Seq(S)
  OBVIOUS
<1>5. a \in T /\ b \in T
  BY <1>4
<1>6. Append(<<a>>, b) = <<a, b>>
  BY ONLY <1>5, SecondAppended
<1> QED BY <1>2, <1>3, <1>6

LEMMA FitsTwo ==
  ASSUME NEW t1 \in Byte, NEW n1 \in Sizes, NEW c1 \in AtMost(n1),
         NEW t2 \in Byte, NEW n2 \in Sizes, NEW c2 \in AtMost(n2)
  PROVE  Fits(<<Tlv(t1, c1), Tlv(t2, c2)>>, <<t1, t2>>, <<c1, c2>>, n1 + n2 + 8)
<1>1. Fits(<<Tlv(t1, c1)>>, <<t1>>, <<c1>>, n1 + 4)
  BY FitsOne
<1>2. n1 + 4 \in Nat /\ (n1 + 4) + n2 + 4 = n1 + n2 + 8
  BY SizesAre
<1>3. Fits(Append(<<Tlv(t1, c1)>>, Tlv(t2, c2)), Append(<<t1>>, t2), Append(<<c1>>, c2), (n1 + 4) + n2 + 4)
  BY ONLY <1>1, <1>2, t2 \in Byte, n2 \in Sizes, c2 \in AtMost(n2), FitsMore
<1>4. /\ Append(<<Tlv(t1, c1)>>, Tlv(t2, c2)) = <<Tlv(t1, c1), Tlv(t2, c2)>>
      /\ Append(<<t1>>, t2) = <<t1, t2>> /\ Append(<<c1>>, c2) = <<c1, c2>>
  <2>1. ASSUME NEW S, NEW a \in S, NEW b \in S PROVE Append(<<a>>, b) = <<a, b>>
    BY ONLY a \in S, b \in S, SecondAppended
  <2>2. PICK S : Tlv(t1, c1) \in S /\ Tlv(t2, c2) \in S
    <3>1. Tlv(t1, c1) \in {Tlv(t1, c1), Tlv(t2, c2)} /\ Tlv(t2, c2) \in {Tlv(t1, c1), Tlv(t2, c2)}
      OBVIOUS
    <3> QED BY ONLY <3>1, Zenon
  <2>3. PICK T : c1 \in T /\ c2 \in T
    <3>1. c1 \in {c1, c2} /\ c2 \in {c1, c2}
      OBVIOUS
    <3> QED BY ONLY <3>1, Zenon
  <2> QED BY ONLY <2>1, <2>2, <2>3, t1 \in Byte, t2 \in Byte
<1> QED BY ONLY <1>2, <1>3, <1>4

\* Values that tlv wrote, in a sequence, a set and another value.
LEMMA OidIs ==
  ASSUME NEW n \in Byte
  PROVE  IsTlv(DerOid(n), 6, 9)
<1>1. [k \in 1..9 |-> n] \in Seq(Byte) /\ Len([k \in 1..9 |-> n]) = 9
  OBVIOUS
<1>2. [k \in 1..9 |-> n] \in AtMost(9)
  BY <1>1 DEF AtMost
<1> QED BY <1>2 DEF IsTlv, DerOid

LEMMA TlvFits ==
  ASSUME NEW raw, NEW tag \in Byte, NEW n \in Sizes, IsTlv(raw, tag, n)
  PROVE  raw \in AtMost(n + 4) /\ raw \in Seq(Byte)
<1>1. PICK content \in AtMost(n) : raw = Tlv(tag, content)
  BY DEF IsTlv
<1>2. n \in Nat /\ n <= MaxContent
  BY SizesAre
<1> QED BY <1>1, <1>2, TlvAtMost

LEMMA PairIs ==
  ASSUME NEW a, NEW t1 \in Byte, NEW n1 \in Sizes, IsTlv(a, t1, n1),
         NEW b, NEW t2 \in Byte, NEW n2 \in Sizes, IsTlv(b, t2, n2)
  PROVE  /\ FlattenSeq(<<a, b>>) \in AtMost(n1 + n2 + 8) /\ FlattenSeq(<<a, b>>) = a \o b
         /\ FlattenSeq(<<b, a>>) \in AtMost(n1 + n2 + 8)
         /\ IsTlv(DerSeq(<<a, b>>), 48, n1 + n2 + 8)
<1>1. PICK c1 \in AtMost(n1), c2 \in AtMost(n2) : a = Tlv(t1, c1) /\ b = Tlv(t2, c2)
  BY DEF IsTlv
<1>2. n1 + n2 + 8 = n2 + n1 + 8
  BY SizesAre
<1>3. FlattenSeq(<<a, b>>) \in AtMost(n1 + n2 + 8)
  <2>1. Fits(<<Tlv(t1, c1), Tlv(t2, c2)>>, <<t1, t2>>, <<c1, c2>>, n1 + n2 + 8)
    BY FitsTwo
  <2> QED BY ONLY <1>1, <2>1 DEF Fits
<1>4. FlattenSeq(<<b, a>>) \in AtMost(n1 + n2 + 8)
  <2>1. FlattenSeq(<<b, a>>) \in AtMost(n2 + n1 + 8)
    <3>1. Fits(<<Tlv(t2, c2), Tlv(t1, c1)>>, <<t2, t1>>, <<c2, c1>>, n2 + n1 + 8)
      BY FitsTwo
    <3> QED BY ONLY <1>1, <3>1 DEF Fits
  <2> QED BY <1>2, <2>1
<1>5. a \in Seq(Byte) /\ b \in Seq(Byte)
  BY TlvFits
<1>6. FlattenSeq(<<a, b>>) = a \o b
  BY <1>5, PairFlat
<1>7. IsTlv(DerSeq(<<a, b>>), 48, n1 + n2 + 8)
  <2>1. PICK content \in AtMost(n1 + n2 + 8) : content = FlattenSeq(<<a, b>>)
    BY <1>3
  <2>2. DerSeq(<<a, b>>) = Tlv(48, content)
    BY ONLY <2>1 DEF DerSeq
  <2> QED BY ONLY <2>2, content \in AtMost(n1 + n2 + 8) DEF IsTlv
<1> QED BY ONLY <1>3, <1>4, <1>6, <1>7

LEMMA NotBothLess ==
  ASSUME NEW s \in Seq(Byte), NEW t \in Seq(Byte), BytesLess(s, t), BytesLess(t, s)
  PROVE  FALSE
<1>1. Len(s) \in Nat /\ Len(t) \in Nat /\ DOMAIN s = 1..Len(s) /\ DOMAIN t = 1..Len(t)
  OBVIOUS
<1>2. /\ \A k \in 1..Len(s) : s[k] \in Nat
      /\ \A k \in 1..Len(t) : t[k] \in Nat
  <2>1. /\ \A k \in 1..Len(s) : s[k] \in Byte
        /\ \A k \in 1..Len(t) : t[k] \in Byte
    OBVIOUS
  <2>2. \A x \in Byte : x \in Nat
    BY DEF Byte
  <2> QED BY ONLY <2>1, <2>2
<1>3. ASSUME NEW a \in Seq(Byte), NEW b \in Seq(Byte), NEW n \in Nat, n <= Len(a), n <= Len(b),
             SubSeq(a, 1, n) = SubSeq(b, 1, n), NEW k \in 1..n
      PROVE  a[k] = b[k]
  <2>1. SubSeq(a, 1, n)[k] = a[k] /\ SubSeq(b, 1, n)[k] = b[k]
    OBVIOUS
  <2> QED BY <1>3, <2>1
<1>4. ASSUME NEW a \in Seq(Byte), NEW b \in Seq(Byte), Len(a) <= Len(b), a = SubSeq(b, 1, Len(a)),
             NEW k \in DOMAIN a \cap DOMAIN b, b[k] < a[k]
      PROVE  FALSE
  <2>0. Len(a) \in Nat /\ DOMAIN a = 1..Len(a) /\ Len(b) \in Nat
    OBVIOUS
  <2>1. PICK n \in Nat : n = Len(a) /\ n <= Len(b) /\ k \in 1..n
    BY ONLY <1>4, <2>0
  <2>2. a[k] = SubSeq(b, 1, n)[k]
    BY <1>4, <2>1
  <2>3. SubSeq(b, 1, n)[k] = b[k]
    BY <2>1
  <2>4. a[k] \in Byte
    BY <2>1
  <2>5. a[k] \in Nat
    <3>1. \A x \in Byte : x \in Nat
      BY DEF Byte
    <3> QED BY ONLY <2>4, <3>1
  <2>6. a[k] = b[k] /\ b[k] < a[k]
    BY ONLY <1>4, <2>2, <2>3
  <2> QED BY ONLY <2>5, <2>6
<1>5. CASE Len(s) < Len(t) /\ s = SubSeq(t, 1, Len(s))
  BY <1>1, <1>4, <1>5 DEF BytesLess
<1>6. CASE Len(t) < Len(s) /\ t = SubSeq(s, 1, Len(t))
  BY <1>1, <1>4, <1>6 DEF BytesLess
<1>7. CASE /\ \E k \in DOMAIN s \cap DOMAIN t : s[k] < t[k] /\ SubSeq(s, 1, k - 1) = SubSeq(t, 1, k - 1)
           /\ \E k \in DOMAIN s \cap DOMAIN t : t[k] < s[k] /\ SubSeq(t, 1, k - 1) = SubSeq(s, 1, k - 1)
  <2>1. PICK k \in DOMAIN s \cap DOMAIN t : s[k] < t[k] /\ SubSeq(s, 1, k - 1) = SubSeq(t, 1, k - 1)
    BY <1>7
  <2>2. PICK m \in DOMAIN s \cap DOMAIN t : t[m] < s[m] /\ SubSeq(t, 1, m - 1) = SubSeq(s, 1, m - 1)
    BY <1>7
  <2>3. k \in Nat /\ m \in Nat /\ k # 0 /\ m # 0 /\ k <= Len(s) /\ k <= Len(t) /\ m <= Len(s) /\ m <= Len(t)
    BY <1>1
  <2>4. CASE k < m
    <3>1. m - 1 \in Nat /\ m - 1 <= Len(s) /\ m - 1 <= Len(t) /\ k \in 1..(m - 1)
      BY <1>1, <2>3, <2>4
    <3>2. s[k] = t[k]
      BY <1>3, <2>2, <3>1
    <3> QED BY <1>2, <2>1, <2>3, <3>2
  <2>5. CASE m < k
    <3>1. k - 1 \in Nat /\ k - 1 <= Len(s) /\ k - 1 <= Len(t) /\ m \in 1..(k - 1)
      BY <1>1, <2>3, <2>5
    <3>2. s[m] = t[m]
      BY <1>3, <2>1, <3>1
    <3> QED BY <1>2, <2>2, <2>3, <3>2
  <2>6. CASE m = k
    <3>1. s[k] \in Nat /\ t[k] \in Nat
      BY <1>2, <2>3
    <3> QED BY <2>1, <2>2, <2>6, <3>1
  <2> QED BY <2>3, <2>4, <2>5, <2>6
<1> QED BY <1>5, <1>6, <1>7 DEF BytesLess

\* A set has its elements in some order.
LEMMA SortedIs ==
  ASSUME NEW items, NEW p \in Injection(DOMAIN items, DOMAIN items),
         \A i, j \in DOMAIN items : i < j => ~BytesLess(items[p[j]], items[p[i]])
  PROVE  \E q \in Injection(DOMAIN items, DOMAIN items) : Sorted(items) = [k \in DOMAIN items |-> items[q[k]]]
<1> DEFINE Orders(q) == \A i, j \in DOMAIN items : i < j => ~BytesLess(items[q[j]], items[q[i]])
           at == CHOOSE q \in Injection(DOMAIN items, DOMAIN items) : Orders(q)
<1>1. Orders(p)
  OBVIOUS
<1>2. Sorted(items) = [k \in DOMAIN items |-> items[at[k]]]
  BY DEF Sorted
<1> HIDE DEF Orders
<1>3. at \in Injection(DOMAIN items, DOMAIN items)
  BY <1>1
<1> HIDE DEF at
<1> QED BY <1>2, <1>3

LEMMA OneSorted ==
  ASSUME NEW a
  PROVE  Sorted(<<a>>) = <<a>>
<1>1. PICK items : items = <<a>> /\ DOMAIN items = {1} /\ items[1] = a
  <2>1. DOMAIN <<a>> = 1..1 /\ <<a>>[1] = a
    OBVIOUS
  <2>2. 1..1 = {1}
    OBVIOUS
  <2> QED BY <2>1, <2>2, Zenon
<1>2. [k \in {1} |-> 1] \in Injection({1}, {1})
  BY DEF Injection, IsInjective
<1>3. PICK q \in Injection(DOMAIN items, DOMAIN items) : Sorted(items) = [k \in DOMAIN items |-> items[q[k]]]
  <2>1. PICK p \in Injection(DOMAIN items, DOMAIN items) : p = [k \in {1} |-> 1]
    BY <1>1, <1>2
  <2>2. \A i, j \in DOMAIN items : i < j => ~BytesLess(items[p[j]], items[p[i]])
    BY <1>1
  <2> QED BY ONLY <2>2, p \in Injection(DOMAIN items, DOMAIN items), SortedIs
<1>4. q[1] = 1
  BY <1>1, <1>3 DEF Injection
<1>5. Sorted(items) = [k \in {1} |-> a]
  BY <1>1, <1>3, <1>4
<1>6. <<a>> = [k \in {1} |-> a]
  OBVIOUS
<1> QED BY <1>1, <1>5, <1>6

LEMMA TwoSorted ==
  ASSUME NEW a \in Seq(Byte), NEW b \in Seq(Byte)
  PROVE  Sorted(<<a, b>>) \in {<<a, b>>, <<b, a>>}
<1>1. PICK items : items = <<a, b>> /\ DOMAIN items = {1, 2} /\ items[1] = a /\ items[2] = b
  <2>1. DOMAIN <<a, b>> = 1..2 /\ <<a, b>>[1] = a /\ <<a, b>>[2] = b
    OBVIOUS
  <2>2. 1..2 = {1, 2}
    OBVIOUS
  <2> QED BY <2>1, <2>2, Zenon
<1> DEFINE same == [k \in {1, 2} |-> k]
           other == [k \in {1, 2} |-> 3 - k]
<1>2. same \in Injection({1, 2}, {1, 2}) /\ other \in Injection({1, 2}, {1, 2})
  BY DEF Injection, IsInjective
<1>3. same[1] = 1 /\ same[2] = 2 /\ other[1] = 2 /\ other[2] = 1
  OBVIOUS
<1> HIDE DEF same, other
<1>4. \A i, j \in {1, 2} : i < j => i = 1 /\ j = 2
  OBVIOUS
<1>5. PICK q \in Injection(DOMAIN items, DOMAIN items) : Sorted(items) = [k \in DOMAIN items |-> items[q[k]]]
  <2>1. CASE ~BytesLess(b, a)
    <3>1. \A i, j \in DOMAIN items : i < j => ~BytesLess(items[same[j]], items[same[i]])
      BY <1>1, <1>3, <1>4, <2>1
    <3>2. same \in Injection(DOMAIN items, DOMAIN items)
      BY <1>1, <1>2
    <3> QED BY ONLY <3>1, <3>2, SortedIs
  <2>2. CASE ~BytesLess(a, b)
    <3>1. \A i, j \in DOMAIN items : i < j => ~BytesLess(items[other[j]], items[other[i]])
      BY <1>1, <1>3, <1>4, <2>2
    <3>2. other \in Injection(DOMAIN items, DOMAIN items)
      BY <1>1, <1>2
    <3> QED BY ONLY <3>1, <3>2, SortedIs
  <2> QED BY <2>1, <2>2, NotBothLess
<1>6. q[1] \in {1, 2} /\ q[2] \in {1, 2} /\ q[1] # q[2]
  BY <1>1, <1>5 DEF Injection, IsInjective
<1>7. Sorted(items) = <<items[q[1]], items[q[2]]>>
  <2>1. DOMAIN items = 1..2
    BY <1>1
  <2>2. Sorted(items) = [k \in 1..2 |-> items[q[k]]]
    BY <1>5, <2>1
  <2>3. <<items[q[1]], items[q[2]]>> = [k \in 1..2 |-> items[q[k]]]
    OBVIOUS
  <2> QED BY <2>2, <2>3
<1> QED BY <1>1, <1>6, <1>7

\* Three pieces one behind the other.
LEMMA ThreePieces ==
  ASSUME NEW S, NEW a \in S, NEW size \in Seq(S), NEW content \in Seq(S), Len(size) # 0
  PROVE  /\ <<a>> \o size \o content \in Seq(S) /\ (<<a>> \o size \o content)[2] = size[1]
         /\ Len(<<a>> \o size \o content) = 1 + Len(size) + Len(content)
         /\ SubSeq(<<a>> \o size \o content, 2 + Len(size), Len(<<a>> \o size \o content)) = content
<1>1. PICK head \in Seq(S) : /\ head = <<a>> \o size /\ Len(head) = 1 + Len(size)
                             /\ head[2] = size[1]
  <2>1. /\ <<a>> \o size \in Seq(S) /\ Len(<<a>> \o size) = 1 + Len(size)
        /\ (<<a>> \o size)[2] = size[1]
    OBVIOUS
  <2> QED BY <2>1
<1>2. PICK body \in Seq(S) : /\ body = head \o content /\ Len(body) = Len(head) + Len(content)
                             /\ body[2] = head[2]
                             /\ \A k \in 1..Len(content) : body[Len(head) + k] = content[k]
  <2>1. /\ head \o content \in Seq(S) /\ Len(head \o content) = Len(head) + Len(content)
        /\ (head \o content)[2] = head[2]
        /\ \A k \in 1..Len(content) : (head \o content)[Len(head) + k] = content[k]
    BY <1>1
  <2> QED BY <2>1
<1>3. Len(head) \in Nat /\ Len(content) \in Nat /\ Len(head) + Len(content) <= Len(body)
  BY <1>2
<1>4. SubSeq(body, Len(head) + 1, Len(head) + Len(content)) = content
  BY ONLY <1>2, <1>3, body \in Seq(S), content \in Seq(S), PieceFound
<1>5. Len(head) + 1 = 2 + Len(size) /\ Len(size) \in Nat
  BY <1>1
<1>6. SubSeq(body, 2 + Len(size), Len(body)) = content
  BY ONLY <1>2, <1>4, <1>5
<1>7. body = <<a>> \o size \o content /\ body[2] = size[1] /\ Len(body) = 1 + Len(size) + Len(content)
  BY ONLY <1>1, <1>2
<1> QED BY <1>6, <1>7

LEMMA WithoutHeaderIs ==
  ASSUME NEW tag \in Byte, NEW content \in Seq(Byte), Len(content) \in Sizes
  PROVE  WithoutHeader(Tlv(tag, content)) = content
<1>1. PICK n \in Sizes : n = Len(content) /\ n \in Nat
  BY DEF Sizes
<1>2. PICK size \in Seq(Byte) :
        /\ size = LengthBytes(n) /\ Len(size) # 0 /\ Len(size) \in Nat
        /\ (IF size[1] < 128 THEN 2 ELSE 2 + (size[1] - 128)) = 1 + Len(size)
  <2>1. CASE n < 128
    <3>1. PICK size \in Seq(Byte) : size = LengthBytes(n) /\ Len(size) = 1 /\ size[1] = n
      BY <1>1, <2>1, ShortLength
    <3>2. /\ size = LengthBytes(n) /\ Len(size) # 0 /\ Len(size) \in Nat
          /\ (IF size[1] < 128 THEN 2 ELSE 2 + (size[1] - 128)) = 1 + Len(size)
      BY <1>1, <2>1, <3>1
    <3> QED BY ONLY <3>2, size \in Seq(Byte)
  <2>2. CASE n >= 128
    <3>1. PICK count \in Nat : /\ LengthBytes(n) \in Seq(Byte) /\ Len(LengthBytes(n)) = 1 + count
                              /\ LengthBytes(n)[1] = 128 + count
      BY <2>2, LongLength
    <3>2. PICK size \in Seq(Byte) : size = LengthBytes(n) /\ Len(size) = 1 + count /\ size[1] = 128 + count
      BY <3>1
    <3>3. (IF size[1] < 128 THEN 2 ELSE 2 + (size[1] - 128)) = 1 + Len(size)
      BY <3>2
    <3> QED BY <3>2, <3>3
  <2> QED BY <1>1, <2>1, <2>2
<1>3. PICK set \in Seq(Byte) : /\ set = Tlv(tag, content) /\ set[2] = size[1]
                              /\ SubSeq(set, 2 + Len(size), Len(set)) = content
  <2>1. Tlv(tag, content) = <<tag>> \o size \o content
    BY <1>1, <1>2 DEF Tlv
  <2>2. /\ <<tag>> \o size \o content \in Seq(Byte) /\ (<<tag>> \o size \o content)[2] = size[1]
        /\ SubSeq(<<tag>> \o size \o content, 2 + Len(size), Len(<<tag>> \o size \o content)) = content
    BY <1>2, ThreePieces
  <2> QED BY <2>1, <2>2
<1>4. (1 + Len(size)) + 1 = 2 + Len(size)
  BY <1>2
<1>5. WithoutHeader(set) = SubSeq(set, (1 + Len(size)) + 1, Len(set))
  BY ONLY <1>2, <1>3 DEF WithoutHeader
<1> QED BY <1>3, <1>4, <1>5

LEMMA SetIs ==
  ASSUME NEW a, NEW t \in Byte, NEW n \in Sizes, IsTlv(a, t, n)
  PROVE  DerSet(<<a>>) = Tlv(49, a) /\ IsTlv(DerSet(<<a>>), 49, n + 4)
<1>1. a \in Seq(Byte) /\ a \in AtMost(n + 4)
  BY TlvFits
<1>2. FlattenSeq(<<a>>) = a
  BY <1>1, OneItem
<1>3. DerSet(<<a>>) = Tlv(49, a)
  BY <1>2, OneSorted DEF DerSet
<1> QED BY <1>1, <1>3 DEF IsTlv

LEMMA SetPairIs ==
  ASSUME NEW a, NEW t1 \in Byte, NEW n1 \in Sizes, IsTlv(a, t1, n1),
         NEW b, NEW t2 \in Byte, NEW n2 \in Sizes, IsTlv(b, t2, n2)
  PROVE  IsTlv(DerSet(<<a, b>>), 49, n1 + n2 + 8)
<1>1. a \in Seq(Byte) /\ b \in Seq(Byte)
  BY TlvFits
<1>2. FlattenSeq(<<a, b>>) \in AtMost(n1 + n2 + 8) /\ FlattenSeq(<<b, a>>) \in AtMost(n1 + n2 + 8)
  BY PairIs
<1>3. Sorted(<<a, b>>) = <<a, b>> \/ Sorted(<<a, b>>) = <<b, a>>
  BY <1>1, TwoSorted
<1>4. FlattenSeq(Sorted(<<a, b>>)) \in AtMost(n1 + n2 + 8)
  BY ONLY <1>2, <1>3
<1>5. PICK content \in AtMost(n1 + n2 + 8) : content = FlattenSeq(Sorted(<<a, b>>))
  BY <1>4
<1>6. DerSet(<<a, b>>) = Tlv(49, content)
  BY ONLY <1>5 DEF DerSet
<1> QED BY ONLY <1>6, content \in AtMost(n1 + n2 + 8) DEF IsTlv

LEMMA Nested ==
  ASSUME NEW raw, NEW t \in Byte, NEW n \in Sizes, IsTlv(raw, t, n), NEW tag \in Byte
  PROVE  IsTlv(Tlv(tag, raw), tag, n + 4)
<1>1. raw \in AtMost(n + 4)
  BY TlvFits
<1> QED BY <1>1 DEF IsTlv

\* The attributes that are signed.
LEMMA AttributesAre ==
  IsTlv(SignedAttributes(Digest), 49, 91)
<1>1. IsTlv(DerOid(3), 6, 9) /\ IsTlv(DerOid(4), 6, 9) /\ IsTlv(DerOid(2), 6, 9)
  BY OidIs, Bytes
<1>2. 6 \in Byte /\ 49 \in Byte /\ 48 \in Byte /\ 4 \in Byte /\ 9 \in Byte
      /\ \A n \in 0..200 : n \in Sizes
  BY Bytes DEF Sizes, MaxContent
<1>3. IsTlv(DerSet(<<DerOid(4)>>), 49, 13)
  <2>1. IsTlv(DerSet(<<DerOid(4)>>), 49, 9 + 4)
    BY <1>1, <1>2, SetIs
  <2> QED BY <2>1
<1>4. IsTlv(DerSeq(<<DerOid(3), DerSet(<<DerOid(4)>>)>>), 48, 30)
  <2> DEFINE a == DerOid(3)
             b == DerSet(<<DerOid(4)>>)
  <2>1. IsTlv(a, 6, 9) /\ IsTlv(b, 49, 13)
    BY <1>1, <1>3
  <2>0. 9 \in Sizes /\ 13 \in Sizes /\ 36 \in Sizes
    BY <1>2
  <2> HIDE DEF a, b
  <2>2. IsTlv(DerSeq(<<a, b>>), 48, 9 + 13 + 8)
    BY ONLY <1>2, <2>0, <2>1, PairIs
  <2>3. 9 + 13 + 8 = 30
    OBVIOUS
  <2> QED BY <2>2, <2>3 DEF a, b
<1>5. IsTlv(Tlv(4, Digest), 4, 32)
  <2>1. Digest \in AtMost(32)
    BY <1>2, FillerIs DEF Digest
  <2> QED BY <2>1 DEF IsTlv
<1>6. IsTlv(DerSet(<<Tlv(4, Digest)>>), 49, 36)
  <2>1. IsTlv(DerSet(<<Tlv(4, Digest)>>), 49, 32 + 4)
    BY <1>2, <1>5, SetIs
  <2> QED BY <2>1
<1>7. IsTlv(DerSeq(<<DerOid(2), DerSet(<<Tlv(4, Digest)>>)>>), 48, 53)
  <2> DEFINE a == DerOid(2)
             b == DerSet(<<Tlv(4, Digest)>>)
  <2>1. IsTlv(a, 6, 9) /\ IsTlv(b, 49, 36)
    BY <1>1, <1>6
  <2>0. 9 \in Sizes /\ 13 \in Sizes /\ 36 \in Sizes
    BY <1>2
  <2> HIDE DEF a, b
  <2>2. IsTlv(DerSeq(<<a, b>>), 48, 9 + 36 + 8)
    BY ONLY <1>2, <2>0, <2>1, PairIs
  <2>3. 9 + 36 + 8 = 53
    OBVIOUS
  <2> QED BY <2>2, <2>3 DEF a, b
<1>8. IsTlv(DerSet(<<DerSeq(<<DerOid(3), DerSet(<<DerOid(4)>>)>>),
                     DerSeq(<<DerOid(2), DerSet(<<Tlv(4, Digest)>>)>>)>>), 49, 30 + 53 + 8)
  BY <1>2, <1>4, <1>7, SetPairIs
<1>9. 30 + 53 + 8 = 91
  OBVIOUS
<1> QED BY <1>8, <1>9 DEF SignedAttributes

\* What is needed of one value.
LEMMA ValueIs ==
  ASSUME NEW tag \in Byte, NEW n \in Sizes, NEW content \in AtMost(n)
  PROVE  content \in Seq(Byte) /\ Len(content) \in Sizes /\ Tlv(tag, content) \in Seq(Byte)
<1>1. n \in Nat /\ n <= MaxContent
  BY SizesAre
<1>2. content \in Seq(Byte) /\ Len(content) \in Sizes
  BY <1>1, AtMostIs
<1> QED BY <1>2, TlvSize

\* Five and six values one behind the other.
LEMMA FitsFive ==
  ASSUME NEW t1 \in Byte, NEW n1 \in Sizes, NEW c1 \in AtMost(n1),
         NEW t2 \in Byte, NEW n2 \in Sizes, NEW c2 \in AtMost(n2),
         NEW t3 \in Byte, NEW n3 \in Sizes, NEW c3 \in AtMost(n3),
         NEW t4 \in Byte, NEW n4 \in Sizes, NEW c4 \in AtMost(n4),
         NEW t5 \in Byte, NEW n5 \in Sizes, NEW c5 \in AtMost(n5)
  PROVE  Fits(<<Tlv(t1, c1), Tlv(t2, c2), Tlv(t3, c3), Tlv(t4, c4), Tlv(t5, c5)>>,
              <<t1, t2, t3, t4, t5>>, <<c1, c2, c3, c4, c5>>, n1 + n2 + n3 + n4 + n5 + 20)
<1> DEFINE i1 == Tlv(t1, c1)
           i2 == Tlv(t2, c2)
           i3 == Tlv(t3, c3)
           i4 == Tlv(t4, c4)
           i5 == Tlv(t5, c5)
<1>0. n1 \in Nat /\ n2 \in Nat /\ n3 \in Nat /\ n4 \in Nat /\ n5 \in Nat
  BY SizesAre
<1>1. /\ c1 \in Seq(Byte) /\ c2 \in Seq(Byte) /\ c3 \in Seq(Byte) /\ c4 \in Seq(Byte) /\ c5 \in Seq(Byte)
      /\ i1 \in Seq(Byte) /\ i2 \in Seq(Byte) /\ i3 \in Seq(Byte) /\ i4 \in Seq(Byte) /\ i5 \in Seq(Byte)
  BY ValueIs
<1>2. Fits(<<i1, i2>>, <<t1, t2>>, <<c1, c2>>, n1 + n2 + 8)
  BY FitsTwo
<1> HIDE DEF i1, i2, i3, i4, i5
<1>3. Fits(<<i1, i2, i3>>, <<t1, t2, t3>>, <<c1, c2, c3>>, n1 + n2 + n3 + 12)
  <2>1. n1 + n2 + 8 \in Nat
    BY <1>0
  <2>2. Fits(Append(<<i1, i2>>, i3), Append(<<t1, t2>>, t3), Append(<<c1, c2>>, c3), (n1 + n2 + 8) + n3 + 4)
    BY ONLY <1>2, <2>1, t3 \in Byte, n3 \in Sizes, c3 \in AtMost(n3), FitsMore DEF i3
  <2>3. /\ Append(<<i1, i2>>, i3) = <<i1, i2, i3>>
        /\ Append(<<t1, t2>>, t3) = <<t1, t2, t3>>
        /\ Append(<<c1, c2>>, c3) = <<c1, c2, c3>>
    <3> DEFINE S == Seq(Byte)
    <3>0. i1 \in S /\ i2 \in S /\ i3 \in S /\ c1 \in S /\ c2 \in S /\ c3 \in S
      BY <1>1
    <3> HIDE DEF S
    <3>1. Append(<<i1, i2>>, i3) = <<i1, i2, i3>>
      BY ONLY <3>0, ThirdAppended
    <3>2. Append(<<t1, t2>>, t3) = <<t1, t2, t3>>
      BY ThirdAppended
    <3>3. Append(<<c1, c2>>, c3) = <<c1, c2, c3>>
      BY ONLY <3>0, ThirdAppended
    <3> QED BY ONLY <3>1, <3>2, <3>3
  <2>4. (n1 + n2 + 8) + n3 + 4 = n1 + n2 + n3 + 12
    BY <1>0
  <2> QED BY ONLY <2>2, <2>3, <2>4
<1>4. Fits(<<i1, i2, i3, i4>>, <<t1, t2, t3, t4>>, <<c1, c2, c3, c4>>, n1 + n2 + n3 + n4 + 16)
  <2>1. n1 + n2 + n3 + 12 \in Nat
    BY <1>0
  <2>2. Fits(Append(<<i1, i2, i3>>, i4), Append(<<t1, t2, t3>>, t4), Append(<<c1, c2, c3>>, c4), (n1 + n2 + n3 + 12) + n4 + 4)
    BY ONLY <1>3, <2>1, t4 \in Byte, n4 \in Sizes, c4 \in AtMost(n4), FitsMore DEF i4
  <2>3. /\ Append(<<i1, i2, i3>>, i4) = <<i1, i2, i3, i4>>
        /\ Append(<<t1, t2, t3>>, t4) = <<t1, t2, t3, t4>>
        /\ Append(<<c1, c2, c3>>, c4) = <<c1, c2, c3, c4>>
    <3> DEFINE S == Seq(Byte)
    <3>0. i1 \in S /\ i2 \in S /\ i3 \in S /\ i4 \in S /\ c1 \in S /\ c2 \in S /\ c3 \in S /\ c4 \in S
      BY <1>1
    <3> HIDE DEF S
    <3>1. Append(<<i1, i2, i3>>, i4) = <<i1, i2, i3, i4>>
      BY ONLY <3>0, FourthAppended
    <3>2. Append(<<t1, t2, t3>>, t4) = <<t1, t2, t3, t4>>
      BY FourthAppended
    <3>3. Append(<<c1, c2, c3>>, c4) = <<c1, c2, c3, c4>>
      BY ONLY <3>0, FourthAppended
    <3> QED BY ONLY <3>1, <3>2, <3>3
  <2>4. (n1 + n2 + n3 + 12) + n4 + 4 = n1 + n2 + n3 + n4 + 16
    BY <1>0
  <2> QED BY ONLY <2>2, <2>3, <2>4
<1>5. Fits(<<i1, i2, i3, i4, i5>>, <<t1, t2, t3, t4, t5>>, <<c1, c2, c3, c4, c5>>, n1 + n2 + n3 + n4 + n5 + 20)
  <2>1. n1 + n2 + n3 + n4 + 16 \in Nat
    BY <1>0
  <2>2. Fits(Append(<<i1, i2, i3, i4>>, i5), Append(<<t1, t2, t3, t4>>, t5), Append(<<c1, c2, c3, c4>>, c5), (n1 + n2 + n3 + n4 + 16) + n5 + 4)
    BY ONLY <1>4, <2>1, t5 \in Byte, n5 \in Sizes, c5 \in AtMost(n5), FitsMore DEF i5
  <2>3. /\ Append(<<i1, i2, i3, i4>>, i5) = <<i1, i2, i3, i4, i5>>
        /\ Append(<<t1, t2, t3, t4>>, t5) = <<t1, t2, t3, t4, t5>>
        /\ Append(<<c1, c2, c3, c4>>, c5) = <<c1, c2, c3, c4, c5>>
    <3> DEFINE S == Seq(Byte)
    <3>0. i1 \in S /\ i2 \in S /\ i3 \in S /\ i4 \in S /\ i5 \in S /\ c1 \in S /\ c2 \in S /\ c3 \in S /\ c4 \in S /\ c5 \in S
      BY <1>1
    <3> HIDE DEF S
    <3>1. Append(<<i1, i2, i3, i4>>, i5) = <<i1, i2, i3, i4, i5>>
      BY ONLY <3>0, FifthAppended
    <3>2. Append(<<t1, t2, t3, t4>>, t5) = <<t1, t2, t3, t4, t5>>
      BY FifthAppended
    <3>3. Append(<<c1, c2, c3, c4>>, c5) = <<c1, c2, c3, c4, c5>>
      BY ONLY <3>0, FifthAppended
    <3> QED BY ONLY <3>1, <3>2, <3>3
  <2>4. (n1 + n2 + n3 + n4 + 16) + n5 + 4 = n1 + n2 + n3 + n4 + n5 + 20
    BY <1>0
  <2> QED BY ONLY <2>2, <2>3, <2>4
<1> QED BY <1>5 DEF i1, i2, i3, i4, i5

Six(a, b, c, d, e, f) == <<a, b, c, d, e, f>>
RoomForSix(a, b, c, d, e, f) == a + b + c + d + e + f + 24
LEMMA FitsSix ==
  ASSUME NEW t1 \in Byte, NEW n1 \in Sizes, NEW c1 \in AtMost(n1),
         NEW t2 \in Byte, NEW n2 \in Sizes, NEW c2 \in AtMost(n2),
         NEW t3 \in Byte, NEW n3 \in Sizes, NEW c3 \in AtMost(n3),
         NEW t4 \in Byte, NEW n4 \in Sizes, NEW c4 \in AtMost(n4),
         NEW t5 \in Byte, NEW n5 \in Sizes, NEW c5 \in AtMost(n5),
         NEW t6 \in Byte, NEW n6 \in Sizes, NEW c6 \in AtMost(n6)
  PROVE  Fits(Six(Tlv(t1, c1), Tlv(t2, c2), Tlv(t3, c3), Tlv(t4, c4), Tlv(t5, c5), Tlv(t6, c6)),
              Six(t1, t2, t3, t4, t5, t6), Six(c1, c2, c3, c4, c5, c6), RoomForSix(n1, n2, n3, n4, n5, n6))
<1> DEFINE i1 == Tlv(t1, c1)
           i2 == Tlv(t2, c2)
           i3 == Tlv(t3, c3)
           i4 == Tlv(t4, c4)
           i5 == Tlv(t5, c5)
           i6 == Tlv(t6, c6)
<1>0. n1 \in Nat /\ n2 \in Nat /\ n3 \in Nat /\ n4 \in Nat /\ n5 \in Nat /\ n6 \in Nat
  BY SizesAre
<1>1. /\ c1 \in Seq(Byte) /\ c2 \in Seq(Byte) /\ c3 \in Seq(Byte) /\ c4 \in Seq(Byte) /\ c5 \in Seq(Byte) /\ c6 \in Seq(Byte)
      /\ i1 \in Seq(Byte) /\ i2 \in Seq(Byte) /\ i3 \in Seq(Byte) /\ i4 \in Seq(Byte) /\ i5 \in Seq(Byte) /\ i6 \in Seq(Byte)
  BY ValueIs
<1>2. Fits(<<i1, i2, i3, i4, i5>>, <<t1, t2, t3, t4, t5>>, <<c1, c2, c3, c4, c5>>, n1 + n2 + n3 + n4 + n5 + 20)
  BY FitsFive
<1> HIDE DEF i1, i2, i3, i4, i5, i6
<1>3. Fits(<<i1, i2, i3, i4, i5, i6>>, <<t1, t2, t3, t4, t5, t6>>, <<c1, c2, c3, c4, c5, c6>>, n1 + n2 + n3 + n4 + n5 + n6 + 24)
  <2>1. n1 + n2 + n3 + n4 + n5 + 20 \in Nat
    BY <1>0
  <2>2. Fits(Append(<<i1, i2, i3, i4, i5>>, i6), Append(<<t1, t2, t3, t4, t5>>, t6), Append(<<c1, c2, c3, c4, c5>>, c6), (n1 + n2 + n3 + n4 + n5 + 20) + n6 + 4)
    BY ONLY <1>2, <2>1, t6 \in Byte, n6 \in Sizes, c6 \in AtMost(n6), FitsMore DEF i6
  <2>3. /\ Append(<<i1, i2, i3, i4, i5>>, i6) = <<i1, i2, i3, i4, i5, i6>>
        /\ Append(<<t1, t2, t3, t4, t5>>, t6) = <<t1, t2, t3, t4, t5, t6>>
        /\ Append(<<c1, c2, c3, c4, c5>>, c6) = <<c1, c2, c3, c4, c5, c6>>
    <3> DEFINE S == Seq(Byte)
    <3>0. i1 \in S /\ i2 \in S /\ i3 \in S /\ i4 \in S /\ i5 \in S /\ i6 \in S
      BY <1>1
    <3>4. c1 \in S /\ c2 \in S /\ c3 \in S /\ c4 \in S /\ c5 \in S /\ c6 \in S
      BY <1>1
    <3> HIDE DEF S
    <3>1. Append(<<i1, i2, i3, i4, i5>>, i6) = <<i1, i2, i3, i4, i5, i6>>
      BY ONLY <3>0, SixthAppended
    <3>2. Append(<<t1, t2, t3, t4, t5>>, t6) = <<t1, t2, t3, t4, t5, t6>>
      BY SixthAppended
    <3>3. Append(<<c1, c2, c3, c4, c5>>, c6) = <<c1, c2, c3, c4, c5, c6>>
      BY ONLY <3>4, SixthAppended
    <3> QED BY ONLY <3>1, <3>2, <3>3
  <2>4. (n1 + n2 + n3 + n4 + n5 + 20) + n6 + 4 = n1 + n2 + n3 + n4 + n5 + n6 + 24
    BY <1>0
  <2> QED BY ONLY <2>2, <2>3, <2>4
<1> QED BY ONLY <1>3 DEF i1, i2, i3, i4, i5, i6, Six, RoomForSix

LEMMA Numbers == \A n \in 0..255 : n \in Byte /\ n \in Sizes /\ n \in Nat
BY DEF Byte, Sizes, MaxContent

LEMMA IsTlvOf ==
  ASSUME NEW tag, NEW n, NEW content \in AtMost(n)
  PROVE  IsTlv(Tlv(tag, content), tag, n)
BY DEF IsTlv

\* A sequence of two values.
LEMMA SeqPair ==
  ASSUME NEW a, NEW t1 \in Byte, NEW n1 \in Sizes, IsTlv(a, t1, n1),
         NEW b, NEW t2 \in Byte, NEW n2 \in Sizes, IsTlv(b, t2, n2),
         NEW m, m = n1 + n2 + 8
  PROVE  IsTlv(DerSeq(<<a, b>>), 48, m) /\ FlattenSeq(<<a, b>>) \in AtMost(m)
BY PairIs

LEMMA NestedIn ==
  ASSUME NEW raw, NEW t \in Byte, NEW n \in Sizes, IsTlv(raw, t, n), NEW tag \in Byte, NEW m, m = n + 4
  PROVE  IsTlv(Tlv(tag, raw), tag, m)
BY Nested

\* What is signed of the image.
LEMMA IndirectIs ==
  IsTlv(DerSeq(Indirect(Digest)), 48, 127)
<1>1. /\ 3 \in Byte /\ 4 \in Byte /\ 5 \in Byte /\ 6 \in Byte /\ 48 \in Byte /\ 128 \in Byte /\ 160 \in Byte
      /\ 162 \in Byte /\ 0 \in Byte /\ 60 \in Byte
  BY Numbers
<1>2. /\ 1 \in Sizes /\ 9 \in Sizes /\ 17 \in Sizes /\ 28 \in Sizes /\ 32 \in Sizes /\ 36 \in Sizes
      /\ 45 \in Sizes /\ 57 \in Sizes /\ 62 \in Sizes
  BY Numbers
<1> DEFINE oid == DerOid(5)
           flags == Tlv(3, <<0>>)
           file == Tlv(128, Filler(28, 60))
           algorithm == AlgorithmIdentifier(6)
           digest == Tlv(4, Digest)
<1>3. IsTlv(oid, 6, 9)
  BY <1>1, OidIs
<1>4. IsTlv(flags, 3, 1)
  <2>1. << 0 >> \in Seq(Byte) /\ Len(<< 0 >>) = 1
    BY <1>1
  <2>2. << 0 >> \in AtMost(1)
    BY <2>1 DEF AtMost
  <2> QED BY <2>2, IsTlvOf
<1>5. IsTlv(file, 128, 28)
  BY <1>1, FillerIs, IsTlvOf
<1>6. IsTlv(algorithm, 48, 17)
  BY <1>1, AlgorithmIs
<1>7. IsTlv(digest, 4, 32)
  <2>1. 9 \in Byte /\ 32 \in Nat
    BY Numbers
  <2>2. Digest \in AtMost(32)
    BY <2>1, FillerIs DEF Digest
  <2> QED BY <2>2, IsTlvOf
<1> HIDE DEF oid, flags, file, algorithm, digest
<1>8. IsTlv(Tlv(162, file), 162, 32)
  <2>1. 32 = 28 + 4
    OBVIOUS
  <2> QED BY ONLY <1>1, <1>2, <1>5, <2>1, NestedIn
<1>9. IsTlv(Tlv(160, Tlv(162, file)), 160, 36)
  <2>1. 36 = 32 + 4
    OBVIOUS
  <2> QED BY ONLY <1>1, <1>2, <1>8, <2>1, NestedIn
<1>10. IsTlv(DerSeq(<<flags, Tlv(160, Tlv(162, file))>>), 48, 45)
  <2>1. 45 = 1 + 36 + 8
    OBVIOUS
  <2> QED BY ONLY <1>1, <1>2, <1>4, <1>9, <2>1, SeqPair
<1>11. IsTlv(DerSeq(<<oid, DerSeq(<<flags, Tlv(160, Tlv(162, file))>>)>>), 48, 62)
  <2>1. 62 = 9 + 45 + 8
    OBVIOUS
  <2> QED BY ONLY <1>1, <1>2, <1>3, <1>10, <2>1, SeqPair
<1>12. IsTlv(DerSeq(<<algorithm, digest>>), 48, 57)
  <2>1. 57 = 17 + 32 + 8
    OBVIOUS
  <2> QED BY ONLY <1>1, <1>2, <1>6, <1>7, <2>1, SeqPair
<1>13. IsTlv(DerSeq(<<DerSeq(<<oid, DerSeq(<<flags, Tlv(160, Tlv(162, file))>>)>>),
                     DerSeq(<<algorithm, digest>>)>>), 48, 127)
  <2>1. 127 = 62 + 57 + 8
    OBVIOUS
  <2> QED BY ONLY <1>1, <1>2, <1>11, <1>12, <2>1, SeqPair
<1> QED BY <1>13 DEF Indirect, oid, flags, file, algorithm, digest

\* What goes into the signature before the certificate.
LEMMA ContentIs ==
  IsTlv(DerSeq(<<DerOid(4), Tlv(160, DerSeq(Indirect(Digest)))>>), 48, 148)
<1>1. 4 \in Byte /\ 6 \in Byte /\ 48 \in Byte /\ 160 \in Byte /\ 9 \in Sizes /\ 127 \in Sizes /\ 131 \in Sizes
  BY Numbers
<1> DEFINE oid == DerOid(4)
           data == DerSeq(Indirect(Digest))
<1>2. IsTlv(oid, 6, 9) /\ IsTlv(data, 48, 127)
  BY <1>1, OidIs, IndirectIs
<1> HIDE DEF oid, data
<1>3. IsTlv(Tlv(160, data), 160, 131)
  <2>1. 131 = 127 + 4
    OBVIOUS
  <2> QED BY ONLY <1>1, <1>2, <2>1, NestedIn
<1>4. IsTlv(DerSeq(<<oid, Tlv(160, data)>>), 48, 148)
  <2>1. 148 = 9 + 131 + 8
    OBVIOUS
  <2> QED BY ONLY <1>1, <1>2, <1>3, <2>1, SeqPair
<1> QED BY <1>4 DEF oid, data

\* Values written one behind the other are a content that reads as theirs.
LEMMA FitsRead ==
  ASSUME NEW items, NEW tags, NEW contents, NEW n, Fits(items, tags, contents, n), Len(items) # 0
  PROVE  FlattenSeq(items) \in AtMost(n) /\ ReadAs(FlattenSeq(items), contents)
BY FieldsFound DEF Fits

IssuerSize == 16413
SignerSize == 16820

LEMMA IssuerIs ==
  ASSUME NEW shape \in Shapes
  PROVE  /\ FlattenSeq(<<NameDer(shape), DerInteger(shape.serial)>>) \in AtMost(IssuerSize)
         /\ FlattenSeq(<<NameDer(shape), DerInteger(shape.serial)>>)
              = NameDer(shape) \o DerInteger(shape.serial)
<1> DEFINE name == NameDer(shape)
           serial == DerInteger(shape.serial)
           size == 16384
<1>1. 48 \in Byte /\ 2 \in Byte /\ 21 \in Sizes /\ size \in Sizes /\ IssuerSize = size + 21 + 8
  BY Numbers DEF Sizes, MaxContent, IssuerSize
<1>2. IsTlv(name, 48, size) /\ IsTlv(serial, 2, 21)
  BY NameIs, SerialIs
<1> HIDE DEF name, serial, size
<1>3. FlattenSeq(<<name, serial>>) \in AtMost(size + 21 + 8) /\ FlattenSeq(<<name, serial>>) = name \o serial
  BY ONLY <1>1, <1>2, PairIs
<1>4. FlattenSeq(<<name, serial>>) \in AtMost(IssuerSize) /\ FlattenSeq(<<name, serial>>) = name \o serial
  BY ONLY <1>1, <1>3
<1> QED BY <1>4 DEF name, serial

LEMMA TlvIs ==
  ASSUME NEW a, NEW tag, NEW n, IsTlv(a, tag, n)
  PROVE  \E c \in AtMost(n) : a = Tlv(tag, c)
BY DEF IsTlv

SignerItems(shape, signature) ==
    <<DerInteger(<<1>>), DerSeq(<<NameDer(shape), DerInteger(shape.serial)>>), AlgorithmIdentifier(6),
      Tlv(160, WithoutHeader(SignedAttributes(Digest))), AlgorithmIdentifier(7), Tlv(4, signature)>>

LEMMA SignerIs ==
  ASSUME NEW shape \in Shapes, NEW signature \in AtMost(256)
  PROVE  /\ FlattenSeq(SignerItems(shape, signature)) \in AtMost(SignerSize)
         /\ \E contents : /\ ReadAs(FlattenSeq(SignerItems(shape, signature)), contents) /\ Len(contents) = 6
                          /\ contents[2] = NameDer(shape) \o DerInteger(shape.serial)
                          /\ contents[4] = ReadTlv(SignedAttributes(Digest), 0).value
                          /\ contents[6] = signature
<1>1. /\ 1 \in Byte /\ 2 \in Byte /\ 4 \in Byte /\ 6 \in Byte /\ 7 \in Byte /\ 48 \in Byte /\ 160 \in Byte
      /\ 2 \in Sizes /\ 17 \in Sizes /\ 91 \in Sizes /\ 256 \in Sizes /\ IssuerSize \in Sizes
  BY Numbers DEF Sizes, MaxContent, IssuerSize
<1>2. PICK c1 \in AtMost(2) : DerInteger(<<1>>) = Tlv(2, c1)
  <2>1. << 1 >> \in Seq(Byte) /\ Len(<< 1 >>) = 1
    BY <1>1
  <2>2. << 1 >> \in AtMost(1)
    BY <2>1 DEF AtMost
  <2>3. IsTlv(DerInteger(<< 1 >>), 2, 1 + 1)
    BY <2>2, IntegerIs
  <2>4. 1 + 1 = 2
    OBVIOUS
  <2> QED BY ONLY <2>3, <2>4, TlvIs
<1>3. PICK c2 \in AtMost(IssuerSize) :
        /\ c2 = NameDer(shape) \o DerInteger(shape.serial)
        /\ DerSeq(<<NameDer(shape), DerInteger(shape.serial)>>) = Tlv(48, c2)
  <2>1. PICK c2 \in AtMost(IssuerSize) :
          /\ c2 = NameDer(shape) \o DerInteger(shape.serial)
          /\ c2 = FlattenSeq(<<NameDer(shape), DerInteger(shape.serial)>>)
    BY IssuerIs
  <2>2. DerSeq(<<NameDer(shape), DerInteger(shape.serial)>>) = Tlv(48, c2)
    BY ONLY <2>1 DEF DerSeq
  <2> QED BY ONLY <2>1, <2>2, c2 \in AtMost(IssuerSize)
<1>4. PICK c3 \in AtMost(17) : AlgorithmIdentifier(6) = Tlv(48, c3)
  BY <1>1, AlgorithmIs DEF IsTlv
<1>5. PICK c4 \in AtMost(91) : /\ c4 = WithoutHeader(SignedAttributes(Digest))
                               /\ c4 = ReadTlv(SignedAttributes(Digest), 0).value
  <2>1. PICK c4 \in AtMost(91) : SignedAttributes(Digest) = Tlv(49, c4)
    BY AttributesAre DEF IsTlv
  <2>2. 49 \in Byte
    BY Numbers
  <2>3. c4 \in Seq(Byte) /\ Len(c4) \in Sizes
    BY <1>1, <2>2, ValueIs
  <2>4. WithoutHeader(Tlv(49, c4)) = c4 /\ ReadTlv(Tlv(49, c4), 0).value = c4
    BY <2>2, <2>3, WithoutHeaderIs, TlvRead
  <2> QED BY ONLY <2>1, <2>4, c4 \in AtMost(91)
<1>6. PICK c5 \in AtMost(17) : AlgorithmIdentifier(7) = Tlv(48, c5)
  BY <1>1, AlgorithmIs DEF IsTlv
<1> DEFINE items == <<Tlv(2, c1), Tlv(48, c2), Tlv(48, c3), Tlv(160, c4), Tlv(48, c5), Tlv(4, signature)>>
           contents == <<c1, c2, c3, c4, c5, signature>>
<1>7. SignerItems(shape, signature) = items
  BY <1>2, <1>3, <1>4, <1>5, <1>6 DEF SignerItems
<1> DEFINE n1 == 2
           n3 == 17
           n4 == 91
           n6 == 256
           t1 == 2
           t2 == 48
           t4 == 160
           t6 == 4
<1>8. Fits(<<Tlv(t1, c1), Tlv(t2, c2), Tlv(t2, c3), Tlv(t4, c4), Tlv(t2, c5), Tlv(t6, signature)>>,
           <<t1, t2, t2, t4, t2, t6>>, contents, SignerSize)
  <2>1. RoomForSix(n1, IssuerSize, n3, n4, n3, n6) = SignerSize
    BY DEF IssuerSize, SignerSize, RoomForSix
  <2>2. /\ c1 \in AtMost(n1) /\ c2 \in AtMost(IssuerSize) /\ c3 \in AtMost(n3) /\ c4 \in AtMost(n4)
        /\ c5 \in AtMost(n3) /\ signature \in AtMost(n6)
    OBVIOUS
  <2>3. /\ t1 \in Byte /\ t2 \in Byte /\ t4 \in Byte /\ t6 \in Byte
        /\ n1 \in Sizes /\ IssuerSize \in Sizes /\ n3 \in Sizes /\ n4 \in Sizes /\ n6 \in Sizes
    BY ONLY <1>1
  <2> HIDE DEF n1, n3, n4, n6, t1, t2, t4, t6
  <2>4. Fits(Six(Tlv(t1, c1), Tlv(t2, c2), Tlv(t2, c3), Tlv(t4, c4), Tlv(t2, c5), Tlv(t6, signature)),
             Six(t1, t2, t2, t4, t2, t6), Six(c1, c2, c3, c4, c5, signature),
             RoomForSix(n1, IssuerSize, n3, n4, n3, n6))
    BY ONLY <2>2, <2>3, FitsSix
  <2> QED BY ONLY <2>1, <2>4 DEF Six
<1>10. /\ Len(items) # 0 /\ Len(contents) = 6
       /\ contents[2] = c2 /\ contents[4] = c4 /\ contents[6] = signature
  OBVIOUS
<1> HIDE DEF items, contents
<1>11. Fits(items, <<2, 48, 48, 160, 48, 4>>, contents, SignerSize)
  BY ONLY <1>8 DEF items
<1>12. FlattenSeq(items) \in AtMost(SignerSize) /\ ReadAs(FlattenSeq(items), contents)
  BY ONLY <1>10, <1>11, FitsRead
<1>13. /\ FlattenSeq(SignerItems(shape, signature)) \in AtMost(SignerSize)
       /\ ReadAs(FlattenSeq(SignerItems(shape, signature)), contents) /\ Len(contents) = 6
       /\ contents[2] = NameDer(shape) \o DerInteger(shape.serial)
       /\ contents[4] = ReadTlv(SignedAttributes(Digest), 0).value
       /\ contents[6] = signature
  BY ONLY <1>3, <1>5, <1>7, <1>10, <1>12
<1> QED BY ONLY <1>13

\* The only field of a value is the value.
LEMMA OnlyField ==
  ASSUME NEW tag \in Byte, NEW n \in Sizes, NEW content \in AtMost(n)
  PROVE  Fields(Tlv(tag, content), 0)[1].value = content
<1>1. Fits(<<Tlv(tag, content)>>, <<tag>>, <<content>>, n + 4)
  BY FitsOne
<1>2. Tlv(tag, content) \in Seq(Byte)
  BY ValueIs
<1> DEFINE raw == Tlv(tag, content)
           items == <<raw>>
           contents == <<content>>
<1>3. Len(items) # 0 /\ Len(contents) = 1 /\ contents[1] = content /\ 1 \in 1..1
  OBVIOUS
<1>4. FlattenSeq(items) = raw
  BY <1>2, OneItem
<1>5. Fits(items, <<tag>>, contents, n + 4)
  BY ONLY <1>1
<1> HIDE DEF raw, items, contents
<1>6. ReadAs(FlattenSeq(items), contents)
  BY ONLY <1>3, <1>5, FitsRead
<1>7. Fields(raw, 0)[1].value = content
  BY ONLY <1>3, <1>4, <1>6 DEF ReadAs
<1> QED BY ONLY <1>7 DEF raw

CertSize == 33520
SignedSize == 16824
DataSize == 50535
AllSize == 50556

DataItems(k, shape, signature) ==
    <<DerInteger(<<1>>), DerSet(<<AlgorithmIdentifier(6)>>),
      DerSeq(<<DerOid(4), Tlv(160, DerSeq(Indirect(Digest)))>>),
      Tlv(160, CertDer[k][shape]), DerSet(<<DerSeq(SignerItems(shape, signature))>>)>>

LEMMA CertFits ==
  ASSUME NEW k \in Keys, NEW shape \in Shapes
  PROVE  CertDer[k][shape] \in AtMost(CertSize)
<1>1. CertDer[k][shape] = Tlv(48, FlattenSeq(CertItems(k, shape)))
  BY DEF CertDer, CertBytes, CertItems, DerSeq
<1>2. FlattenSeq(CertItems(k, shape)) \in AtMost(33516)
  BY CertWritten
<1>3. 33516 \in Nat /\ 33516 <= MaxContent /\ 33516 + 4 = CertSize /\ 48 \in Byte
  BY DEF MaxContent, CertSize, Byte
<1> DEFINE n == 33516
<1> HIDE DEF n
<1>4. Tlv(48, FlattenSeq(CertItems(k, shape))) \in AtMost(n + 4)
  <2>1. n \in Nat /\ n <= MaxContent /\ 48 \in Byte /\ FlattenSeq(CertItems(k, shape)) \in AtMost(n)
    BY ONLY <1>2, <1>3 DEF n
  <2> QED BY ONLY <2>1, TlvAtMost
<1>5. n + 4 = CertSize
  BY ONLY <1>3 DEF n
<1> QED BY ONLY <1>1, <1>4, <1>5

LEMMA SignerFits ==
  ASSUME NEW shape \in Shapes, NEW signature \in AtMost(256)
  PROVE  /\ DerSeq(SignerItems(shape, signature)) = Tlv(48, FlattenSeq(SignerItems(shape, signature)))
         /\ DerSeq(SignerItems(shape, signature)) \in AtMost(SignedSize)
         /\ DerSet(<<DerSeq(SignerItems(shape, signature))>>) = Tlv(49, DerSeq(SignerItems(shape, signature)))
<1> DEFINE raw == DerSeq(SignerItems(shape, signature))
           content == FlattenSeq(SignerItems(shape, signature))
<1>1. content \in AtMost(SignerSize) /\ raw = Tlv(48, content)
  BY SignerIs DEF DerSeq
<1>2. SignerSize \in Sizes /\ 48 \in Byte /\ SignerSize + 4 = SignedSize
  BY DEF Sizes, MaxContent, SignerSize, SignedSize, Byte
<1> HIDE DEF raw, content
<1>3. IsTlv(raw, 48, SignerSize)
  BY ONLY <1>1 DEF IsTlv
<1>4. raw \in AtMost(SignerSize + 4) /\ DerSet(<<raw>>) = Tlv(49, raw)
  BY ONLY <1>2, <1>3, TlvFits, SetIs
<1>5. raw = Tlv(48, content) /\ raw \in AtMost(SignedSize) /\ DerSet(<<raw>>) = Tlv(49, raw)
  BY ONLY <1>1, <1>2, <1>4
<1> QED BY ONLY <1>5 DEF raw, content

LEMMA DataIs ==
  ASSUME NEW k \in Keys, NEW shape \in Shapes, NEW signature \in AtMost(256)
  PROVE  /\ FlattenSeq(DataItems(k, shape, signature)) \in AtMost(DataSize)
         /\ \E contents : /\ ReadAs(FlattenSeq(DataItems(k, shape, signature)), contents) /\ Len(contents) = 5
                          /\ contents[4] = CertDer[k][shape]
                          /\ contents[5] = DerSeq(SignerItems(shape, signature))
<1>1. /\ 1 \in Byte /\ 2 \in Byte /\ 48 \in Byte /\ 49 \in Byte /\ 160 \in Byte /\ 6 \in Byte
      /\ 2 \in Sizes /\ 17 \in Sizes /\ 21 \in Sizes /\ 148 \in Sizes /\ CertSize \in Sizes /\ SignedSize \in Sizes
  BY Numbers DEF Sizes, MaxContent, CertSize, SignedSize
<1>2. PICK c1 \in AtMost(2) : DerInteger(<<1>>) = Tlv(2, c1)
  <2>1. << 1 >> \in Seq(Byte) /\ Len(<< 1 >>) = 1
    BY <1>1
  <2>2. << 1 >> \in AtMost(1)
    BY <2>1 DEF AtMost
  <2>3. IsTlv(DerInteger(<< 1 >>), 2, 1 + 1)
    BY <2>2, IntegerIs
  <2>4. 1 + 1 = 2
    OBVIOUS
  <2> QED BY ONLY <2>3, <2>4, TlvIs
<1>3. PICK c2 \in AtMost(21) : DerSet(<<AlgorithmIdentifier(6)>>) = Tlv(49, c2)
  <2>1. IsTlv(AlgorithmIdentifier(6), 48, 17)
    BY <1>1, AlgorithmIs
  <2>2. IsTlv(DerSet(<<AlgorithmIdentifier(6)>>), 49, 17 + 4)
    BY ONLY <1>1, <2>1, SetIs
  <2>3. 17 + 4 = 21
    OBVIOUS
  <2> QED BY ONLY <2>2, <2>3, TlvIs
<1>4. PICK c3 \in AtMost(148) : DerSeq(<<DerOid(4), Tlv(160, DerSeq(Indirect(Digest)))>>) = Tlv(48, c3)
  BY ONLY ContentIs, TlvIs
<1>5. PICK c4 \in AtMost(CertSize) : c4 = CertDer[k][shape]
  BY CertFits
<1>6. PICK c5 \in AtMost(SignedSize) :
        /\ c5 = DerSeq(SignerItems(shape, signature))
        /\ DerSet(<<DerSeq(SignerItems(shape, signature))>>) = Tlv(49, c5)
  BY SignerFits
<1> DEFINE items == <<Tlv(2, c1), Tlv(49, c2), Tlv(48, c3), Tlv(160, c4), Tlv(49, c5)>>
           contents == <<c1, c2, c3, c4, c5>>
<1>7. DataItems(k, shape, signature) = items
  BY <1>2, <1>3, <1>4, <1>5, <1>6 DEF DataItems
<1> DEFINE n1 == 2
           n2 == 21
           n3 == 148
           t1 == 2
           t2 == 49
           t3 == 48
           t4 == 160
<1>8. Fits(<<Tlv(t1, c1), Tlv(t2, c2), Tlv(t3, c3), Tlv(t4, c4), Tlv(t2, c5)>>,
           <<t1, t2, t3, t4, t2>>, contents, DataSize)
  <2>1. n1 + n2 + n3 + CertSize + SignedSize + 20 = DataSize
    BY DEF CertSize, SignedSize, DataSize
  <2>2. /\ c1 \in AtMost(n1) /\ c2 \in AtMost(n2) /\ c3 \in AtMost(n3) /\ c4 \in AtMost(CertSize)
        /\ c5 \in AtMost(SignedSize)
    OBVIOUS
  <2>3. /\ t1 \in Byte /\ t2 \in Byte /\ t3 \in Byte /\ t4 \in Byte
        /\ n1 \in Sizes /\ n2 \in Sizes /\ n3 \in Sizes /\ CertSize \in Sizes /\ SignedSize \in Sizes
    BY ONLY <1>1
  <2> HIDE DEF n1, n2, n3, t1, t2, t3, t4
  <2>4. Fits(<<Tlv(t1, c1), Tlv(t2, c2), Tlv(t3, c3), Tlv(t4, c4), Tlv(t2, c5)>>,
             <<t1, t2, t3, t4, t2>>, <<c1, c2, c3, c4, c5>>, n1 + n2 + n3 + CertSize + SignedSize + 20)
    BY ONLY <2>2, <2>3, FitsFive
  <2> QED BY ONLY <2>1, <2>4
<1>10. Len(items) # 0 /\ Len(contents) = 5 /\ contents[4] = c4 /\ contents[5] = c5
  OBVIOUS
<1> HIDE DEF items, contents
<1>11. Fits(items, <<2, 49, 48, 160, 49>>, contents, DataSize)
  BY ONLY <1>8 DEF items
<1>12. FlattenSeq(items) \in AtMost(DataSize) /\ ReadAs(FlattenSeq(items), contents)
  BY ONLY <1>10, <1>11, FitsRead
<1>13. /\ FlattenSeq(DataItems(k, shape, signature)) \in AtMost(DataSize)
       /\ ReadAs(FlattenSeq(DataItems(k, shape, signature)), contents) /\ Len(contents) = 5
       /\ contents[4] = CertDer[k][shape] /\ contents[5] = DerSeq(SignerItems(shape, signature))
  BY ONLY <1>5, <1>6, <1>7, <1>10, <1>12
<1> QED BY ONLY <1>13

\* The whole signature, and the data in it.
LEMMA AllIs ==
  ASSUME NEW data \in AtMost(DataSize + 4)
  PROVE  /\ DerSeq(<<DerOid(8), Tlv(160, data)>>) \in Seq(Byte)
         /\ Fields(ReadTlv(DerSeq(<<DerOid(8), Tlv(160, data)>>), 0).value, 0)[2].value = data
<1>1. 6 \in Byte /\ 8 \in Byte /\ 160 \in Byte /\ 48 \in Byte /\ 9 \in Sizes /\ DataSize + 4 \in Sizes /\ AllSize \in Sizes
  BY Numbers DEF Sizes, MaxContent, DataSize, AllSize
<1>2. PICK oid \in AtMost(9) : DerOid(8) = Tlv(6, oid)
  BY <1>1, OidIs, TlvIs
<1> DEFINE t1 == 6
           t2 == 160
           n1 == 9
           n2 == DataSize + 4
<1>3. t1 \in Byte /\ t2 \in Byte /\ n1 \in Sizes /\ n2 \in Sizes /\ oid \in AtMost(n1) /\ data \in AtMost(n2)
  BY ONLY <1>1, oid \in AtMost(9), data \in AtMost(DataSize + 4)
<1>4. n1 + n2 + 8 <= AllSize
  BY DEF DataSize, AllSize
<1>5. AllSize = n1 + n2 + 8
  BY DEF DataSize, AllSize
<1> HIDE DEF t1, t2, n1, n2
<1> DEFINE items == <<Tlv(t1, oid), Tlv(t2, data)>>
           contents == <<oid, data>>
<1>6. Fits(items, <<t1, t2>>, contents, n1 + n2 + 8)
  BY ONLY <1>3, FitsTwo
<1>7. Len(items) # 0 /\ Len(contents) = 2 /\ contents[2] = data /\ 2 \in 1..2
  OBVIOUS
<1>8. items = <<DerOid(8), Tlv(160, data)>>
  BY ONLY <1>2 DEF t1, t2
<1> HIDE DEF items, contents
<1>9. FlattenSeq(items) \in AtMost(AllSize) /\ ReadAs(FlattenSeq(items), contents)
  BY ONLY <1>5, <1>6, <1>7, FitsRead
<1> DEFINE content == FlattenSeq(items)
<1>10. DerSeq(items) = Tlv(48, content)
  BY DEF DerSeq
<1>11. content \in AtMost(AllSize) /\ ReadAs(content, contents)
  BY ONLY <1>9
<1> HIDE DEF content
<1>12. content \in Seq(Byte) /\ Len(content) \in Sizes /\ Tlv(48, content) \in Seq(Byte)
  BY ONLY <1>1, <1>11, ValueIs
<1>13. ReadTlv(Tlv(48, content), 0).value = content
  BY ONLY <1>1, <1>12, TlvRead
<1>14. Fields(content, 0)[2].value = data
  BY ONLY <1>7, <1>11 DEF ReadAs
<1> QED BY ONLY <1>8, <1>10, <1>12, <1>13, <1>14

\* The parts that are read of a signature.
ReadsItsParts(k, shape, by) ==
    LET parts(field) == Fields(field.value, 0)
        all == ReadTlv(SignedDer[k][shape][by], 0)
        data == parts(parts(parts(all)[2])[1])
        signer == parts(parts(data[5])[1])
    IN  /\ data[4].value = CertDer[k][shape]
        /\ NameDer(shape) \o DerInteger(shape.serial) = signer[2].value
        /\ signer[4].value = ReadTlv(SignedAttributes(Digest), 0).value
        /\ signer[6].value = Filler(256, by)

LEMMA SignatureIs ==
  ASSUME NEW k \in Keys, NEW shape \in Shapes, NEW by \in Keys
  PROVE  SignedDer[k][shape][by] \in Seq(Byte) /\ ReadsItsParts(k, shape, by)
<1>1. by \in Byte /\ 48 \in Byte
  BY KeysAssumption, Numbers
<1>2. PICK signature \in AtMost(256) : signature = Filler(256, by)
  <2>1. 256 \in Nat
    OBVIOUS
  <2> QED BY <1>1, <2>1, FillerIs
<1> DEFINE content == FlattenSeq(DataItems(k, shape, signature))
           raw == Tlv(48, content)
           sitems == FlattenSeq(SignerItems(shape, signature))
           sraw == DerSeq(SignerItems(shape, signature))
           cert == CertDer[k][shape]
           whole == SignedDer[k][shape][by]
           issuer == NameDer(shape) \o DerInteger(shape.serial)
           attributes == ReadTlv(SignedAttributes(Digest), 0).value
<1>3. whole = DerSeq(<<DerOid(8), Tlv(160, raw)>>)
  BY <1>2 DEF SignedDer, Pkcs7, DataItems, SignerItems, DerSeq
<1>4. content \in AtMost(DataSize)
  BY DataIs
<1>5. PICK contents : /\ ReadAs(content, contents) /\ Len(contents) = 5
                      /\ contents[4] = cert /\ contents[5] = sraw
  BY DataIs
<1>6. sitems \in AtMost(SignerSize)
  BY SignerIs
<1>7. PICK fields : /\ ReadAs(sitems, fields) /\ Len(fields) = 6
                    /\ fields[2] = issuer /\ fields[4] = attributes /\ fields[6] = signature
  BY SignerIs
<1>8. sraw = Tlv(48, sitems)
  BY SignerFits
<1>9. DataSize \in Nat /\ DataSize <= MaxContent /\ DataSize \in Sizes /\ SignerSize \in Sizes
  BY DEF DataSize, SignerSize, MaxContent, Sizes
<1> HIDE DEF content, sitems, sraw, cert, whole, issuer, attributes
<1>10. raw \in AtMost(DataSize + 4) /\ Fields(raw, 0)[1].value = content
  BY ONLY <1>1, <1>4, <1>9, TlvAtMost, OnlyField
<1>11. Fields(sraw, 0)[1].value = sitems
  BY ONLY <1>1, <1>6, <1>8, <1>9, OnlyField
<1> HIDE DEF raw
<1>12. whole \in Seq(Byte) /\ Fields(ReadTlv(whole, 0).value, 0)[2].value = raw
  BY ONLY <1>3, <1>10, AllIs
<1>13. Fields(content, 0)[4].value = cert /\ Fields(content, 0)[5].value = sraw
  BY ONLY <1>5 DEF ReadAs
<1>14. /\ Fields(sitems, 0)[2].value = issuer /\ Fields(sitems, 0)[4].value = attributes
       /\ Fields(sitems, 0)[6].value = signature
  BY ONLY <1>7 DEF ReadAs
<1>15. Fields(Fields(Fields(ReadTlv(whole, 0).value, 0)[2].value, 0)[1].value, 0) = Fields(content, 0)
  BY ONLY <1>10, <1>12
<1>16. Fields(Fields(Fields(content, 0)[5].value, 0)[1].value, 0) = Fields(sitems, 0)
  BY ONLY <1>11, <1>13
<1> QED BY ONLY <1>2, <1>12, <1>13, <1>14, <1>15, <1>16 DEF whole, cert, issuer, attributes, ReadsItsParts
-----------------------------------------------------------------------------
(***************************************************************************)
(* What authenticode_sha256 hashes of an image, and what the firmware does:*)
(* sections in the order of the file, whatever their number and order.     *)
(***************************************************************************)
Sections == [ptr : Nat, size : Nat]

\* What a loop computes is a function on 0..n, g[k] what its step k does.
Loop(f, base, g, m) == f[0] = base /\ \A k \in 1..m : f[k] = g[k][f[k - 1]]

LEMMA LoopExists ==
  ASSUME NEW n \in Nat, NEW A, NEW base \in A, NEW g \in [1..n -> [A -> A]]
  PROVE  \E f \in [0..n -> A] : Loop(f, base, g, n)
<1> DEFINE T == {m \in 0..n : \E f \in [0..m -> A] : Loop(f, base, g, m)}
<1>1. 0 \in T
  <2>1. [k \in 0..0 |-> base] \in [0..0 -> A] /\ Loop([k \in 0..0 |-> base], base, g, 0)
    BY DEF Loop
  <2> QED BY <2>1
<1>2. ASSUME NEW m \in 1..n, m - 1 \in T PROVE m \in T
  <2>1. PICK f \in [0..(m - 1) -> A] : Loop(f, base, g, m - 1)
    BY <1>2
  <2> DEFINE h == [k \in 0..m |-> IF k = m THEN g[m][f[m - 1]] ELSE f[k]]
  <2>2. g[m] \in [A -> A] /\ f[m - 1] \in A
    OBVIOUS
  <2>3. g[m][f[m - 1]] \in A
    BY <2>2
  <2>4. \A k \in 0..m : (k # m => k \in 0..(m - 1)) /\ h[k] \in A
    BY <2>3
  <2>5. h \in [0..m -> A]
    BY <2>4
  <2>6. h[0] = base
    BY <2>1 DEF Loop
  <2>7. ASSUME NEW k \in 1..m PROVE h[k] = g[k][h[k - 1]]
    <3>1. CASE k = m
      <4>1. m - 1 \in 0..m /\ m - 1 # m /\ m \in 0..m
        OBVIOUS
      <4>2. h[m - 1] = f[m - 1] /\ h[m] = g[m][f[m - 1]]
        BY <4>1
      <4> QED BY <3>1, <4>2
    <3>2. CASE k # m
      <4>1. k \in 1..(m - 1) /\ k \in 0..m /\ k - 1 \in 0..m /\ k - 1 # m
        BY <3>2
      <4>2. h[k] = f[k] /\ h[k - 1] = f[k - 1]
        BY <3>2, <4>1
      <4> QED BY <2>1, <4>1, <4>2 DEF Loop
    <3> QED BY <3>1, <3>2
  <2>8. Loop(h, base, g, m)
    BY <2>6, <2>7 DEF Loop
  <2> HIDE DEF h
  <2> QED BY <2>5, <2>8
<1>2a. \A k \in 1..n : k - 1 \in T => k \in T
  BY <1>2
<1> HIDE DEF T
<1>3. n \in T
  <2>1. n \in 0..n
    OBVIOUS
  <2> QED BY <1>1, <1>2a, <2>1, Along
<1> QED BY <1>3 DEF T

\* One more step behind the same ones.
Computes(f, base, g, n, A) ==
    /\ n \in Nat /\ base \in A /\ g \in [1..n -> [A -> A]]
    /\ f \in [0..n -> A] /\ Loop(f, base, g, n)
StartsAs(h, g, n) == \A k \in 1..n : h[k] = g[k]

LEMMA LoopGoesOn ==
  ASSUME NEW A, NEW base, NEW n, NEW g, NEW f, Computes(f, base, g, n, A),
         NEW m, NEW h, NEW e, Computes(e, base, h, m, A), StartsAs(h, g, n), m = n + 1
  PROVE  e[m] = h[m][f[n]]
<1>0. n \in Nat /\ m \in Nat
  BY DEF Computes
<1>1. f[0] = base /\ e[0] = base /\ \A k \in 1..n : h[k] = g[k]
  BY DEF Computes, Loop, StartsAs
<1>2. (\A k \in 1..n : f[k] = g[k][f[k - 1]]) /\ (\A k \in 1..m : e[k] = h[k][e[k - 1]])
  BY DEF Computes, Loop
<1> DEFINE T == {k \in 0..n : e[k] = f[k]}
<1>3. 0 \in T
  BY <1>0, <1>1
<1>4. ASSUME NEW k \in 1..n, k - 1 \in T PROVE k \in T
  <2>1. k \in 1..m /\ k \in 0..n
    BY <1>0
  <2>2. e[k] = h[k][e[k - 1]] /\ f[k] = g[k][f[k - 1]]
    BY <1>2, <2>1
  <2> QED BY <1>1, <1>4, <2>1, <2>2
<1> HIDE DEF T
<1>5. n \in T
  <2>1. n \in 0..n
    BY <1>0
  <2> QED BY <1>0, <1>3, <1>4, <2>1, Along
<1>6. m \in 1..m /\ m - 1 = n
  BY <1>0
<1>7. e[m] = h[m][e[m - 1]]
  BY <1>2, <1>6
<1> QED BY <1>5, <1>6, <1>7 DEF T

\* What holds of no item, and of one more, holds of all sequences.
LEMMA AlongSeq ==
  ASSUME NEW S, NEW T, <<>> \in T, \A s \in Seq(S) : \A x \in S : s \in T => Append(s, x) \in T
  PROVE  \A s \in Seq(S) : s \in T
<1> SUFFICES ASSUME NEW s \in Seq(S) PROVE s \in T
  OBVIOUS
<1> DEFINE n == Len(s)
           p == [k \in 0..n |-> SubSeq(s, 1, k)]
           U == {k \in 0..n : p[k] \in T}
<1>1. n \in Nat /\ SubSeq(s, 1, 0) = <<>> /\ SubSeq(s, 1, n) = s
  OBVIOUS
<1>2. p[0] = <<>> /\ p[n] = s /\ n \in 0..n /\ 0 \in 0..n
  BY <1>1
<1>3. ASSUME NEW k \in 1..n
      PROVE  /\ p[k - 1] \in Seq(S) /\ s[k] \in S /\ p[k] = Append(p[k - 1], s[k])
             /\ k \in 0..n /\ k - 1 \in 0..n
  <2>1. SubSeq(s, 1, k - 1) \in Seq(S) /\ s[k] \in S /\ SubSeq(s, 1, k) = Append(SubSeq(s, 1, k - 1), s[k])
    OBVIOUS
  <2>2. k \in 0..n /\ k - 1 \in 0..n
    OBVIOUS
  <2>3. p[k] = SubSeq(s, 1, k) /\ p[k - 1] = SubSeq(s, 1, k - 1)
    BY <2>2
  <2> QED BY ONLY <2>1, <2>2, <2>3
<1> HIDE DEF p
<1>4. ASSUME NEW k \in 1..n, k - 1 \in U PROVE k \in U
  BY <1>3, <1>4
<1>5. 0 \in U
  BY <1>2
<1> HIDE DEF U
<1>6. n \in U
  <2> HIDE DEF n
  <2> QED BY <1>1, <1>2, <1>4, <1>5, Along
<1> QED BY <1>2, <1>6 DEF U

\* Sequences that are joined.
LEMMA JoinedMore ==
  ASSUME NEW S, NEW a \in Seq(S), NEW b \in Seq(S), NEW x \in S
  PROVE  /\ a \o b \in Seq(S) /\ a \o Append(b, x) = Append(a \o b, x) /\ a \o <<>> = a /\ <<>> \o a = a
         /\ Append(a, x) \in Seq(S) /\ a \o <<x>> = Append(a, x) /\ <<x>> \in Seq(S)
OBVIOUS

\* One item more.
LEMMA ItemsBefore ==
  ASSUME NEW S, NEW s \in Seq(S), NEW x \in S
  PROVE  /\ Append(s, x) \in Seq(S) /\ Len(Append(s, x)) = Len(s) + 1 /\ Len(s) \in Nat
         /\ Append(s, x)[Len(s) + 1] = x /\ Len(s) + 1 \in 1..(Len(s) + 1)
         /\ \A k \in 1..Len(s) : Append(s, x)[k] = s[k] /\ k \in 1..(Len(s) + 1)
OBVIOUS

LEMMA MaxIs ==
  ASSUME NEW n \in Nat, NEW T, T \subseteq 0..n, 0 \in T
  PROVE  Max(T) \in T /\ \A t \in T : Max(T) >= t
<1> DEFINE U == {m \in 0..n : \A t \in T : t <= m}
<1>1. U \subseteq Nat /\ n \in U
  OBVIOUS
<1>2. PICK m \in U : \A y \in U : m <= y
  BY <1>1, HasLeast
<1>3. m \in T
  <2> SUFFICES ASSUME m \notin T PROVE FALSE
    OBVIOUS
  <2>1. m \in 0..n /\ \A t \in T : t \in 0..n /\ t <= m /\ t # m
    BY <1>2
  <2>2. m # 0
    BY <2>1
  <2>3. m - 1 \in 0..n /\ \A t \in T : t <= m - 1
    BY <2>1, <2>2
  <2>4. m - 1 \in U
    BY <2>3
  <2> QED BY <1>2, <2>1, <2>4
<1>4. \E x \in T : \A y \in T : x >= y
  BY <1>2, <1>3
<1> QED BY <1>4 DEF Max

LEMMA InsertAtIs ==
  ASSUME NEW l, NEW i, NEW x, NEW m, i - 1 = m
  PROVE  InsertAt(l, i, x) = SubSeq(l, 1, m) \o <<x>> \o SubSeq(l, i, Len(l))
BY DEF InsertAt

LEMMA InsertedIn ==
  ASSUME NEW l \in Seq(Sections), NEW x \in Sections
  PROVE  /\ Inserted(x, l) \in Seq(Sections)
         /\ \E m \in 0..Len(l) :
              /\ m = Max({0} \cup {k \in DOMAIN l : l[k].ptr <= x.ptr})
              /\ Inserted(x, l) = SubSeq(l, 1, m) \o <<x>> \o SubSeq(l, m + 1, Len(l))
<1> DEFINE T == {0} \cup {k \in DOMAIN l : l[k].ptr <= x.ptr}
<1>1. Len(l) \in Nat /\ T \subseteq 0..Len(l) /\ 0 \in T
  OBVIOUS
<1>2. PICK m \in 0..Len(l) : m = Max(T)
  <2> HIDE DEF T
  <2>1. Max(T) \in 0..Len(l)
    BY <1>1, MaxIs
  <2> QED BY <2>1
<1>3. m + 1 - 1 = m
  OBVIOUS
<1>4. Inserted(x, l) = SubSeq(l, 1, m) \o <<x>> \o SubSeq(l, m + 1, Len(l))
  <2>1. Inserted(x, l) = InsertAt(l, m + 1, x)
    BY <1>2 DEF Inserted
  <2> DEFINE i == m + 1
  <2>2. i - 1 = m
    BY <1>3
  <2> HIDE DEF i
  <2>3. InsertAt(l, i, x) = SubSeq(l, 1, m) \o <<x>> \o SubSeq(l, i, Len(l))
    BY ONLY <2>2, InsertAtIs
  <2> QED BY ONLY <2>1, <2>3 DEF i
<1>5. SubSeq(l, 1, m) \in Seq(Sections) /\ SubSeq(l, m + 1, Len(l)) \in Seq(Sections) /\ <<x>> \in Seq(Sections)
  OBVIOUS
<1>6. SubSeq(l, 1, m) \o <<x>> \o SubSeq(l, m + 1, Len(l)) \in Seq(Sections)
  <2> DEFINE a == SubSeq(l, 1, m)
             b == SubSeq(l, m + 1, Len(l))
  <2> HIDE DEF a, b
  <2>1. a \in Seq(Sections) /\ b \in Seq(Sections)
    BY <1>5 DEF a, b
  <2>2. a \o <<x>> \o b \in Seq(Sections)
    BY <2>1
  <2> QED BY <2>2 DEF a, b
<1> QED BY <1>2, <1>4, <1>6

\* SizeOf, item by item.
Adding(s) == [k \in 1..Len(s) |-> [m \in Nat |-> m + s[k].size]]

LEMMA SizeLoop ==
  ASSUME NEW s \in Seq(Sections)
  PROVE  \E f : Computes(f, 0, Adding(s), Len(s), Nat) /\ SizeOf(s) = f[Len(s)]
<1> DEFINE n == Len(s)
           A == Nat
           Is(f) == f = [k \in 0..n |-> IF k = 0 THEN 0 ELSE f[k - 1] + s[k].size]
<1>1. n \in Nat /\ \A k \in 1..n : s[k] \in Sections
  OBVIOUS
<1>2. 0 \in A
  OBVIOUS
<1>3. ASSUME NEW k \in 1..n, NEW prev \in A
      PROVE  prev + s[k].size \in A /\ Adding(s)[k][prev] = prev + s[k].size
  <2>1. s[k] \in Sections
    BY <1>1
  <2> QED BY <2>1 DEF Sections, Adding
<1>4. Adding(s) \in [1..n -> [A -> A]]
  <2>1. \A k \in 1..n : \A prev \in A : Adding(s)[k][prev] \in A
    BY <1>3
  <2> QED BY ONLY <1>3, <2>1 DEF Adding
<1> HIDE DEF A
<1>5. PICK f \in [0..n -> A] : Loop(f, 0, Adding(s), n)
  <2> HIDE DEF n
  <2> QED BY ONLY <1>1, <1>2, <1>4, LoopExists
<1>6. \A k \in 1..n : f[k] = f[k - 1] + s[k].size
  <2> SUFFICES ASSUME NEW k \in 1..n PROVE f[k] = f[k - 1] + s[k].size
    OBVIOUS
  <2>1. f[k - 1] \in A
    BY <1>1
  <2>2. f[k] = Adding(s)[k][f[k - 1]]
    BY <1>5 DEF Loop
  <2> QED BY ONLY <1>3, <2>1, <2>2
<1>7. Is(f)
  <2>1. f[0] = 0
    BY <1>5 DEF Loop
  <2>2. \A k \in 0..n : f[k] = IF k = 0 THEN 0 ELSE f[k - 1] + s[k].size
    <3>1. \A k \in 0..n : k # 0 => k \in 1..n
      BY <1>1
    <3> QED BY ONLY <1>6, <2>1, <3>1
  <2>3. f = [k \in 0..n |-> f[k]]
    OBVIOUS
  <2> QED BY <2>2, <2>3
<1>8. SizeOf(s) = (CHOOSE h : Is(h))[n]
  BY DEF SizeOf
<1>9. Is(CHOOSE h : Is(h))
  <2> HIDE DEF Is
  <2> QED BY <1>7
<1> DEFINE h == CHOOSE h : Is(h)
<1>10. Is(h)
  BY <1>9
<1>11. SizeOf(s) = h[n]
  BY <1>8
<1> HIDE DEF h
<1>12. /\ h[0] = 0 /\ DOMAIN h = 0..n /\ h = [k \in DOMAIN h |-> h[k]]
       /\ \A k \in 1..n : h[k] = h[k - 1] + s[k].size
  <2>1. h[0] = 0 /\ DOMAIN h = 0..n /\ h = [k \in DOMAIN h |-> h[k]]
    BY <1>1, <1>10
  <2>2. ASSUME NEW k \in 1..n PROVE h[k] = h[k - 1] + s[k].size
    <3>1. k \in 0..n /\ k # 0
      BY <1>1
    <3>2. h[k] = IF k = 0 THEN 0 ELSE h[k - 1] + s[k].size
      BY <1>10, <3>1
    <3> QED BY ONLY <3>1, <3>2
  <2> QED BY ONLY <2>1, <2>2
<1> HIDE DEF Is
<1>13. \A k \in 0..n : h[k] \in A
  <2> DEFINE T == {k \in 0..n : h[k] \in A}
  <2>1. 0 \in T
    BY <1>1, <1>2, <1>12
  <2>2. ASSUME NEW k \in 1..n, k - 1 \in T PROVE k \in T
    <3>1. h[k - 1] \in A /\ k \in 0..n
      BY <1>1, <2>2
    <3>2. h[k - 1] + s[k].size \in A
      BY ONLY <1>3, <3>1
    <3> QED BY <1>12, <3>1, <3>2
  <2> HIDE DEF T
  <2>3. \A k \in 0..n : k \in T
    <3> HIDE DEF n
    <3> QED BY <1>1, <2>1, <2>2, Along
  <2> QED BY <2>3 DEF T
<1>14. h \in [0..n -> A]
  BY ONLY <1>12, <1>13
<1>15. Loop(h, 0, Adding(s), n)
  <2>1. ASSUME NEW k \in 1..n PROVE h[k] = Adding(s)[k][h[k - 1]]
    <3>1. h[k - 1] \in A
      BY <1>1, <1>13
    <3> QED BY ONLY <1>3, <1>12, <3>1
  <2> QED BY <1>12, <2>1 DEF Loop
<1>16. Computes(h, 0, Adding(s), n, A)
  BY <1>1, <1>2, <1>4, <1>14, <1>15 DEF Computes
<1> QED BY <1>11, <1>16 DEF A

LEMMA SizeIs ==
  ASSUME NEW s \in Seq(Sections)
  PROVE  /\ SizeOf(<<>>) = 0 /\ SizeOf(s) \in Nat
         /\ \A x \in Sections : SizeOf(Append(s, x)) = SizeOf(s) + x.size
<1>1. SizeOf(<<>>) = 0
  <2>1. <<>> \in Seq(Sections) /\ Len(<<>>) = 0
    OBVIOUS
  <2>2. PICK f : Computes(f, 0, Adding(<<>>), Len(<<>>), Nat) /\ SizeOf(<<>>) = f[Len(<<>>)]
    BY <2>1, SizeLoop
  <2> QED BY <2>1, <2>2 DEF Computes, Loop
<1>2. PICK f : Computes(f, 0, Adding(s), Len(s), Nat) /\ SizeOf(s) = f[Len(s)]
  BY SizeLoop
<1> DEFINE n == Len(s)
<1>3. n \in Nat /\ n \in 0..n
  OBVIOUS
<1>4. f[n] \in Nat /\ SizeOf(s) = f[n]
  BY <1>2, <1>3 DEF Computes
<1>5. ASSUME NEW x \in Sections PROVE SizeOf(Append(s, x)) = SizeOf(s) + x.size
  <2> DEFINE t == Append(s, x)
  <2>1. /\ t \in Seq(Sections) /\ Len(t) = n + 1 /\ t[n + 1] = x /\ n + 1 \in 1..(n + 1)
        /\ \A k \in 1..n : t[k] = s[k] /\ k \in 1..(n + 1)
    BY ItemsBefore
  <2> HIDE DEF t
  <2>2. PICK e : Computes(e, 0, Adding(t), Len(t), Nat) /\ SizeOf(t) = e[Len(t)]
    BY ONLY <2>1, SizeLoop
  <2>3. StartsAs(Adding(t), Adding(s), n)
    BY <2>1 DEF Adding, StartsAs
  <2>4. Adding(t)[n + 1][f[n]] = f[n] + x.size
    BY <1>4, <2>1 DEF Adding
  <2> HIDE DEF n
  <2>5. Computes(f, 0, Adding(s), n, Nat)
    BY <1>2 DEF n
  <2>6. Computes(e, 0, Adding(t), n + 1, Nat)
    BY ONLY <2>1, <2>2
  <2>7. e[n + 1] = Adding(t)[n + 1][f[n]]
    BY ONLY <2>3, <2>5, <2>6, LoopGoesOn
  <2>8. SizeOf(t) = f[n] + x.size
    BY ONLY <2>1, <2>2, <2>4, <2>7
  <2> QED BY ONLY <1>4, <2>8 DEF t
<1> QED BY <1>1, <1>4, <1>5

\* InFileOrder, item by item.
Inserting(s) == [k \in 1..Len(s) |-> [l \in Seq(Sections) |-> Inserted(s[k], l)]]

LEMMA FileOrderLoop ==
  ASSUME NEW s \in Seq(Sections)
  PROVE  \E f : Computes(f, <<>>, Inserting(s), Len(s), Seq(Sections)) /\ InFileOrder(s) = f[Len(s)]
<1> DEFINE n == Len(s)
           A == Seq(Sections)
           Is(f) == f = [k \in 0..n |-> IF k = 0 THEN <<>> ELSE Inserted(s[k], f[k - 1])]
<1>1. n \in Nat /\ \A k \in 1..n : s[k] \in Sections
  OBVIOUS
<1>2. <<>> \in A
  OBVIOUS
<1>3. ASSUME NEW k \in 1..n, NEW prev \in A
      PROVE  Inserted(s[k], prev) \in A /\ Inserting(s)[k][prev] = Inserted(s[k], prev)
  <2>1. s[k] \in Sections
    BY <1>1
  <2> QED BY <2>1, InsertedIn DEF Inserting
<1>4. Inserting(s) \in [1..n -> [A -> A]]
  <2>1. \A k \in 1..n : \A prev \in A : Inserting(s)[k][prev] \in A
    BY <1>3
  <2> QED BY ONLY <1>3, <2>1 DEF Inserting
<1> HIDE DEF A
<1>5. PICK f \in [0..n -> A] : Loop(f, <<>>, Inserting(s), n)
  <2> HIDE DEF n
  <2> QED BY ONLY <1>1, <1>2, <1>4, LoopExists
<1>6. \A k \in 1..n : f[k] = Inserted(s[k], f[k - 1])
  <2> SUFFICES ASSUME NEW k \in 1..n PROVE f[k] = Inserted(s[k], f[k - 1])
    OBVIOUS
  <2>1. f[k - 1] \in A
    BY <1>1
  <2>2. f[k] = Inserting(s)[k][f[k - 1]]
    BY <1>5 DEF Loop
  <2> QED BY ONLY <1>3, <2>1, <2>2
<1>7. Is(f)
  <2>1. f[0] = <<>>
    BY <1>5 DEF Loop
  <2>2. \A k \in 0..n : f[k] = IF k = 0 THEN <<>> ELSE Inserted(s[k], f[k - 1])
    <3>1. \A k \in 0..n : k # 0 => k \in 1..n
      BY <1>1
    <3> QED BY ONLY <1>6, <2>1, <3>1
  <2>3. f = [k \in 0..n |-> f[k]]
    OBVIOUS
  <2> QED BY <2>2, <2>3
<1>8. InFileOrder(s) = (CHOOSE h : Is(h))[n]
  BY DEF InFileOrder
<1>9. Is(CHOOSE h : Is(h))
  <2> HIDE DEF Is
  <2> QED BY <1>7
<1> DEFINE h == CHOOSE h : Is(h)
<1>10. Is(h)
  BY <1>9
<1>11. InFileOrder(s) = h[n]
  BY <1>8
<1> HIDE DEF h
<1>12. /\ h[0] = <<>> /\ DOMAIN h = 0..n /\ h = [k \in DOMAIN h |-> h[k]]
       /\ \A k \in 1..n : h[k] = Inserted(s[k], h[k - 1])
  <2>1. h[0] = <<>> /\ DOMAIN h = 0..n /\ h = [k \in DOMAIN h |-> h[k]]
    BY <1>1, <1>10
  <2>2. ASSUME NEW k \in 1..n PROVE h[k] = Inserted(s[k], h[k - 1])
    <3>1. k \in 0..n /\ k # 0
      BY <1>1
    <3>2. h[k] = IF k = 0 THEN <<>> ELSE Inserted(s[k], h[k - 1])
      BY <1>10, <3>1
    <3> QED BY ONLY <3>1, <3>2
  <2> QED BY ONLY <2>1, <2>2
<1> HIDE DEF Is
<1>13. \A k \in 0..n : h[k] \in A
  <2> DEFINE T == {k \in 0..n : h[k] \in A}
  <2>1. 0 \in T
    BY <1>1, <1>2, <1>12
  <2>2. ASSUME NEW k \in 1..n, k - 1 \in T PROVE k \in T
    <3>1. h[k - 1] \in A /\ k \in 0..n
      BY <1>1, <2>2
    <3>2. Inserted(s[k], h[k - 1]) \in A
      BY ONLY <1>3, <3>1
    <3> QED BY <1>12, <3>1, <3>2
  <2> HIDE DEF T
  <2>3. \A k \in 0..n : k \in T
    <3> HIDE DEF n
    <3> QED BY <1>1, <2>1, <2>2, Along
  <2> QED BY <2>3 DEF T
<1>14. h \in [0..n -> A]
  BY ONLY <1>12, <1>13
<1>15. Loop(h, <<>>, Inserting(s), n)
  <2>1. ASSUME NEW k \in 1..n PROVE h[k] = Inserting(s)[k][h[k - 1]]
    <3>1. h[k - 1] \in A
      BY <1>1, <1>13
    <3> QED BY ONLY <1>3, <1>12, <3>1
  <2> QED BY <1>12, <2>1 DEF Loop
<1>16. Computes(h, <<>>, Inserting(s), n, A)
  BY <1>1, <1>2, <1>4, <1>14, <1>15 DEF Computes
<1> QED BY <1>11, <1>16 DEF A

LEMMA FileOrderIs ==
  ASSUME NEW s \in Seq(Sections)
  PROVE  /\ InFileOrder(<<>>) = <<>> /\ InFileOrder(s) \in Seq(Sections)
         /\ \A x \in Sections : InFileOrder(Append(s, x)) = Inserted(x, InFileOrder(s))
<1>1. InFileOrder(<<>>) = <<>>
  <2>1. <<>> \in Seq(Sections) /\ Len(<<>>) = 0
    OBVIOUS
  <2>2. PICK f : Computes(f, <<>>, Inserting(<<>>), Len(<<>>), Seq(Sections)) /\ InFileOrder(<<>>) = f[Len(<<>>)]
    BY <2>1, FileOrderLoop
  <2> QED BY <2>1, <2>2 DEF Computes, Loop
<1>2. PICK f : Computes(f, <<>>, Inserting(s), Len(s), Seq(Sections)) /\ InFileOrder(s) = f[Len(s)]
  BY FileOrderLoop
<1> DEFINE n == Len(s)
<1>3. n \in Nat /\ n \in 0..n
  OBVIOUS
<1>4. f[n] \in Seq(Sections) /\ InFileOrder(s) = f[n]
  BY <1>2, <1>3 DEF Computes
<1>5. ASSUME NEW x \in Sections PROVE InFileOrder(Append(s, x)) = Inserted(x, InFileOrder(s))
  <2> DEFINE t == Append(s, x)
  <2>1. /\ t \in Seq(Sections) /\ Len(t) = n + 1 /\ t[n + 1] = x /\ n + 1 \in 1..(n + 1)
        /\ \A k \in 1..n : t[k] = s[k] /\ k \in 1..(n + 1)
    BY ItemsBefore
  <2> HIDE DEF t
  <2>2. PICK e : Computes(e, <<>>, Inserting(t), Len(t), Seq(Sections)) /\ InFileOrder(t) = e[Len(t)]
    BY ONLY <2>1, FileOrderLoop
  <2>3. StartsAs(Inserting(t), Inserting(s), n)
    BY <2>1 DEF Inserting, StartsAs
  <2>4. Inserting(t)[n + 1][f[n]] = Inserted(x, f[n])
    BY <1>4, <2>1 DEF Inserting
  <2> HIDE DEF n
  <2>5. Computes(f, <<>>, Inserting(s), n, Seq(Sections))
    BY <1>2 DEF n
  <2>6. Computes(e, <<>>, Inserting(t), n + 1, Seq(Sections))
    BY ONLY <2>1, <2>2
  <2>7. e[n + 1] = Inserting(t)[n + 1][f[n]]
    BY ONLY <2>3, <2>5, <2>6, LoopGoesOn
  <2>8. InFileOrder(t) = Inserted(x, f[n])
    BY ONLY <2>1, <2>2, <2>4, <2>7
  <2> QED BY ONLY <1>4, <2>8 DEF t
<1> QED BY <1>1, <1>4, <1>5

\* Without, item by item.
Keeping(s, gone, S) ==
    [k \in 1..Len(s) |-> [l \in Seq(S) |-> IF s[k] \in gone THEN l ELSE Append(l, s[k])]]

LEMMA WithoutLoop ==
  ASSUME NEW S, NEW s \in Seq(S), NEW gone
  PROVE  \E f : Computes(f, <<>>, Keeping(s, gone, S), Len(s), Seq(S)) /\ Without(s, gone) = f[Len(s)]
<1> DEFINE n == Len(s)
           A == Seq(S)
           Is(f) == f = [k \in 0..n |-> IF k = 0 THEN <<>> ELSE (IF s[k] \in gone THEN f[k - 1] ELSE Append(f[k - 1], s[k]))]
<1>1. n \in Nat /\ \A k \in 1..n : s[k] \in S
  OBVIOUS
<1>2. <<>> \in A
  OBVIOUS
<1>3. ASSUME NEW k \in 1..n, NEW prev \in A
      PROVE  (IF s[k] \in gone THEN prev ELSE Append(prev, s[k])) \in A /\ Keeping(s, gone, S)[k][prev] = (IF s[k] \in gone THEN prev ELSE Append(prev, s[k]))
  <2>1. s[k] \in S
    BY <1>1
  <2> QED BY <2>1 DEF Keeping
<1>4. Keeping(s, gone, S) \in [1..n -> [A -> A]]
  <2>1. \A k \in 1..n : \A prev \in A : Keeping(s, gone, S)[k][prev] \in A
    BY <1>3
  <2> QED BY ONLY <1>3, <2>1 DEF Keeping
<1> HIDE DEF A
<1>5. PICK f \in [0..n -> A] : Loop(f, <<>>, Keeping(s, gone, S), n)
  <2> HIDE DEF n
  <2> QED BY ONLY <1>1, <1>2, <1>4, LoopExists
<1>6. \A k \in 1..n : f[k] = (IF s[k] \in gone THEN f[k - 1] ELSE Append(f[k - 1], s[k]))
  <2> SUFFICES ASSUME NEW k \in 1..n PROVE f[k] = (IF s[k] \in gone THEN f[k - 1] ELSE Append(f[k - 1], s[k]))
    OBVIOUS
  <2>1. f[k - 1] \in A
    BY <1>1
  <2>2. f[k] = Keeping(s, gone, S)[k][f[k - 1]]
    BY <1>5 DEF Loop
  <2> QED BY ONLY <1>3, <2>1, <2>2
<1>7. Is(f)
  <2>1. f[0] = <<>>
    BY <1>5 DEF Loop
  <2>2. \A k \in 0..n : f[k] = IF k = 0 THEN <<>> ELSE (IF s[k] \in gone THEN f[k - 1] ELSE Append(f[k - 1], s[k]))
    <3>1. \A k \in 0..n : k # 0 => k \in 1..n
      BY <1>1
    <3> QED BY ONLY <1>6, <2>1, <3>1
  <2>3. f = [k \in 0..n |-> f[k]]
    OBVIOUS
  <2> QED BY <2>2, <2>3
<1>8. Without(s, gone) = (CHOOSE h : Is(h))[n]
  BY DEF Without
<1>9. Is(CHOOSE h : Is(h))
  <2> HIDE DEF Is
  <2> QED BY <1>7
<1> DEFINE h == CHOOSE h : Is(h)
<1>10. Is(h)
  BY <1>9
<1>11. Without(s, gone) = h[n]
  BY <1>8
<1> HIDE DEF h
<1>12. /\ h[0] = <<>> /\ DOMAIN h = 0..n /\ h = [k \in DOMAIN h |-> h[k]]
       /\ \A k \in 1..n : h[k] = (IF s[k] \in gone THEN h[k - 1] ELSE Append(h[k - 1], s[k]))
  <2>1. h[0] = <<>> /\ DOMAIN h = 0..n /\ h = [k \in DOMAIN h |-> h[k]]
    BY <1>1, <1>10
  <2>2. ASSUME NEW k \in 1..n PROVE h[k] = (IF s[k] \in gone THEN h[k - 1] ELSE Append(h[k - 1], s[k]))
    <3>1. k \in 0..n /\ k # 0
      BY <1>1
    <3>2. h[k] = IF k = 0 THEN <<>> ELSE (IF s[k] \in gone THEN h[k - 1] ELSE Append(h[k - 1], s[k]))
      BY <1>10, <3>1
    <3> QED BY ONLY <3>1, <3>2
  <2> QED BY ONLY <2>1, <2>2
<1> HIDE DEF Is
<1>13. \A k \in 0..n : h[k] \in A
  <2> DEFINE T == {k \in 0..n : h[k] \in A}
  <2>1. 0 \in T
    BY <1>1, <1>2, <1>12
  <2>2. ASSUME NEW k \in 1..n, k - 1 \in T PROVE k \in T
    <3>1. h[k - 1] \in A /\ k \in 0..n
      BY <1>1, <2>2
    <3>2. (IF s[k] \in gone THEN h[k - 1] ELSE Append(h[k - 1], s[k])) \in A
      BY ONLY <1>3, <3>1
    <3> QED BY <1>12, <3>1, <3>2
  <2> HIDE DEF T
  <2>3. \A k \in 0..n : k \in T
    <3> HIDE DEF n
    <3> QED BY <1>1, <2>1, <2>2, Along
  <2> QED BY <2>3 DEF T
<1>14. h \in [0..n -> A]
  BY ONLY <1>12, <1>13
<1>15. Loop(h, <<>>, Keeping(s, gone, S), n)
  <2>1. ASSUME NEW k \in 1..n PROVE h[k] = Keeping(s, gone, S)[k][h[k - 1]]
    <3>1. h[k - 1] \in A
      BY <1>1, <1>13
    <3> QED BY ONLY <1>3, <1>12, <3>1
  <2> QED BY <1>12, <2>1 DEF Loop
<1>16. Computes(h, <<>>, Keeping(s, gone, S), n, A)
  BY <1>1, <1>2, <1>4, <1>14, <1>15 DEF Computes
<1> QED BY <1>11, <1>16 DEF A

LEMMA WithoutIs ==
  ASSUME NEW S, NEW s \in Seq(S), NEW gone
  PROVE  /\ Without(<<>>, gone) = <<>> /\ Without(s, gone) \in Seq(S)
         /\ \A x \in S : Without(Append(s, x), gone) = (IF x \in gone THEN Without(s, gone) ELSE Append(Without(s, gone), x))
<1>1. Without(<<>>, gone) = <<>>
  <2>1. <<>> \in Seq(S) /\ Len(<<>>) = 0
    OBVIOUS
  <2>2. PICK f : Computes(f, <<>>, Keeping(<<>>, gone, S), Len(<<>>), Seq(S)) /\ Without(<<>>, gone) = f[Len(<<>>)]
    BY <2>1, WithoutLoop
  <2> QED BY <2>1, <2>2 DEF Computes, Loop
<1>2. PICK f : Computes(f, <<>>, Keeping(s, gone, S), Len(s), Seq(S)) /\ Without(s, gone) = f[Len(s)]
  BY WithoutLoop
<1> DEFINE n == Len(s)
<1>3. n \in Nat /\ n \in 0..n
  OBVIOUS
<1>4. f[n] \in Seq(S) /\ Without(s, gone) = f[n]
  BY <1>2, <1>3 DEF Computes
<1>5. ASSUME NEW x \in S PROVE Without(Append(s, x), gone) = (IF x \in gone THEN Without(s, gone) ELSE Append(Without(s, gone), x))
  <2> DEFINE t == Append(s, x)
  <2>1. /\ t \in Seq(S) /\ Len(t) = n + 1 /\ t[n + 1] = x /\ n + 1 \in 1..(n + 1)
        /\ \A k \in 1..n : t[k] = s[k] /\ k \in 1..(n + 1)
    BY ItemsBefore
  <2> HIDE DEF t
  <2>2. PICK e : Computes(e, <<>>, Keeping(t, gone, S), Len(t), Seq(S)) /\ Without(t, gone) = e[Len(t)]
    BY ONLY <2>1, WithoutLoop
  <2>3. StartsAs(Keeping(t, gone, S), Keeping(s, gone, S), n)
    BY <2>1 DEF Keeping, StartsAs
  <2>4. Keeping(t, gone, S)[n + 1][f[n]] = (IF x \in gone THEN f[n] ELSE Append(f[n], x))
    BY <1>4, <2>1 DEF Keeping
  <2> HIDE DEF n
  <2>5. Computes(f, <<>>, Keeping(s, gone, S), n, Seq(S))
    BY <1>2 DEF n
  <2>6. Computes(e, <<>>, Keeping(t, gone, S), n + 1, Seq(S))
    BY ONLY <2>1, <2>2
  <2>7. e[n + 1] = Keeping(t, gone, S)[n + 1][f[n]]
    BY ONLY <2>3, <2>5, <2>6, LoopGoesOn
  <2>8. Without(t, gone) = (IF x \in gone THEN f[n] ELSE Append(f[n], x))
    BY ONLY <2>1, <2>2, <2>4, <2>7
  <2> QED BY ONLY <1>4, <2>8 DEF t
<1> QED BY <1>1, <1>4, <1>5

LEMMA WithoutMore ==
  ASSUME NEW S, NEW s \in Seq(S), NEW x \in S, NEW gone
  PROVE  /\ Without(s, gone) \in Seq(S)
         /\ Without(Append(s, x), gone) = IF x \in gone THEN Without(s, gone) ELSE Append(Without(s, gone), x)
BY WithoutIs

LEMMA SizeJoined ==
  ASSUME NEW a \in Seq(Sections), NEW b \in Seq(Sections)
  PROVE  SizeOf(a \o b) = SizeOf(a) + SizeOf(b)
<1> DEFINE T == {c \in Seq(Sections) : SizeOf(a \o c) = SizeOf(a) + SizeOf(c)}
<1>1. <<>> \in T
  <2>1. a \o <<>> = a /\ <<>> \in Seq(Sections)
    OBVIOUS
  <2>2. SizeOf(<<>>) = 0 /\ SizeOf(a) \in Nat
    BY SizeIs
  <2> QED BY <2>1, <2>2
<1>2. ASSUME NEW c \in Seq(Sections), NEW x \in Sections, c \in T PROVE Append(c, x) \in T
  <2>1. /\ a \o c \in Seq(Sections) /\ a \o Append(c, x) = Append(a \o c, x)
        /\ Append(c, x) \in Seq(Sections)
    BY JoinedMore
  <2>2. SizeOf(Append(a \o c, x)) = SizeOf(a \o c) + x.size
    BY <2>1, SizeIs
  <2>3. SizeOf(Append(c, x)) = SizeOf(c) + x.size /\ SizeOf(c) \in Nat /\ SizeOf(a) \in Nat
    BY SizeIs
  <2>4. x.size \in Nat
    BY DEF Sections
  <2>5. SizeOf(a \o c) = SizeOf(a) + SizeOf(c)
    BY <1>2
  <2>6. SizeOf(a \o Append(c, x)) = SizeOf(a) + SizeOf(Append(c, x))
    BY ONLY <2>1, <2>2, <2>3, <2>4, <2>5
  <2> QED BY <2>1, <2>6
<1> HIDE DEF T
<1>3. b \in T
  BY <1>1, <1>2, AlongSeq
<1> QED BY <1>3 DEF T

Distributes(a, b, gone) == Without(a \o b, gone) = Without(a, gone) \o Without(b, gone)

LEMMA WithoutJoined ==
  ASSUME NEW S, NEW a \in Seq(S), NEW b \in Seq(S), NEW gone
  PROVE  Distributes(a, b, gone)
<1> DEFINE T == {c \in Seq(S) : Without(a \o c, gone) = Without(a, gone) \o Without(c, gone)}
<1>0. Without(a, gone) \in Seq(S) /\ Without(<<>>, gone) = <<>>
  BY WithoutIs
<1>1. <<>> \in T
  <2>1. a \o <<>> = a /\ <<>> \in Seq(S) /\ Without(a, gone) \o <<>> = Without(a, gone)
    BY <1>0
  <2> QED BY <1>0, <2>1
<1>2. ASSUME NEW c \in Seq(S), NEW x \in S, c \in T PROVE Append(c, x) \in T
  <2>1. /\ a \o c \in Seq(S) /\ a \o Append(c, x) = Append(a \o c, x) /\ Append(c, x) \in Seq(S)
    BY JoinedMore
  <2>2a. Without(Append(a \o c, x), gone)
           = IF x \in gone THEN Without(a \o c, gone) ELSE Append(Without(a \o c, gone), x)
    <3> DEFINE ac == a \o c
    <3>1. ac \in Seq(S) /\ x \in S
      BY <2>1
    <3> HIDE DEF ac
    <3>2. Without(Append(ac, x), gone) = IF x \in gone THEN Without(ac, gone) ELSE Append(Without(ac, gone), x)
      BY ONLY <3>1, WithoutMore
    <3> QED BY <3>2 DEF ac
  <2>2b. /\ Without(Append(c, x), gone) = IF x \in gone THEN Without(c, gone) ELSE Append(Without(c, gone), x)
         /\ Without(c, gone) \in Seq(S)
    <3>1. c \in Seq(S) /\ x \in S
      OBVIOUS
    <3>2. Without(Append(c, x), gone) = IF x \in gone THEN Without(c, gone) ELSE Append(Without(c, gone), x)
      BY ONLY <3>1, WithoutIs
    <3>3. Without(c, gone) \in Seq(S)
      BY ONLY <3>1, WithoutIs
    <3> QED BY ONLY <3>2, <3>3
  <2>2. /\ Without(Append(a \o c, x), gone)
             = IF x \in gone THEN Without(a \o c, gone) ELSE Append(Without(a \o c, gone), x)
        /\ Without(Append(c, x), gone) = IF x \in gone THEN Without(c, gone) ELSE Append(Without(c, gone), x)
        /\ Without(c, gone) \in Seq(S)
    BY ONLY <2>2a, <2>2b
  <2>3. Without(a \o c, gone) = Without(a, gone) \o Without(c, gone)
    BY <1>2
  <2>4. Without(a, gone) \o Append(Without(c, gone), x) = Append(Without(a, gone) \o Without(c, gone), x)
    BY <1>0, <2>2, JoinedMore, SMTT(30)
  <2>5. Without(a \o Append(c, x), gone) = Without(a, gone) \o Without(Append(c, x), gone)
    BY ONLY <2>1, <2>2, <2>3, <2>4
  <2> QED BY <2>1, <2>5
<1> HIDE DEF T
<1>3. b \in T
  BY <1>1, <1>2, AlongSeq
<1> QED BY <1>3 DEF T, Distributes

LEMMA WithoutOne ==
  ASSUME NEW S, NEW x \in S, NEW gone
  PROVE  Without(<<x>>, gone) = IF x \in gone THEN <<>> ELSE <<x>>
<1>1. <<>> \in Seq(S) /\ Append(<<>>, x) = <<x>>
  OBVIOUS
<1>2. Without(<<>>, gone) = <<>>
  BY ONLY <1>1, WithoutIs
<1>3. Without(Append(<<>>, x), gone) = IF x \in gone THEN Without(<<>>, gone) ELSE Append(Without(<<>>, gone), x)
  <2> DEFINE s == <<>>
  <2>1. s \in Seq(S) /\ x \in S
    BY <1>1
  <2> HIDE DEF s
  <2>2. Without(Append(s, x), gone) = IF x \in gone THEN Without(s, gone) ELSE Append(Without(s, gone), x)
    BY ONLY <2>1, WithoutIs
  <2> QED BY <2>2 DEF s
<1> QED BY ONLY <1>1, <1>2, <1>3

\* What is gone counts only as far as it is there.
LEMMA ItemsOf ==
  ASSUME NEW S, NEW a \in Seq(S)
  PROVE  /\ ToSet(<<>>) = {} /\ ToSet(a) \subseteq S
         /\ \A x \in S : ToSet(Append(a, x)) = ToSet(a) \cup {x}
<1>1. ToSet(<<>>) = {} /\ ToSet(a) \subseteq S
  BY DEF ToSet
<1>2. ASSUME NEW x \in S PROVE ToSet(Append(a, x)) = ToSet(a) \cup {x}
  <2> DEFINE t == Append(a, x)
  <2>1. /\ DOMAIN t = 1..(Len(a) + 1) /\ DOMAIN a = 1..Len(a) /\ Len(a) \in Nat /\ t[Len(a) + 1] = x
        /\ \A k \in 1..Len(a) : t[k] = a[k]
    OBVIOUS
  <2> HIDE DEF t
  <2>2. ToSet(t) = {t[k] : k \in DOMAIN t} /\ ToSet(a) = {a[k] : k \in DOMAIN a}
    BY DEF ToSet
  <2>3. ToSet(t) \subseteq ToSet(a) \cup {x}
    BY <2>1, <2>2
  <2>4. ToSet(a) \subseteq ToSet(t) /\ x \in ToSet(t)
    <3>1. \A k \in 1..Len(a) : k \in 1..(Len(a) + 1)
      BY <2>1
    <3>2. Len(a) + 1 \in 1..(Len(a) + 1)
      BY <2>1
    <3> QED BY ONLY <2>1, <2>2, <3>1, <3>2
  <2> QED BY <2>3, <2>4 DEF t
<1> QED BY <1>1, <1>2

LEMMA SameGone ==
  ASSUME NEW S, NEW g, NEW h, NEW a \in Seq(S), \A x \in ToSet(a) : x \in g <=> x \in h
  PROVE  Without(a, g) = Without(a, h)
<1> DEFINE T == {s \in Seq(S) : (\A x \in ToSet(s) : x \in g <=> x \in h) => Without(s, g) = Without(s, h)}
<1>1. <<>> \in T
  <2>1. <<>> \in Seq(S)
    OBVIOUS
  <2>2. Without(<<>>, g) = <<>> /\ Without(<<>>, h) = <<>>
    BY <2>1, WithoutIs
  <2> QED BY <2>1, <2>2
<1>2. ASSUME NEW c \in Seq(S), NEW x \in S, c \in T PROVE Append(c, x) \in T
  <2>1. Append(c, x) \in Seq(S) /\ ToSet(Append(c, x)) = ToSet(c) \cup {x}
    BY ItemsOf
  <2>2. /\ Without(Append(c, x), g) = IF x \in g THEN Without(c, g) ELSE Append(Without(c, g), x)
        /\ Without(Append(c, x), h) = IF x \in h THEN Without(c, h) ELSE Append(Without(c, h), x)
    <3>1. c \in Seq(S) /\ x \in S
      OBVIOUS
    <3>2. Without(Append(c, x), g) = IF x \in g THEN Without(c, g) ELSE Append(Without(c, g), x)
      BY ONLY <3>1, WithoutMore
    <3>3. Without(Append(c, x), h) = IF x \in h THEN Without(c, h) ELSE Append(Without(c, h), x)
      BY ONLY <3>1, WithoutMore
    <3> QED BY <3>2, <3>3
  <2> QED BY ONLY <1>2, <2>1, <2>2
<1> HIDE DEF T
<1>3. a \in T
  BY <1>1, <1>2, AlongSeq
<1> QED BY <1>3 DEF T

LEMMA TwiceWithout ==
  ASSUME NEW S, NEW a \in Seq(S), NEW g
  PROVE  Without(Without(a, g), g) = Without(a, g)
<1> DEFINE T == {s \in Seq(S) : Without(Without(s, g), g) = Without(s, g)}
<1>1. <<>> \in T
  <2>1. <<>> \in Seq(S)
    OBVIOUS
  <2>2. Without(<<>>, g) = <<>>
    BY <2>1, WithoutIs
  <2> QED BY <2>1, <2>2
<1>2. ASSUME NEW c \in Seq(S), NEW x \in S, c \in T PROVE Append(c, x) \in T
  <2>1. Append(c, x) \in Seq(S) /\ Without(c, g) \in Seq(S)
    BY WithoutIs
  <2>2. Without(Append(c, x), g) = IF x \in g THEN Without(c, g) ELSE Append(Without(c, g), x)
    BY WithoutIs
  <2>3. Without(Append(Without(c, g), x), g)
          = IF x \in g THEN Without(Without(c, g), g) ELSE Append(Without(Without(c, g), g), x)
    BY <2>1, WithoutIs
  <2> QED BY ONLY <1>2, <2>1, <2>2, <2>3
<1> HIDE DEF T
<1>3. a \in T
  BY <1>1, <1>2, AlongSeq
<1> QED BY <1>3 DEF T

\* What stays is among what there was.
LEMMA ItemsLeft ==
  ASSUME NEW S, NEW a \in Seq(S), NEW g
  PROVE  ToSet(Without(a, g)) = ToSet(a) \ g
<1> DEFINE T == {s \in Seq(S) : ToSet(Without(s, g)) = ToSet(s) \ g}
<1>1. <<>> \in T
  <2>1. <<>> \in Seq(S)
    OBVIOUS
  <2>2. Without(<<>>, g) = <<>> /\ ToSet(<<>>) = {}
    BY <2>1, WithoutIs, ItemsOf
  <2> QED BY <2>1, <2>2
<1>2. ASSUME NEW c \in Seq(S), NEW x \in S, c \in T PROVE Append(c, x) \in T
  <2>1. /\ Append(c, x) \in Seq(S) /\ Without(c, g) \in Seq(S)
        /\ Without(Append(c, x), g) = IF x \in g THEN Without(c, g) ELSE Append(Without(c, g), x)
    <3>1. Append(c, x) \in Seq(S)
      OBVIOUS
    <3>2. /\ Without(c, g) \in Seq(S)
          /\ \A y \in S : Without(Append(c, y), g) = (IF y \in g THEN Without(c, g) ELSE Append(Without(c, g), y))
      BY <1>2, WithoutIs
    <3> QED BY ONLY <1>2, <3>1, <3>2
  <2>2. /\ ToSet(Append(c, x)) = ToSet(c) \cup {x}
        /\ ToSet(Append(Without(c, g), x)) = ToSet(Without(c, g)) \cup {x}
    BY <2>1, ItemsOf
  <2> QED BY ONLY <1>2, <2>1, <2>2
<1> HIDE DEF T
<1>3. a \in T
  BY <1>1, <1>2, AlongSeq
<1> QED BY <1>3 DEF T

\* The order of a file.
Upto(p) == {s \in Sections : s.ptr <= p}
Behind(p) == {s \in Sections : s.ptr > p}
Ordered(l, d) == \A i, j \in 1..Len(l) : i < j => l[i].ptr + d <= l[j].ptr

LEMMA JoinedIs ==
  ASSUME NEW S, NEW a \in Seq(S), NEW b \in Seq(S)
  PROVE  /\ a \o b \in Seq(S) /\ Len(a \o b) = Len(a) + Len(b) /\ Len(a) \in Nat /\ Len(b) \in Nat
         /\ \A k \in 1..Len(a) : (a \o b)[k] = a[k]
         /\ \A k \in 1..Len(b) : (a \o b)[Len(a) + k] = b[k]
         /\ \A k \in (Len(a) + 1)..(Len(a) + Len(b)) : (a \o b)[k] = b[k - Len(a)]
         /\ SubSeq(a \o b, 1, Len(a)) = a
         /\ SubSeq(a \o b, Len(a) + 1, Len(a \o b)) = b
<1>1. a \o b \in Seq(S) /\ Len(a \o b) = Len(a) + Len(b) /\ Len(a) \in Nat /\ Len(b) \in Nat
  OBVIOUS
<1>2. \A k \in 1..Len(a) : (a \o b)[k] = a[k]
  OBVIOUS
<1>3. \A k \in 1..Len(b) : (a \o b)[Len(a) + k] = b[k]
  OBVIOUS
<1>4. \A k \in (Len(a) + 1)..(Len(a) + Len(b)) : (a \o b)[k] = b[k - Len(a)]
  OBVIOUS
<1>5. SubSeq(a \o b, 1, Len(a)) = a
  OBVIOUS
<1>6. SubSeq(a \o b, Len(a) + 1, Len(a \o b)) = b
  OBVIOUS
<1> QED BY <1>1, <1>2, <1>3, <1>4, <1>5, <1>6

\* A sequence cut in two.
Cut(l, m, a, b) ==
    /\ Len(a) = m /\ Len(b) = Len(l) - m /\ l = a \o b
    /\ (\A k \in 1..m : a[k] = l[k]) /\ (\A k \in 1..(Len(l) - m) : b[k] = l[k + m])
LEMMA PartsOf ==
  ASSUME NEW S, NEW l \in Seq(S), NEW m \in 0..Len(l)
  PROVE  /\ SubSeq(l, 1, m) \in Seq(S) /\ SubSeq(l, m + 1, Len(l)) \in Seq(S)
         /\ Cut(l, m, SubSeq(l, 1, m), SubSeq(l, m + 1, Len(l)))
<1>1. /\ SubSeq(l, 1, m) \in Seq(S) /\ SubSeq(l, m + 1, Len(l)) \in Seq(S)
      /\ Len(SubSeq(l, 1, m)) = m /\ Len(SubSeq(l, m + 1, Len(l))) = Len(l) - m
  OBVIOUS
<1>2. \A k \in 1..m : SubSeq(l, 1, m)[k] = l[k]
  OBVIOUS
<1>3. \A k \in 1..(Len(l) - m) : SubSeq(l, m + 1, Len(l))[k] = l[k + m]
  OBVIOUS
<1>4. l = SubSeq(l, 1, m) \o SubSeq(l, m + 1, Len(l))
  <2> DEFINE a == SubSeq(l, 1, m)
             b == SubSeq(l, m + 1, Len(l))
  <2>1. Len(l) \in Nat /\ l = [k \in 1..Len(l) |-> l[k]]
    OBVIOUS
  <2>2. /\ a \in Seq(S) /\ b \in Seq(S) /\ Len(a) = m /\ Len(b) = Len(l) - m
        /\ (\A k \in 1..m : a[k] = l[k]) /\ \A k \in 1..(Len(l) - m) : b[k] = l[k + m]
    BY <1>1, <1>2, <1>3
  <2> HIDE DEF a, b
  <2>3. /\ a \o b \in Seq(S) /\ Len(a \o b) = Len(a) + Len(b)
        /\ \A k \in 1..Len(a) : (a \o b)[k] = a[k]
        /\ \A k \in (Len(a) + 1)..(Len(a) + Len(b)) : (a \o b)[k] = b[k - Len(a)]
    BY ONLY <2>2, JoinedIs
  <2> DEFINE c == a \o b
  <2> HIDE DEF c
  <2>4. c \in Seq(S) /\ Len(l) = Len(c)
    BY <2>1, <2>2, <2>3 DEF c
  <2>5. ASSUME NEW k \in 1..Len(l) PROVE l[k] = c[k]
    <3>1. CASE k <= m
      BY <2>2, <2>3, <3>1 DEF c
    <3>2. CASE ~(k <= m)
      <4>1. k - m \in 1..(Len(l) - m) /\ (k - m) + m = k /\ k \in (m + 1)..(m + (Len(l) - m))
        BY <2>1, <3>2
      <4>2. c[k] = b[k - m]
        BY <2>2, <2>3, <4>1 DEF c
      <4> QED BY <2>2, <4>1, <4>2
    <3> QED BY <3>1, <3>2
  <2>6. l = c
    BY <2>4, <2>5, SameItems
  <2> QED BY <2>6 DEF a, b, c
<1>5. Cut(l, m, SubSeq(l, 1, m), SubSeq(l, m + 1, Len(l)))
  BY ONLY <1>1, <1>2, <1>3, <1>4 DEF Cut
<1> QED BY ONLY <1>1, <1>5

LEMMA CutInTwo ==
  ASSUME NEW S, NEW l \in Seq(S), NEW m \in 0..Len(l)
  PROVE  \E a, b \in Seq(S) : Cut(l, m, a, b)
BY PartsOf

\* The place of one more is known.
LEMMA InsertedBetween ==
  ASSUME NEW x \in Sections, NEW a \in Seq(Upto(x.ptr)), NEW b \in Seq(Behind(x.ptr))
  PROVE  /\ a \in Seq(Sections) /\ b \in Seq(Sections)
         /\ Inserted(x, a \o b) = (a \o <<x>>) \o b
<1>1. a \in Seq(Sections) /\ b \in Seq(Sections)
  BY DEF Upto, Behind
<1> DEFINE l == a \o b
           T == {0} \cup {k \in DOMAIN l : l[k].ptr <= x.ptr}
<1>2. /\ l \in Seq(Sections) /\ Len(l) = Len(a) + Len(b) /\ Len(a) \in Nat /\ Len(b) \in Nat
      /\ DOMAIN l = 1..Len(l)
      /\ \A k \in 1..Len(a) : l[k] = a[k]
      /\ \A k \in (Len(a) + 1)..(Len(a) + Len(b)) : l[k] = b[k - Len(a)]
      /\ SubSeq(l, 1, Len(a)) = a
      /\ SubSeq(l, Len(a) + 1, Len(l)) = b
  BY <1>1, JoinedIs
<1>3. \A k \in 1..Len(a) : a[k] \in Upto(x.ptr)
  OBVIOUS
<1>4. \A k \in 1..Len(b) : b[k] \in Behind(x.ptr)
  OBVIOUS
<1>5. PICK m \in 0..Len(l) :
        /\ m = Max(T)
        /\ Inserted(x, l) = SubSeq(l, 1, m) \o <<x>> \o SubSeq(l, m + 1, Len(l))
  BY <1>2, InsertedIn
<1> HIDE DEF l
<1>6. T = 0..Len(a)
  <2>1. \A k \in 1..Len(l) : l[k].ptr <= x.ptr <=> k \in 1..Len(a)
    <3> SUFFICES ASSUME NEW k \in 1..Len(l) PROVE l[k].ptr <= x.ptr <=> k \in 1..Len(a)
      OBVIOUS
    <3>1. CASE k \in 1..Len(a)
      BY <1>2, <1>3, <3>1 DEF Upto
    <3>2. CASE k \notin 1..Len(a)
      <4>1. k \in (Len(a) + 1)..(Len(a) + Len(b)) /\ k - Len(a) \in 1..Len(b)
        BY <1>2, <3>2
      <4>2. l[k] \in Behind(x.ptr)
        BY <1>2, <1>4, <4>1
      <4>3. l[k].ptr > x.ptr /\ l[k].ptr \in Nat /\ x.ptr \in Nat
        BY <4>2 DEF Behind, Sections
      <4> QED BY <3>2, <4>3
    <3> QED BY <3>1, <3>2
  <2> QED BY <1>2, <2>1
<1>7. m = Len(a)
  <2>1. Max(0..Len(a)) \in 0..Len(a) /\ \A t \in 0..Len(a) : Max(0..Len(a)) >= t
    <3> DEFINE U == 0..Len(a)
    <3>1. U \subseteq 0..Len(a) /\ 0 \in U /\ Len(a) \in Nat
      BY <1>2
    <3> HIDE DEF U
    <3>2. Max(U) \in U /\ \A t \in U : Max(U) >= t
      BY <3>1, MaxIs
    <3> QED BY <3>2 DEF U
  <2>2. Max(0..Len(a)) = Len(a)
    BY <1>2, <2>1
  <2>3. m = Max(0..Len(a))
    BY ONLY <1>5, <1>6
  <2> QED BY ONLY <2>2, <2>3
<1>8. Inserted(x, l) = (a \o <<x>>) \o b
  BY <1>2, <1>5, <1>7
<1> QED BY <1>1, <1>8 DEF l

LEMMA SplitAt ==
  ASSUME NEW l \in Seq(Sections), NEW d \in Nat, Ordered(l, d), NEW p \in Nat
  PROVE  \E a \in Seq(Upto(p)), b \in Seq(Behind(p)) : l = a \o b
<1> DEFINE T == {0} \cup {k \in DOMAIN l : l[k].ptr <= p}
<1>1. Len(l) \in Nat /\ T \subseteq 0..Len(l) /\ 0 \in T /\ DOMAIN l = 1..Len(l)
  OBVIOUS
<1>2. PICK m \in T : \A t \in T : m >= t
  <2> DEFINE n == Len(l)
  <2>1. n \in Nat /\ T \subseteq 0..n /\ 0 \in T
    BY <1>1
  <2> HIDE DEF T, n
  <2>2. Max(T) \in T /\ \A t \in T : Max(T) >= t
    BY ONLY <2>1, MaxIs
  <2> QED BY ONLY <2>2
<1>3. m \in 0..Len(l)
  BY <1>1
<1>4. \A k \in 1..Len(l) : l[k] \in Sections /\ l[k].ptr \in Nat
  <2>1. \A k \in 1..Len(l) : l[k] \in Sections
    OBVIOUS
  <2>2. \A x \in Sections : x.ptr \in Nat
    BY DEF Sections
  <2> QED BY ONLY <2>1, <2>2
<1>5. \A k \in 1..m : k \in 1..Len(l) /\ l[k] \in Upto(p)
  <2> SUFFICES ASSUME NEW k \in 1..m PROVE k \in 1..Len(l) /\ l[k] \in Upto(p)
    OBVIOUS
  <2>1. k \in 1..Len(l) /\ m \in 1..Len(l) /\ k <= m
    BY <1>1, <1>3
  <2>2. l[m].ptr <= p
    BY <2>1
  <2>3. l[k].ptr <= l[m].ptr
    <3>1. k < m => l[k].ptr + d <= l[m].ptr
      BY <2>1 DEF Ordered
    <3>2. k < m \/ k = m
      BY <1>3, <2>1
    <3> QED BY <1>4, <2>1, <3>1, <3>2
  <2>4. l[k].ptr <= p
    BY <1>4, <2>1, <2>2, <2>3
  <2> QED BY <1>4, <2>1, <2>4 DEF Upto
<1>6. \A k \in 1..(Len(l) - m) : l[k + m] \in Behind(p)
  <2> SUFFICES ASSUME NEW k \in 1..(Len(l) - m) PROVE l[k + m] \in Behind(p)
    OBVIOUS
  <2>1. k + m \in 1..Len(l) /\ ~(m >= k + m)
    BY <1>1, <1>3
  <2>2. ~(l[k + m].ptr <= p)
    BY <1>1, <1>2, <2>1
  <2>3. l[k + m].ptr > p
    BY <1>4, <2>1, <2>2
  <2> QED BY <1>4, <2>1, <2>3 DEF Behind
<1> HIDE DEF T
<1>7a. PICK a, b \in Seq(Sections) : Cut(l, m, a, b)
  <2>1. l \in Seq(Sections) /\ m \in 0..Len(l)
    BY <1>3
  <2> QED BY ONLY <2>1, CutInTwo
<1>7. /\ Len(a) = m /\ Len(b) = Len(l) - m /\ l = a \o b
      /\ (\A k \in 1..m : a[k] = l[k]) /\ (\A k \in 1..(Len(l) - m) : b[k] = l[k + m])
  BY <1>7a DEF Cut
<1>8. a \in Seq(Upto(p))
  <2>1. \A k \in 1..Len(a) : a[k] \in Upto(p)
    BY <1>5, <1>7
  <2> QED BY <1>7, <2>1
<1>9. b \in Seq(Behind(p))
  <2>1. \A k \in 1..Len(b) : b[k] \in Behind(p)
    BY <1>6, <1>7
  <2> QED BY <1>7, <2>1
<1> QED BY <1>7, <1>8, <1>9

\* What stands before and behind it, when it is put between them.
LEMMA OrderKept ==
  ASSUME NEW l \in Seq(Sections), NEW d \in 0..1, Ordered(l, d), NEW x \in Sections,
         \A k \in 1..Len(l) : l[k].ptr <= x.ptr => l[k].ptr + d <= x.ptr
  PROVE  Ordered(Inserted(x, l), d)
<1>1. x.ptr \in Nat
  BY DEF Sections
<1>2. PICK a \in Seq(Upto(x.ptr)), b \in Seq(Behind(x.ptr)) : l = a \o b
  <2>1. d \in Nat
    OBVIOUS
  <2> QED BY <1>1, <2>1, SplitAt
<1>3. a \in Seq(Sections) /\ b \in Seq(Sections) /\ Inserted(x, l) = (a \o <<x>>) \o b
  BY <1>2, InsertedBetween
<1> DEFINE n == Len(a)
           t == (a \o <<x>>) \o b
<1>4. /\ n \in Nat /\ Len(b) \in Nat /\ Len(l) = n + Len(b)
      /\ \A k \in 1..n : l[k] = a[k]
      /\ \A k \in 1..Len(b) : l[n + k] = b[k]
  BY <1>2, <1>3, JoinedIs
<1>5. /\ Len(t) = n + 1 + Len(b) /\ t[n + 1] = x
      /\ \A k \in 1..n : t[k] = a[k]
      /\ \A k \in 1..Len(b) : t[n + 1 + k] = b[k]
  <2>1. a \o <<x>> \in Seq(Sections) /\ Len(a \o <<x>>) = n + 1 /\ (a \o <<x>>)[n + 1] = x
    BY <1>3
  <2>2. \A k \in 1..n : (a \o <<x>>)[k] = a[k]
    BY <1>3
  <2> DEFINE c == a \o <<x>>
  <2> HIDE DEF c
  <2>3. c \in Seq(Sections) /\ Len(c) = n + 1 /\ c[n + 1] = x /\ \A k \in 1..n : c[k] = a[k]
    BY ONLY <2>1, <2>2 DEF c
  <2>4. /\ Len(c \o b) = Len(c) + Len(b)
        /\ \A k \in 1..Len(c) : (c \o b)[k] = c[k]
        /\ \A k \in 1..Len(b) : (c \o b)[Len(c) + k] = b[k]
    <3>1. c \in Seq(Sections) /\ b \in Seq(Sections)
      BY <1>3, <2>3
    <3> QED BY ONLY <3>1, JoinedIs
  <2>5. n + 1 \in 1..(n + 1) /\ \A k \in 1..n : k \in 1..(n + 1)
    BY <1>4
  <2>6. t = c \o b
    BY DEF c
  <2> QED BY ONLY <2>3, <2>4, <2>5, <2>6
<1>6. \A k \in 1..n : a[k] \in Upto(x.ptr)
  OBVIOUS
<1>7. \A k \in 1..Len(b) : b[k] \in Behind(x.ptr)
  OBVIOUS
<1> HIDE DEF t, n
<1> SUFFICES ASSUME NEW i \in 1..Len(t), NEW j \in 1..Len(t), i < j PROVE t[i].ptr + d <= t[j].ptr
  BY <1>3 DEF t, Ordered
<1>8. \A k \in 1..n : t[k].ptr + d <= x.ptr /\ t[k].ptr \in Nat
  <2> SUFFICES ASSUME NEW k \in 1..n PROVE t[k].ptr + d <= x.ptr /\ t[k].ptr \in Nat
    OBVIOUS
  <2>1. t[k] = l[k] /\ k \in 1..Len(l) /\ l[k].ptr <= x.ptr /\ l[k].ptr \in Nat
    <3>1. t[k] = l[k] /\ k \in 1..Len(l)
      BY <1>4, <1>5
    <3>2. t[k] \in Upto(x.ptr)
      BY <1>5, <1>6
    <3> QED BY ONLY <3>1, <3>2 DEF Upto, Sections
  <2> QED BY <2>1
<1>9. \A k \in 1..Len(b) : t[n + 1 + k].ptr > x.ptr /\ t[n + 1 + k].ptr \in Nat
  BY <1>5, <1>7 DEF Behind, Sections
<1>10. i \in 1..n \/ i = n + 1 \/ \E k \in 1..Len(b) : i = n + 1 + k
  <2>1. i > n + 1 => i - n - 1 \in 1..Len(b) /\ i = n + 1 + (i - n - 1)
    BY <1>4, <1>5
  <2> QED BY <1>4, <1>5, <2>1, SMTT(30)
<1>11. j \in 1..n \/ j = n + 1 \/ \E k \in 1..Len(b) : j = n + 1 + k
  <2>1. j > n + 1 => j - n - 1 \in 1..Len(b) /\ j = n + 1 + (j - n - 1)
    BY <1>4, <1>5
  <2> QED BY <1>4, <1>5, <2>1
<1>12. CASE j \in 1..n
  <2>1. i \in 1..n
    BY <1>4, <1>12
  <2>2. i \in 1..Len(l) /\ j \in 1..Len(l) /\ l[i] = t[i] /\ l[j] = t[j]
    BY <1>4, <1>5, <1>12, <2>1
  <2> QED BY <2>2 DEF Ordered
<1>13. CASE j = n + 1
  BY <1>1, <1>4, <1>5, <1>8, <1>10, <1>13
<1>14. CASE \E k \in 1..Len(b) : j = n + 1 + k
  <2>1. PICK k \in 1..Len(b) : j = n + 1 + k
    BY <1>14
  <2>2. t[j].ptr > x.ptr /\ t[j].ptr \in Nat
    BY <1>9, <2>1
  <2>3. CASE i \in 1..n
    BY <1>1, <1>8, <2>2, <2>3, SMTT(40)
  <2>4. CASE i = n + 1
    BY <1>1, <1>5, <2>2, <2>4, SMTT(30)
  <2>5. CASE \E h \in 1..Len(b) : i = n + 1 + h
    <3>1. PICK h \in 1..Len(b) : i = n + 1 + h
      BY <2>5
    <3>2. n + h \in 1..Len(l) /\ n + k \in 1..Len(l) /\ n + h < n + k
      BY <1>4, <2>1, <3>1
    <3>3. l[n + h] = t[i] /\ l[n + k] = t[j]
      BY ONLY <1>4, <1>5, <2>1, <3>1
    <3> QED BY <3>2, <3>3 DEF Ordered
  <2> QED BY <1>10, <2>3, <2>4, <2>5
<1> QED BY <1>11, <1>12, <1>13, <1>14

LEMMA ItemsJoined ==
  ASSUME NEW S, NEW a \in Seq(S), NEW b \in Seq(S)
  PROVE  ToSet(a \o b) = ToSet(a) \cup ToSet(b)
<1> DEFINE T == {c \in Seq(S) : ToSet(a \o c) = ToSet(a) \cup ToSet(c)}
<1>1. <<>> \in T
  <2>1. a \o <<>> = a /\ <<>> \in Seq(S)
    OBVIOUS
  <2>2. ToSet(<<>>) = {}
    BY ItemsOf
  <2> QED BY <2>1, <2>2
<1>2. ASSUME NEW c \in Seq(S), NEW x \in S, c \in T PROVE Append(c, x) \in T
  <2>1. /\ a \o c \in Seq(S) /\ a \o Append(c, x) = Append(a \o c, x) /\ Append(c, x) \in Seq(S)
    BY JoinedMore
  <2>2. ToSet(Append(c, x)) = ToSet(c) \cup {x}
    BY ItemsOf
  <2>3. ToSet(Append(a \o c, x)) = ToSet(a \o c) \cup {x}
    <3> DEFINE ac == a \o c
    <3>1. ac \in Seq(S) /\ x \in S
      BY <2>1
    <3> HIDE DEF ac
    <3>2. ToSet(Append(ac, x)) = ToSet(ac) \cup {x}
      BY ONLY <3>1, ItemsOf
    <3> QED BY <3>2 DEF ac
  <2>4. ToSet(a \o c) = ToSet(a) \cup ToSet(c)
    BY <1>2
  <2>5. ToSet(a \o Append(c, x)) = ToSet(a) \cup ToSet(Append(c, x))
    BY ONLY <2>1, <2>2, <2>3, <2>4
  <2> QED BY <2>1, <2>5
<1> HIDE DEF T
<1>3. b \in T
  BY <1>1, <1>2, AlongSeq
<1> QED BY <1>3 DEF T

LEMMA OneIs ==
  ASSUME NEW S, NEW x \in S
  PROVE  <<x>> \in Seq(S) /\ ToSet(<<x>>) = {x} /\ Append(<<>>, x) = <<x>>
<1>1. <<x>> \in Seq(S) /\ Append(<<>>, x) = <<x>> /\ <<>> \in Seq(S)
  OBVIOUS
<1>2. ToSet(<<>>) = {}
  BY ONLY <1>1, ItemsOf
<1>3. ToSet(<<x>>) = {x}
  BY DEF ToSet
<1> QED BY <1>1, <1>3

LEMMA SizeOfOne ==
  ASSUME NEW x \in Sections
  PROVE  SizeOf(<<x>>) = x.size /\ x.size \in Nat
<1>1. <<>> \in Seq(Sections) /\ Append(<<>>, x) = <<x>>
  OBVIOUS
<1>2. x.size \in Nat
  BY DEF Sections
<1>3. SizeOf(<<>>) = 0
  BY ONLY <1>1, SizeIs
<1>4. SizeOf(Append(<<>>, x)) = SizeOf(<<>>) + x.size
  <2> DEFINE s == <<>>
  <2>1. s \in Seq(Sections) /\ x \in Sections
    BY <1>1
  <2> HIDE DEF s
  <2>2. SizeOf(Append(s, x)) = SizeOf(s) + x.size
    BY ONLY <2>1, SizeIs
  <2> QED BY <2>2 DEF s
<1> QED BY ONLY <1>1, <1>2, <1>3, <1>4

\* Wherever it is put, it is one more.
LEMMA InsertedCounts ==
  ASSUME NEW l \in Seq(Sections), NEW x \in Sections
  PROVE  /\ ToSet(Inserted(x, l)) = ToSet(l) \cup {x}
         /\ SizeOf(Inserted(x, l)) = SizeOf(l) + x.size
<1>1. PICK m \in 0..Len(l) : Inserted(x, l) = SubSeq(l, 1, m) \o <<x>> \o SubSeq(l, m + 1, Len(l))
  BY InsertedIn
<1> DEFINE a == SubSeq(l, 1, m)
           b == SubSeq(l, m + 1, Len(l))
<1>2. a \in Seq(Sections) /\ b \in Seq(Sections) /\ l = a \o b
  BY PartsOf DEF Cut
<1>3. Inserted(x, l) = (a \o <<x>>) \o b
  BY <1>1
<1> HIDE DEF a, b
<1>4. <<x>> \in Seq(Sections) /\ ToSet(<<x>>) = {x} /\ SizeOf(<<x>>) = x.size /\ x.size \in Nat
  BY OneIs, SizeOfOne
<1> DEFINE c == a \o <<x>>
<1>5. c \in Seq(Sections)
  BY ONLY <1>2, <1>4, JoinedIs
<1>6. ToSet(c) = ToSet(a) \cup {x} /\ SizeOf(c) = SizeOf(a) + x.size
  <2> DEFINE o == <<x>>
  <2>1. o \in Seq(Sections) /\ ToSet(o) = {x} /\ SizeOf(o) = x.size
    BY <1>4
  <2> HIDE DEF o
  <2>2. ToSet(a \o o) = ToSet(a) \cup ToSet(o) /\ SizeOf(a \o o) = SizeOf(a) + SizeOf(o)
    BY ONLY <1>2, <2>1, ItemsJoined, SizeJoined
  <2> QED BY ONLY <2>1, <2>2 DEF c, o
<1> HIDE DEF c
<1>7. Inserted(x, l) = c \o b
  BY <1>3 DEF c
<1>8. ToSet(c \o b) = ToSet(c) \cup ToSet(b) /\ SizeOf(c \o b) = SizeOf(c) + SizeOf(b)
  BY ONLY <1>2, <1>5, ItemsJoined, SizeJoined
<1>9. ToSet(l) = ToSet(a) \cup ToSet(b) /\ SizeOf(l) = SizeOf(a) + SizeOf(b)
  BY ONLY <1>2, ItemsJoined, SizeJoined
<1>10. SizeOf(a) \in Nat /\ SizeOf(b) \in Nat
  BY ONLY <1>2, SizeIs
<1>11. ToSet(Inserted(x, l)) = ToSet(l) \cup {x}
  BY ONLY <1>6, <1>7, <1>8, <1>9
<1>12. SizeOf(Inserted(x, l)) = SizeOf(l) + x.size
  BY ONLY <1>4, <1>6, <1>7, <1>8, <1>9, <1>10
<1> QED BY <1>11, <1>12

\* Put in order, sections are the same ones, in order.
LEMMA OrderedIs ==
  ASSUME NEW s \in Seq(Sections)
  PROVE  /\ InFileOrder(s) \in Seq(Sections) /\ Ordered(InFileOrder(s), 0)
         /\ ToSet(InFileOrder(s)) = ToSet(s) /\ SizeOf(InFileOrder(s)) = SizeOf(s)
<1> DEFINE Holds1(c) == /\ InFileOrder(c) \in Seq(Sections) /\ Ordered(InFileOrder(c), 0)
                        /\ ToSet(InFileOrder(c)) = ToSet(c) /\ SizeOf(InFileOrder(c)) = SizeOf(c)
           T == {c \in Seq(Sections) : Holds1(c)}
<1>0. <<>> \in Seq(Sections) /\ Len(<<>>) = 0
  OBVIOUS
<1>1. <<>> \in T
  <2>1. InFileOrder(<<>>) = <<>>
    BY ONLY <1>0, FileOrderIs
  <2>2. Ordered(<<>>, 0)
    BY <1>0 DEF Ordered
  <2> QED BY ONLY <1>0, <2>1, <2>2
<1>2. ASSUME NEW c \in Seq(Sections), NEW x \in Sections, c \in T PROVE Append(c, x) \in T
  <2> DEFINE l == InFileOrder(c)
  <2>1. l \in Seq(Sections) /\ Ordered(l, 0) /\ ToSet(l) = ToSet(c) /\ SizeOf(l) = SizeOf(c)
    BY <1>2
  <2>2. InFileOrder(Append(c, x)) = Inserted(x, l)
    BY FileOrderIs
  <2> HIDE DEF l
  <2>3. Append(c, x) \in Seq(Sections) /\ ToSet(Append(c, x)) = ToSet(c) \cup {x}
    BY ItemsOf
  <2>4. SizeOf(Append(c, x)) = SizeOf(c) + x.size
    BY SizeIs
  <2>5. Inserted(x, l) \in Seq(Sections)
    BY <2>1, InsertedIn
  <2>6. ToSet(Inserted(x, l)) = ToSet(l) \cup {x} /\ SizeOf(Inserted(x, l)) = SizeOf(l) + x.size
    BY <2>1, InsertedCounts
  <2>7. Ordered(Inserted(x, l), 0)
    <3>1. \A k \in 1..Len(l) : l[k].ptr <= x.ptr => l[k].ptr + 0 <= x.ptr
      <4>1. \A k \in 1..Len(l) : l[k] \in Sections
        BY <2>1
      <4>2. \A y \in Sections : y.ptr \in Nat
        BY DEF Sections
      <4> QED BY ONLY <4>1, <4>2
    <3>2. 0 \in 0..1
      OBVIOUS
    <3> QED BY ONLY <2>1, <3>1, <3>2, x \in Sections, OrderKept
  <2> QED BY ONLY <2>1, <2>2, <2>3, <2>4, <2>5, <2>6, <2>7
<1> HIDE DEF T
<1>3. s \in T
  BY <1>1, <1>2, AlongSeq
<1> QED BY <1>3 DEF T

\* Which ones are left does not depend on when they are put in order.
LEMMA OrderLeft ==
  ASSUME NEW s \in Seq(Sections), NEW gone
  PROVE  Without(InFileOrder(s), gone) = InFileOrder(Without(s, gone))
<1> DEFINE T == {c \in Seq(Sections) : Without(InFileOrder(c), gone) = InFileOrder(Without(c, gone))}
<1>0. <<>> \in Seq(Sections)
  OBVIOUS
<1>1. <<>> \in T
  <2>1. InFileOrder(<<>>) = <<>>
    BY ONLY <1>0, FileOrderIs
  <2>2. Without(<<>>, gone) = <<>>
    BY ONLY <1>0, WithoutIs
  <2> QED BY <1>0, <2>1, <2>2
<1>2. ASSUME NEW c \in Seq(Sections), NEW x \in Sections, c \in T PROVE Append(c, x) \in T
  <2> DEFINE l == InFileOrder(c)
             w == Without(c, gone)
  <2>1. l \in Seq(Sections) /\ Ordered(l, 0)
    BY OrderedIs
  <2>2. w \in Seq(Sections)
    BY WithoutIs
  <2>3. Without(l, gone) = InFileOrder(w)
    BY <1>2
  <2>4. InFileOrder(Append(c, x)) = Inserted(x, l)
    BY FileOrderIs
  <2>5. Without(Append(c, x), gone) = IF x \in gone THEN w ELSE Append(w, x)
    BY WithoutIs
  <2> HIDE DEF l, w
  <2>6. x.ptr \in Nat /\ 0 \in Nat
    BY DEF Sections
  <2>7. PICK a, b : a \in Seq(Upto(x.ptr)) /\ b \in Seq(Behind(x.ptr)) /\ l = a \o b
    <3>1. \E a \in Seq(Upto(x.ptr)), b \in Seq(Behind(x.ptr)) : l = a \o b
      BY ONLY <2>1, <2>6, SplitAt
    <3> QED BY <3>1
  <2>8. a \in Seq(Sections) /\ b \in Seq(Sections) /\ Inserted(x, a \o b) = (a \o <<x>>) \o b
    BY <2>7, InsertedBetween
  <2> DEFINE wa == Without(a, gone)
             wb == Without(b, gone)
  <2>9. wa \in Seq(Upto(x.ptr)) /\ wb \in Seq(Behind(x.ptr))
    BY <2>7, WithoutIs
  <2>10. Without(l, gone) = wa \o wb
    <3>1. Distributes(a, b, gone)
      BY ONLY <2>8, WithoutJoined
    <3> QED BY ONLY <2>7, <3>1 DEF Distributes
  <2>11. <<x>> \in Seq(Sections)
    BY OneIs
  <2>12. Without((a \o <<x>>) \o b, gone) = (wa \o Without(<<x>>, gone)) \o wb
    <3> DEFINE o == <<x>>
               d == a \o o
    <3>1. o \in Seq(Sections)
      BY <2>11
    <3> HIDE DEF o
    <3>2. d \in Seq(Sections)
      BY ONLY <2>8, <3>1, JoinedIs
    <3> HIDE DEF d
    <3>3. Distributes(d, b, gone)
      BY ONLY <2>8, <3>2, WithoutJoined
    <3>4. Distributes(a, o, gone)
      BY ONLY <2>8, <3>1, WithoutJoined
    <3> QED BY ONLY <3>3, <3>4 DEF d, o, Distributes
  <2>13. Without(<<x>>, gone) = IF x \in gone THEN <<>> ELSE <<x>>
    BY WithoutOne
  <2> HIDE DEF wa, wb
  <2>14. /\ wa \in Seq(Sections) /\ wb \in Seq(Sections)
         /\ Inserted(x, wa \o wb) = (wa \o <<x>>) \o wb
    BY <2>9, InsertedBetween
  <2>15. Append(c, x) \in Seq(Sections)
    OBVIOUS
  <2>16. CASE x \in gone
    <3>1. wa \o <<>> = wa
      BY <2>14
    <3>2. Without(InFileOrder(Append(c, x)), gone) = wa \o wb
      BY ONLY <2>4, <2>7, <2>8, <2>12, <2>13, <2>16, <3>1
    <3>3. InFileOrder(Without(Append(c, x), gone)) = wa \o wb
      BY ONLY <2>3, <2>5, <2>10, <2>16
    <3> QED BY ONLY <2>15, <3>2, <3>3
  <2>17. CASE x \notin gone
    <3>1. Without(InFileOrder(Append(c, x)), gone) = (wa \o <<x>>) \o wb
      BY ONLY <2>4, <2>7, <2>8, <2>12, <2>13, <2>17
    <3>2. InFileOrder(Append(w, x)) = Inserted(x, InFileOrder(w))
      BY <2>2, FileOrderIs
    <3>3. InFileOrder(Without(Append(c, x), gone)) = (wa \o <<x>>) \o wb
      BY ONLY <2>3, <2>5, <2>10, <2>14, <2>17, <3>2
    <3> QED BY ONLY <2>15, <3>1, <3>3
  <2> QED BY <2>16, <2>17
<1> HIDE DEF T
<1>3. s \in T
  BY <1>1, <1>2, AlongSeq
<1> QED BY <1>3 DEF T

Hollow == {x \in Sections : x.size = 0}
Ranges == Nat \X Nat
Void == {r \in Ranges : r[1] >= r[2]}
RangeOf(x) == Span(x.ptr, x.ptr + x.size)

LEMMA FilledIs ==
  ASSUME NEW s \in Seq(Sections)
  PROVE  Filled(s) = Without(s, Hollow)
<1> DEFINE g == {x \in ToSet(s) : x.size = 0}
<1>1. ToSet(s) \subseteq Sections
  BY ItemsOf
<1>2. \A x \in ToSet(s) : x \in g <=> x \in Hollow
  BY <1>1 DEF Hollow
<1>3. Filled(s) = Without(s, g)
  BY DEF Filled
<1> HIDE DEF g
<1> QED BY <1>2, <1>3, SameGone

LEMMA NonEmptyIs ==
  ASSUME NEW s \in Seq(Ranges)
  PROVE  NonEmpty(s) = Without(s, Void) /\ NonEmpty(s) \in Seq(Ranges)
<1> DEFINE g == {r \in ToSet(s) : r[1] >= r[2]}
<1>1. ToSet(s) \subseteq Ranges
  BY ItemsOf
<1>2. \A x \in ToSet(s) : x \in g <=> x \in Void
  BY <1>1 DEF Void
<1>3. NonEmpty(s) = Without(s, g)
  BY DEF NonEmpty
<1> HIDE DEF g
<1>4. NonEmpty(s) = Without(s, Void)
  BY <1>2, <1>3, SameGone
<1>5. Without(s, Void) \in Seq(Ranges)
  BY WithoutIs
<1> QED BY <1>4, <1>5

LEMMA NonEmptyJoined ==
  ASSUME NEW a \in Seq(Ranges), NEW b \in Seq(Ranges)
  PROVE  a \o b \in Seq(Ranges) /\ NonEmpty(a \o b) = NonEmpty(a) \o NonEmpty(b)
<1>1. a \o b \in Seq(Ranges)
  BY JoinedIs
<1> DEFINE c == a \o b
<1>2. c \in Seq(Ranges)
  BY <1>1
<1> HIDE DEF c
<1>3. NonEmpty(c) = Without(c, Void) /\ NonEmpty(a) = Without(a, Void) /\ NonEmpty(b) = Without(b, Void)
  BY ONLY <1>2, a \in Seq(Ranges), b \in Seq(Ranges), NonEmptyIs
<1>4. Distributes(a, b, Void)
  BY WithoutJoined
<1> QED BY ONLY <1>1, <1>3, <1>4 DEF c, Distributes

LEMMA SpansOf ==
  ASSUME NEW s \in Seq(Sections)
  PROVE  /\ SectionSpans(<<>>) = <<>> /\ SectionSpans(s) \in Seq(Ranges) /\ Len(SectionSpans(s)) = Len(s)
         /\ \A k \in 1..Len(s) : SectionSpans(s)[k] = RangeOf(s[k])
<1>1. SectionSpans(<<>>) = <<>>
  BY DEF SectionSpans
<1>2. Len(s) \in Nat /\ DOMAIN s = 1..Len(s)
  OBVIOUS
<1>3. \A x \in Sections : RangeOf(x) \in Ranges
  BY DEF Sections, RangeOf, Span, Ranges
<1>4. \A k \in 1..Len(s) : s[k] \in Sections
  OBVIOUS
<1>5. SectionSpans(s) = [k \in 1..Len(s) |-> RangeOf(s[k])]
  BY <1>2 DEF SectionSpans, RangeOf
<1>6. \A k \in 1..Len(s) : RangeOf(s[k]) \in Ranges
  BY ONLY <1>3, <1>4
<1> HIDE DEF RangeOf
<1>7. SectionSpans(s) \in Seq(Ranges) /\ Len(SectionSpans(s)) = Len(s)
  BY ONLY <1>2, <1>5, <1>6
<1> QED BY ONLY <1>1, <1>5, <1>7

LEMMA OneSpanMore ==
  ASSUME NEW s \in Seq(Sections), NEW x \in Sections
  PROVE  /\ SectionSpans(Append(s, x)) = Append(SectionSpans(s), RangeOf(x))
         /\ RangeOf(x) \in Ranges /\ (RangeOf(x) \in Void <=> x \in Hollow)
<1>1. RangeOf(x) \in Ranges /\ (RangeOf(x) \in Void <=> x \in Hollow)
  BY DEF Sections, RangeOf, Span, Ranges, Void, Hollow
<1> DEFINE t == Append(s, x)
           a == SectionSpans(t)
           b == Append(SectionSpans(s), RangeOf(x))
<1>2. /\ t \in Seq(Sections) /\ Len(t) = Len(s) + 1 /\ t[Len(s) + 1] = x /\ Len(s) \in Nat
      /\ \A k \in 1..Len(s) : t[k] = s[k] /\ k \in 1..(Len(s) + 1)
  BY ItemsBefore
<1>3. /\ SectionSpans(s) \in Seq(Ranges) /\ Len(SectionSpans(s)) = Len(s)
      /\ \A k \in 1..Len(s) : SectionSpans(s)[k] = RangeOf(s[k])
  BY SpansOf
<1> HIDE DEF t
<1>4. a \in Seq(Ranges) /\ Len(a) = Len(t) /\ \A k \in 1..Len(t) : a[k] = RangeOf(t[k])
  BY <1>2, SpansOf
<1> DEFINE r == RangeOf(x)
           u == SectionSpans(s)
<1>5. r \in Ranges /\ u \in Seq(Ranges) /\ Len(u) = Len(s)
  BY <1>1, <1>3
<1> HIDE DEF r, u, a
<1>6. /\ Append(u, r) \in Seq(Ranges) /\ Len(Append(u, r)) = Len(u) + 1 /\ Append(u, r)[Len(u) + 1] = r
      /\ \A k \in 1..Len(u) : Append(u, r)[k] = u[k]
  BY ONLY <1>5, ItemsBefore
<1>7. b \in Seq(Ranges) /\ Len(b) = Len(s) + 1 /\ b[Len(s) + 1] = RangeOf(x)
  BY ONLY <1>5, <1>6 DEF r, u
<1>8. \A k \in 1..Len(s) : b[k] = RangeOf(s[k])
  BY ONLY <1>3, <1>5, <1>6 DEF r, u
<1> HIDE DEF b
<1>9. ASSUME NEW k \in 1..Len(a) PROVE a[k] = b[k]
  <2>1. k \in 1..Len(s) \/ k = Len(s) + 1
    BY <1>2, <1>4
  <2>2. a[k] = RangeOf(t[k])
    BY <1>4
  <2> QED BY ONLY <2>1, <2>2, <1>2, <1>7, <1>8
<1>10. Len(a) = Len(b)
  BY ONLY <1>2, <1>4, <1>7
<1>11. a = b
  BY <1>4, <1>7, <1>9, <1>10, SameItems
<1> QED BY <1>1, <1>11 DEF a, b, t

LEMMA SpansLeft ==
  ASSUME NEW s \in Seq(Sections)
  PROVE  NonEmpty(SectionSpans(s)) = SectionSpans(Without(s, Hollow))
<1> DEFINE T == {c \in Seq(Sections) : Without(SectionSpans(c), Void) = SectionSpans(Without(c, Hollow))}
<1>0. <<>> \in Seq(Sections) /\ <<>> \in Seq(Ranges)
  OBVIOUS
<1>1. <<>> \in T
  <2>1. SectionSpans(<<>>) = <<>>
    BY ONLY <1>0, SpansOf
  <2>2. Without(<<>>, Hollow) = <<>> /\ Without(<<>>, Void) = <<>>
    BY ONLY <1>0, WithoutIs
  <2> QED BY <1>0, <2>1, <2>2
<1>2. ASSUME NEW c \in Seq(Sections), NEW x \in Sections, c \in T PROVE Append(c, x) \in T
  <2> DEFINE u == SectionSpans(c)
             r == RangeOf(x)
             w == Without(c, Hollow)
  <2>1. u \in Seq(Ranges)
    BY SpansOf
  <2>2. SectionSpans(Append(c, x)) = Append(u, r) /\ r \in Ranges /\ (r \in Void <=> x \in Hollow)
    BY OneSpanMore
  <2>3. Without(u, Void) = SectionSpans(w)
    BY <1>2
  <2>4. w \in Seq(Sections) /\ Without(Append(c, x), Hollow) = IF x \in Hollow THEN w ELSE Append(w, x)
    <3>1. c \in Seq(Sections) /\ x \in Sections
      OBVIOUS
    <3>2. Without(c, Hollow) \in Seq(Sections)
      BY ONLY <3>1, WithoutIs
    <3>3. Without(Append(c, x), Hollow) = IF x \in Hollow THEN Without(c, Hollow) ELSE Append(Without(c, Hollow), x)
      BY ONLY <3>1, WithoutIs
    <3> QED BY ONLY <3>2, <3>3
  <2> HIDE DEF u, w
  <2>5. SectionSpans(Append(w, x)) = Append(SectionSpans(w), r)
    BY <2>4, OneSpanMore
  <2> HIDE DEF r
  <2>6. Without(Append(u, r), Void) = IF r \in Void THEN Without(u, Void) ELSE Append(Without(u, Void), r)
    BY <2>1, <2>2, WithoutIs
  <2>7. Append(c, x) \in Seq(Sections)
    OBVIOUS
  <2> QED BY ONLY <2>2, <2>3, <2>4, <2>5, <2>6, <2>7
<1> HIDE DEF T
<1>3. s \in T
  BY <1>1, <1>2, AlongSeq
<1>4. SectionSpans(s) \in Seq(Ranges)
  BY SpansOf
<1>5. NonEmpty(SectionSpans(s)) = Without(SectionSpans(s), Void)
  BY <1>4, NonEmptyIs
<1> QED BY <1>3, <1>5 DEF T

LEMMA FilledSize ==
  ASSUME NEW s \in Seq(Sections)
  PROVE  SizeOf(Without(s, Hollow)) = SizeOf(s)
<1> DEFINE T == {c \in Seq(Sections) : SizeOf(Without(c, Hollow)) = SizeOf(c)}
<1>0. <<>> \in Seq(Sections)
  OBVIOUS
<1>1. <<>> \in T
  <2>1. Without(<<>>, Hollow) = <<>>
    BY ONLY <1>0, WithoutIs
  <2> QED BY <1>0, <2>1
<1>2. ASSUME NEW c \in Seq(Sections), NEW x \in Sections, c \in T PROVE Append(c, x) \in T
  <2> DEFINE w == Without(c, Hollow)
  <2>1. w \in Seq(Sections) /\ Without(Append(c, x), Hollow) = IF x \in Hollow THEN w ELSE Append(w, x)
    <3>1. c \in Seq(Sections) /\ x \in Sections
      OBVIOUS
    <3>2. Without(c, Hollow) \in Seq(Sections)
      BY ONLY <3>1, WithoutIs
    <3>3. Without(Append(c, x), Hollow) = IF x \in Hollow THEN Without(c, Hollow) ELSE Append(Without(c, Hollow), x)
      BY ONLY <3>1, WithoutIs
    <3> QED BY ONLY <3>2, <3>3
  <2>2. SizeOf(w) = SizeOf(c)
    BY <1>2
  <2> HIDE DEF w
  <2>3. SizeOf(Append(w, x)) = SizeOf(w) + x.size
    BY <2>1, SizeIs
  <2>4. SizeOf(Append(c, x)) = SizeOf(c) + x.size /\ SizeOf(c) \in Nat
    BY SizeIs
  <2>5. x \in Hollow => x.size = 0
    BY DEF Hollow
  <2>6. Append(c, x) \in Seq(Sections)
    OBVIOUS
  <2>7. SizeOf(Without(Append(c, x), Hollow)) = SizeOf(Append(c, x))
    <3>1. CASE x \in Hollow
      BY ONLY <2>1, <2>2, <2>4, <2>5, <3>1
    <3>2. CASE x \notin Hollow
      BY ONLY <2>1, <2>2, <2>3, <2>4, <3>2
    <3> QED BY <3>1, <3>2
  <2> QED BY ONLY <2>6, <2>7
<1> HIDE DEF T
<1>3. s \in T
  BY <1>1, <1>2, AlongSeq
<1> QED BY <1>3 DEF T

\* What is hashed of the sections, less the ones that hold nothing.
LEMMA SectionsHashed ==
  ASSUME NEW s \in Seq(Sections)
  PROVE  /\ InFileOrder(Filled(s)) \in Seq(Sections)
         /\ NonEmpty(SectionSpans(InFileOrder(s))) = SectionSpans(InFileOrder(Filled(s)))
         /\ NonEmpty(SectionSpans(InFileOrder(Filled(s)))) = SectionSpans(InFileOrder(Filled(s)))
         /\ SizeOf(InFileOrder(Filled(s))) = SizeOf(s)
         /\ ToSet(InFileOrder(Filled(s))) = ToSet(s) \ Hollow
<1> DEFINE w == Without(s, Hollow)
           l == InFileOrder(s)
<1>1. w \in Seq(Sections) /\ Filled(s) = w
  BY WithoutIs, FilledIs
<1>2. l \in Seq(Sections)
  BY OrderedIs
<1>3. Without(l, Hollow) = InFileOrder(w)
  BY OrderLeft
<1>4. SizeOf(w) = SizeOf(s) /\ ToSet(w) = ToSet(s) \ Hollow
  BY FilledSize, ItemsLeft
<1>5. Without(w, Hollow) = w
  BY TwiceWithout
<1> HIDE DEF w, l
<1> DEFINE f == InFileOrder(w)
<1>6. f \in Seq(Sections) /\ SizeOf(f) = SizeOf(w) /\ ToSet(f) = ToSet(w)
  BY <1>1, OrderedIs
<1>7. Without(f, Hollow) = f
  <2>1. Without(InFileOrder(w), Hollow) = InFileOrder(Without(w, Hollow))
    BY <1>1, OrderLeft
  <2> QED BY <1>5, <2>1
<1> HIDE DEF f
<1>8. NonEmpty(SectionSpans(l)) = SectionSpans(Without(l, Hollow))
  BY <1>2, SpansLeft
<1>9. NonEmpty(SectionSpans(f)) = SectionSpans(Without(f, Hollow))
  BY <1>6, SpansLeft
<1> QED BY ONLY <1>1, <1>2, <1>3, <1>4, <1>6, <1>7, <1>8, <1>9 DEF f, l

Signable(im) == /\ im \in ImageRecords /\ im.len % 8 = 0
                /\ PeLayout(im) \notin {None, Raises} /\ Authenticode(im) # None
SignedFrom(signed, im, size) ==
    /\ signed.layout = PeLayout(im) /\ signed.digest = Authenticode(im)
    /\ signed.image = [im EXCEPT !.len = @ + size, !.cert_off = im.len, !.cert_size = size]

LEMMA LayoutIs ==
  ASSUME NEW im, Signable(im)
  PROVE  LET layout == PeLayout(im)
         IN  /\ layout.checksum \in Nat /\ layout.checksum > 0 /\ layout.security \in Nat
             /\ layout.checksum + 4 < layout.security /\ layout.security + 8 <= layout.headers
             /\ layout.headers = im.size_of_headers /\ layout.sections = im.sections
             /\ im.sections \in Seq(Sections) /\ im.size_of_headers \in Nat /\ im.len \in Nat
             /\ im.size_of_headers <= im.len
             /\ \A k \in DOMAIN im.sections : im.sections[k].ptr + im.sections[k].size <= im.len
             /\ Authenticode(im) = HeaderSpans(layout.checksum, layout.security, layout.headers)
                                     \o SectionSpans(InFileOrder(layout.sections))
                                     \o TrailingSpan(im, layout)
<1> DEFINE opt == im.peoff + 24
           dirs == opt + (IF im.magic = "PE32" THEN 96 ELSE 112)
           layout == PeLayout(im)
<1>1. /\ im.sections \in Seq(Sections) /\ im.size_of_headers \in Nat /\ im.len \in Nat
      /\ im.peoff \in Nat
  BY DEF Signable, ImageRecords, Sections
<1>2. layout # None /\ layout # Raises
  BY DEF Signable
<1>3. /\ layout = [checksum |-> opt + 64, security |-> dirs + 32,
                   headers |-> im.size_of_headers, sections |-> im.sections]
      /\ ~(im.size_of_headers > im.len)
      /\ ~(\E k \in DOMAIN im.sections : im.sections[k].ptr + im.sections[k].size > im.len)
  BY <1>2 DEF PeLayout
<1>4. /\ layout.checksum = opt + 64 /\ layout.security = dirs + 32
      /\ layout.headers = im.size_of_headers /\ layout.sections = im.sections
  BY ONLY <1>3
<1>5. opt \in Nat /\ (dirs = opt + 96 \/ dirs = opt + 112)
  BY <1>1
<1> HIDE DEF opt, dirs, layout
<1>6. /\ layout.checksum \in Nat /\ layout.checksum > 0 /\ layout.security \in Nat
      /\ layout.checksum + 4 < layout.security
  BY ONLY <1>4, <1>5
<1>7. \A k \in DOMAIN im.sections : im.sections[k].ptr + im.sections[k].size <= im.len
  <2>1. \A k \in DOMAIN im.sections : im.sections[k] \in Sections
    BY <1>1
  <2>2. \A x \in Sections : x.ptr \in Nat /\ x.size \in Nat
    BY DEF Sections
  <2> QED BY ONLY <1>1, <1>3, <2>1, <2>2, SMTT(30)
<1>8. Authenticode(im) # None
  BY DEF Signable
<1>9. /\ ~(layout.checksum + 4 > layout.headers \/ layout.security + 8 > layout.headers)
      /\ Authenticode(im) = HeaderSpans(layout.checksum, layout.security, layout.headers)
                                     \o SectionSpans(InFileOrder(layout.sections))
                                     \o TrailingSpan(im, layout)
  BY <1>8 DEF Authenticode, layout
<1>10. layout.security + 8 <= layout.headers /\ im.size_of_headers <= im.len
  BY ONLY <1>1, <1>3, <1>4, <1>6, <1>9
<1> QED BY ONLY <1>1, <1>4, <1>6, <1>7, <1>9, <1>10 DEF layout

LEMMA SignedFields ==
  ASSUME NEW im, Signable(im), NEW size \in Nat, NEW signed, SignedFrom(signed, im, size)
  PROVE  /\ signed.image.len = im.len + size /\ signed.image.cert_off = im.len
         /\ signed.image.cert_size = size /\ signed.image.sections = im.sections
         /\ signed.image.size_of_headers = im.size_of_headers
         /\ signed.layout = PeLayout(im) /\ signed.digest = Authenticode(im)
<1>1. im \in ImageRecords
  BY DEF Signable
<1> QED BY <1>1 DEF SignedFrom, ImageRecords

\* What is hashed: header, sections in their order, the rest.
Hashes(header, sections, rest) ==
    LET all == header \o SectionSpans(sections) \o rest
    IN  /\ all \in Seq(Ranges)
        /\ NonEmpty(all) = NonEmpty(header) \o NonEmpty(SectionSpans(sections)) \o NonEmpty(rest)
        /\ ToSet(all) = ToSet(header) \cup ToSet(SectionSpans(sections)) \cup ToSet(rest)

LEMMA PartsHashed ==
  ASSUME NEW header \in Seq(Ranges), NEW sections \in Seq(Sections), NEW rest \in Seq(Ranges)
  PROVE  Hashes(header, sections, rest)
<1> DEFINE spans == SectionSpans(sections)
           both == header \o spans
<1>1. spans \in Seq(Ranges)
  BY SpansOf
<1> HIDE DEF spans
<1>2. both \in Seq(Ranges) /\ NonEmpty(both) = NonEmpty(header) \o NonEmpty(spans)
  BY <1>1, NonEmptyJoined
<1>3. ToSet(both) = ToSet(header) \cup ToSet(spans)
  BY <1>1, ItemsJoined
<1> HIDE DEF both
<1>4. both \o rest \in Seq(Ranges) /\ NonEmpty(both \o rest) = NonEmpty(both) \o NonEmpty(rest)
  BY <1>2, NonEmptyJoined
<1>5. ToSet(both \o rest) = ToSet(both) \cup ToSet(rest)
  BY <1>2, ItemsJoined
<1> QED BY ONLY <1>2, <1>3, <1>4, <1>5 DEF spans, both, Hashes

LEMMA HeaderIs ==
  ASSUME NEW headers \in Nat, NEW checksum \in Nat, NEW security \in Nat
  PROVE  HeaderSpans(checksum, security, headers) \in Seq(Ranges)
BY DEF HeaderSpans, Span, Ranges

LEMMA RestIs ==
  ASSUME NEW from \in Nat, NEW to \in Nat
  PROVE  (IF from < to THEN <<Span(from, to)>> ELSE <<>>) \in Seq(Ranges)
BY DEF Span, Ranges

\* The digest of a signed image, part by part, and what the firmware makes of it.
LEMMA DigestIs ==
  ASSUME NEW im, Signable(im), NEW size \in Nat, NEW signed, SignedFrom(signed, im, size)
  PROVE  LET sections == im.sections
             filled == InFileOrder(Filled(sections))
             hashed == im.size_of_headers + SizeOf(sections)
             header == HeaderSpans(signed.layout.checksum, signed.layout.security, im.size_of_headers)
             rest == IF hashed < im.len THEN <<Span(hashed, im.len)>> ELSE <<>>
         IN  /\ NonEmpty(signed.digest) = NonEmpty(header) \o SectionSpans(filled) \o NonEmpty(rest)
             /\ NonEmpty(Verified(signed.image, signed.layout))
                  = NonEmpty(header) \o SectionSpans(filled) \o NonEmpty(rest)
             /\ ToSet(signed.digest) = ToSet(header) \cup ToSet(SectionSpans(InFileOrder(sections))) \cup ToSet(rest)
             /\ signed.digest \in Seq(Ranges)
<1> DEFINE sections == im.sections
           layout == signed.layout
           filled == InFileOrder(Filled(sections))
           hashed == im.size_of_headers + SizeOf(sections)
           header == HeaderSpans(layout.checksum, layout.security, im.size_of_headers)
           rest == IF hashed < im.len THEN <<Span(hashed, im.len)>> ELSE <<>>
<1>1. /\ signed.image.len = im.len + size /\ signed.image.cert_off = im.len
      /\ signed.image.cert_size = size /\ signed.image.sections = sections
      /\ signed.image.size_of_headers = im.size_of_headers
      /\ layout = PeLayout(im) /\ signed.digest = Authenticode(im)
  BY SignedFields
<1>2. /\ layout.checksum \in Nat /\ layout.security \in Nat
      /\ layout.headers = im.size_of_headers /\ layout.sections = sections
      /\ sections \in Seq(Sections) /\ im.size_of_headers \in Nat /\ im.len \in Nat
      /\ Authenticode(im) = HeaderSpans(layout.checksum, layout.security, layout.headers)
                              \o SectionSpans(InFileOrder(layout.sections))
                              \o TrailingSpan(im, layout)
  BY <1>1, LayoutIs
<1>3. SizeOf(sections) \in Nat /\ InFileOrder(sections) \in Seq(Sections)
  <2> HIDE DEF sections
  <2> QED BY <1>2, SizeIs, FileOrderIs
<1>4. /\ filled \in Seq(Sections)
      /\ NonEmpty(SectionSpans(InFileOrder(sections))) = SectionSpans(filled)
      /\ NonEmpty(SectionSpans(filled)) = SectionSpans(filled)
      /\ SizeOf(filled) = SizeOf(sections)
  <2> HIDE DEF sections
  <2> QED BY <1>2, SectionsHashed
<1>5. hashed \in Nat
  <2> HIDE DEF sections
  <2> QED BY <1>2, <1>3
<1>6. rest \in Seq(Ranges)
  <2> HIDE DEF hashed
  <2> QED BY <1>2, <1>5, RestIs
<1>7. TrailingSpan(im, layout) = rest
  BY <1>2 DEF TrailingSpan
<1>8. signed.digest = header \o SectionSpans(InFileOrder(sections)) \o rest
  BY ONLY <1>1, <1>2, <1>7
<1>9. Verified(signed.image, layout) = header \o SectionSpans(filled) \o rest
  <2> DEFINE final == im.size_of_headers + SizeOf(filled)
             after == IF final + size < im.len + size THEN <<Span(final, im.len + size - size)>> ELSE <<>>
  <2>0. final \in Nat /\ im.len \in Nat
    BY <1>2, <1>4, <1>5
  <2>1. Verified(signed.image, layout) = header \o SectionSpans(filled) \o after
    <3> DEFINE image == signed.image
    <3>1. /\ image.len = im.len + size /\ image.cert_size = size /\ image.sections = sections
          /\ image.size_of_headers = im.size_of_headers
      BY <1>1
    <3> HIDE DEF image, sections, layout
    <3> DEFINE fill == InFileOrder(Filled(image.sections))
               end == image.size_of_headers + SizeOf(fill)
    <3>2. Verified(image, layout)
            = HeaderSpans(layout.checksum, layout.security, image.size_of_headers)
                \o SectionSpans(fill)
                \o IF end + image.cert_size < image.len
                   THEN <<Span(end, image.len - image.cert_size)>> ELSE <<>>
      BY DEF Verified
    <3>3. fill = filled /\ end = final
      BY ONLY <3>1 DEF filled, final
    <3> HIDE DEF fill, end, filled, final
    <3>4. HeaderSpans(layout.checksum, layout.security, image.size_of_headers) = header
      BY ONLY <3>1 DEF header
    <3>5. (IF end + image.cert_size < image.len THEN <<Span(end, image.len - image.cert_size)>> ELSE <<>>) = after
      <4>1. /\ end = final /\ image.cert_size = size /\ image.len = im.len + size
        BY ONLY <3>1, <3>3
      <4> DEFINE n == image.len
                 c == image.cert_size
      <4>2. n = im.len + size /\ c = size
        BY <4>1
      <4> HIDE DEF n, c
      <4>3. (IF end + c < n THEN <<Span(end, n - c)>> ELSE <<>>) = after
        <5> DEFINE m == im.len
        <5>1. m \in Nat /\ final \in Nat /\ size \in Nat /\ n = m + size /\ c = size /\ end = final
          BY <2>0, <4>1, <4>2
        <5> HIDE DEF m
        <5> QED BY ONLY <5>1 DEF after, m
      <4> QED BY <4>3 DEF n, c
    <3> HIDE DEF after, header
    <3>6. Verified(image, layout) = header \o SectionSpans(filled) \o after
      BY ONLY <3>2, <3>3, <3>4, <3>5
    <3> QED BY <3>6 DEF image
  <2>2. final = hashed
    BY <1>4
  <2>3. after = rest
    <3> HIDE DEF final, hashed
    <3>1. (final + size < im.len + size <=> hashed < im.len) /\ im.len + size - size = im.len
      BY <1>2, <1>5, <2>2
    <3> QED BY <2>2, <3>1
  <2> QED BY <2>1, <2>3
<1> HIDE DEF rest, hashed, filled, sections, layout
<1> DEFINE ordered == InFileOrder(sections)
<1>10. ordered \in Seq(Sections)
  BY <1>3
<1> HIDE DEF ordered
<1>10a. header \in Seq(Ranges)
  BY <1>2, HeaderIs
<1> HIDE DEF header
<1>11. /\ signed.digest \in Seq(Ranges)
       /\ NonEmpty(signed.digest) = NonEmpty(header) \o NonEmpty(SectionSpans(ordered)) \o NonEmpty(rest)
       /\ ToSet(signed.digest) = ToSet(header) \cup ToSet(SectionSpans(ordered)) \cup ToSet(rest)
  <2>1. signed.digest = header \o SectionSpans(ordered) \o rest
    BY <1>8 DEF ordered
  <2>2. Hashes(header, ordered, rest)
    BY ONLY <1>6, <1>10, <1>10a, PartsHashed
  <2> QED BY ONLY <2>1, <2>2 DEF Hashes
<1>12. NonEmpty(Verified(signed.image, layout)) = NonEmpty(header) \o NonEmpty(SectionSpans(filled)) \o NonEmpty(rest)
  <2>1. Hashes(header, filled, rest)
    BY ONLY <1>4, <1>6, <1>10a, PartsHashed
  <2> QED BY ONLY <1>9, <2>1 DEF Hashes
<1> QED BY ONLY <1>4, <1>11, <1>12 DEF ordered, header, rest, hashed, filled, sections, layout

LEMMA VerifiesIs ==
  ASSUME NEW im, Signable(im), NEW size \in Nat, NEW signed, SignedFrom(signed, im, size)
  PROVE  Verifies(signed)
<1> DEFINE layout == signed.layout
           entry == layout.security
           sections == im.sections
           hashed == im.size_of_headers + SizeOf(sections)
           header == HeaderSpans(layout.checksum, entry, im.size_of_headers)
           rest == IF hashed < im.len THEN <<Span(hashed, im.len)>> ELSE <<>>
<1>1. /\ signed.image.cert_off = im.len /\ signed.image.sections = sections
      /\ signed.image.size_of_headers = im.size_of_headers /\ layout = PeLayout(im)
  BY SignedFields
<1>2. /\ layout.checksum \in Nat /\ layout.security \in Nat /\ layout.checksum + 4 < entry
      /\ entry + 8 <= im.size_of_headers
      /\ sections \in Seq(Sections) /\ im.size_of_headers \in Nat /\ im.len \in Nat
  BY <1>1, LayoutIs
<1>3. /\ NonEmpty(signed.digest) = NonEmpty(Verified(signed.image, layout))
      /\ ToSet(signed.digest) = ToSet(header) \cup ToSet(SectionSpans(InFileOrder(sections))) \cup ToSet(rest)
      /\ signed.digest \in Seq(Ranges)
  BY DigestIs
<1>4. im.len % 8 = 0
  BY DEF Signable
<1> DEFINE ordered == InFileOrder(sections)
<1>5. ordered \in Seq(Sections) /\ ToSet(ordered) = ToSet(sections) /\ SizeOf(sections) \in Nat
  <2> HIDE DEF sections
  <2> QED BY <1>2, OrderedIs, SizeIs
<1> SUFFICES ASSUME \A k \in DOMAIN sections : sections[k].ptr >= im.size_of_headers,
                    NEW k \in DOMAIN signed.digest
             PROVE  signed.digest[k][2] <= entry \/ signed.digest[k][1] >= entry + 8
  BY <1>1, <1>3, <1>4 DEF Verifies
<1> DEFINE r == signed.digest[k]
<1>6. r \in ToSet(signed.digest)
  BY DEF ToSet
<1>7. CASE r \in ToSet(header)
  <2>1. ToSet(header) = {Span(0, layout.checksum), Span(layout.checksum + 4, entry), Span(entry + 8, im.size_of_headers)}
    BY DEF HeaderSpans, ToSet
  <2>2. r = <<0, layout.checksum>> \/ r = <<layout.checksum + 4, entry>> \/ r = <<entry + 8, im.size_of_headers>>
    BY <1>7, <2>1 DEF Span
  <2> HIDE DEF r, layout
  <2>3. r[2] <= entry \/ r[1] >= entry + 8
    BY <1>2, <2>2
  <2> QED BY <2>3 DEF r
<1>8. CASE r \in ToSet(SectionSpans(ordered))
  <2>1. /\ SectionSpans(ordered) \in Seq(Ranges) /\ Len(SectionSpans(ordered)) = Len(ordered)
        /\ \A j \in 1..Len(ordered) : SectionSpans(ordered)[j] = RangeOf(ordered[j])
    <3> HIDE DEF ordered
    <3> QED BY <1>5, SpansOf
  <2>2. PICK j \in 1..Len(ordered) : r = RangeOf(ordered[j])
    <3> DEFINE spans == SectionSpans(ordered)
    <3>1. spans \in Seq(Ranges) /\ Len(spans) = Len(ordered)
      BY <2>1
    <3> HIDE DEF spans
    <3>2. DOMAIN spans = 1..Len(ordered)
      BY <3>1
    <3>3. \E j \in DOMAIN spans : r = spans[j]
      BY <1>8 DEF ToSet, spans
    <3> QED BY ONLY <2>1, <3>2, <3>3 DEF spans
  <2>3. ordered[j] \in ToSet(sections)
    <3> HIDE DEF ordered
    <3>1. j \in DOMAIN ordered
      BY <1>5
    <3>2. ordered[j] \in ToSet(ordered)
      BY <3>1 DEF ToSet
    <3> QED BY <1>5, <3>2
  <2>4. PICK i \in DOMAIN sections : ordered[j] = sections[i]
    BY <2>3 DEF ToSet
  <2>5. sections[i] \in Sections
    BY <1>2
  <2>6. r[1] = sections[i].ptr /\ sections[i].ptr \in Nat /\ sections[i].ptr >= im.size_of_headers
    BY <2>2, <2>4, <2>5 DEF RangeOf, Span, Sections
  <2>7. r[1] >= entry + 8
    BY ONLY <1>2, <2>6, SMTT(30)
  <2> QED BY <2>7
<1>9. CASE r \in ToSet(rest)
  <2>1. ToSet(<<>>) = {} /\ ToSet(<<Span(hashed, im.len)>>) = {Span(hashed, im.len)}
    BY DEF ToSet
  <2>2. r = Span(hashed, im.len)
    BY <1>9, <2>1
  <2>3. r[1] = hashed
    BY <2>2 DEF Span
  <2> HIDE DEF r
  <2>4. r[1] >= entry + 8
    BY ONLY <1>2, <1>5, <2>3
  <2> QED BY <2>4 DEF r
<1> QED BY <1>3, <1>6, <1>7, <1>8, <1>9

\* Ranges that go on where the one before them ends, from one offset to another.
Covers(spans, from, to, layout) ==
    IF spans = <<>> THEN from = to
    ELSE /\ spans[1][1] = from /\ GoesOnAt(spans[Len(spans)][2], layout) = to
         /\ \A k \in 1..(Len(spans) - 1) : spans[k + 1][1] = GoesOnAt(spans[k][2], layout)

LEMMA NoneOrSome ==
  ASSUME NEW S, NEW a \in Seq(S)
  PROVE  Len(a) \in Nat /\ (a = <<>> <=> Len(a) = 0) /\ (a # <<>> => Len(a) \in 1..Len(a) /\ 1 \in 1..Len(a))
OBVIOUS

LEMMA CoversJoined ==
  ASSUME NEW a \in Seq(Ranges), NEW b \in Seq(Ranges), NEW from, NEW mid, NEW to, NEW layout,
         Covers(a, from, mid, layout), Covers(b, mid, to, layout)
  PROVE  Covers(a \o b, from, to, layout)
<1> DEFINE c == a \o b
           n == Len(a)
           m == Len(b)
<1>1. a \o <<>> = a /\ <<>> \o b = b
  BY JoinedMore
<1>2. CASE a = <<>>
  BY <1>1, <1>2 DEF Covers
<1>3. CASE b = <<>>
  BY <1>1, <1>3 DEF Covers
<1>4. CASE a # <<>> /\ b # <<>>
  <2>1. /\ c \in Seq(Ranges) /\ Len(c) = n + m /\ n \in Nat /\ m \in Nat
        /\ \A k \in 1..n : c[k] = a[k]
        /\ \A k \in 1..m : c[n + k] = b[k]
    BY JoinedIs
  <2>2. n > 0 /\ m > 0
    BY <1>4, NoneOrSome
  <2> HIDE DEF c
  <2>3. c # <<>> /\ Len(c) = n + m
    BY <2>1, <2>2, NoneOrSome
  <2>4. /\ a[1][1] = from /\ GoesOnAt(a[n][2], layout) = mid
        /\ \A k \in 1..(n - 1) : a[k + 1][1] = GoesOnAt(a[k][2], layout)
    BY <1>4 DEF Covers
  <2>5. /\ b[1][1] = mid /\ GoesOnAt(b[m][2], layout) = to
        /\ \A k \in 1..(m - 1) : b[k + 1][1] = GoesOnAt(b[k][2], layout)
    BY <1>4 DEF Covers
  <2> HIDE DEF n, m
  <2>6. c[1] = a[1] /\ c[n] = a[n] /\ c[n + 1] = b[1] /\ c[n + m] = b[m]
    BY <2>1, <2>2
  <2>7. ASSUME NEW k \in 1..(n + m - 1) PROVE c[k + 1][1] = GoesOnAt(c[k][2], layout)
    <3>1. CASE k \in 1..(n - 1)
      <4>1. k \in 1..n /\ k + 1 \in 1..n
        BY <2>1, <3>1
      <4>2. c[k] = a[k] /\ c[k + 1] = a[k + 1]
        BY <2>1, <4>1
      <4> QED BY ONLY <2>4, <3>1, <4>2
    <3>2. CASE k = n
      BY <2>4, <2>5, <2>6, <3>2
    <3>3. CASE k > n
      <4> DEFINE j == k - n
      <4>1. j \in 1..m /\ j + 1 \in 1..m /\ j \in 1..(m - 1) /\ n + j = k /\ n + (j + 1) = k + 1
        BY <2>1, <3>3
      <4> HIDE DEF j
      <4>2. c[n + j] = b[j] /\ c[n + (j + 1)] = b[j + 1]
        BY ONLY <2>1, <4>1
      <4> QED BY ONLY <2>5, <4>1, <4>2
    <3> QED BY <2>1, <3>1, <3>2, <3>3
  <2>8. Covers(c, from, to, layout)
    <3>1. c[1][1] = from /\ GoesOnAt(c[Len(c)][2], layout) = to
      BY <2>3, <2>4, <2>5, <2>6
    <3>2. \A k \in 1..(Len(c) - 1) : c[k + 1][1] = GoesOnAt(c[k][2], layout)
      BY <2>1, <2>3, <2>7
    <3> QED BY ONLY <2>3, <3>1, <3>2 DEF Covers
  <2> QED BY <2>8 DEF c
<1> QED BY <1>2, <1>3, <1>4

LEMMA SpanCovers ==
  ASSUME NEW from \in Nat, NEW to \in Nat, from <= to, NEW next, NEW layout,
         from < to => GoesOnAt(to, layout) = next, from = to => next = to
  PROVE  /\ <<Span(from, to)>> \in Seq(Ranges) /\ NonEmpty(<<Span(from, to)>>) \in Seq(Ranges)
         /\ Covers(NonEmpty(<<Span(from, to)>>), from, next, layout)
         /\ from < to => NonEmpty(<<Span(from, to)>>) = <<Span(from, to)>>
<1> DEFINE r == Span(from, to)
           s == <<r>>
<1>1. r \in Ranges /\ (r \in Void <=> from >= to) /\ r[1] = from /\ r[2] = to
  BY DEF Span, Ranges, Void
<1> HIDE DEF r
<1>2. s \in Seq(Ranges) /\ Len(s) = 1 /\ s[1] = r /\ s # <<>>
  BY <1>1
<1>3. Without(s, Void) = IF r \in Void THEN <<>> ELSE s
  BY <1>1, WithoutOne
<1> HIDE DEF s
<1>4. NonEmpty(s) = Without(s, Void) /\ NonEmpty(s) \in Seq(Ranges)
  BY <1>2, NonEmptyIs
<1>5. CASE from < to
  <2>1. NonEmpty(s) = s
    BY <1>1, <1>3, <1>4, <1>5
  <2>2. Covers(s, from, next, layout)
    BY <1>1, <1>2, <1>5 DEF Covers
  <2> QED BY <1>2, <1>4, <2>1, <2>2 DEF s, r
<1>6. CASE from = to
  <2>1. NonEmpty(s) = <<>>
    BY <1>1, <1>3, <1>4, <1>6
  <2>2. Covers(<<>>, from, next, layout)
    BY <1>6 DEF Covers
  <2> QED BY <1>2, <1>4, <1>6, <2>1, <2>2 DEF s, r
<1> QED BY <1>5, <1>6

\* A layout whose checksum and security entry are in the header, in this order.
InHeader(layout, headers) ==
    /\ layout.checksum \in Nat /\ layout.checksum > 0 /\ layout.security \in Nat
    /\ layout.checksum + 4 < layout.security /\ layout.security + 8 <= headers

LEMMA HeaderCovers ==
  ASSUME NEW headers \in Nat, NEW layout, InHeader(layout, headers)
  PROVE  LET header == HeaderSpans(layout.checksum, layout.security, headers)
         IN  /\ NonEmpty(header) \in Seq(Ranges) /\ NonEmpty(header) # <<>>
             /\ Covers(NonEmpty(header), 0, headers, layout)
<1> DEFINE c == layout.checksum
           e == layout.security
           r1 == <<Span(0, c)>>
           r2 == <<Span(c + 4, e)>>
           r3 == <<Span(e + 8, headers)>>
<1>1. c \in Nat /\ c > 0 /\ e \in Nat /\ c + 4 < e /\ e + 8 <= headers
  BY DEF InHeader
<1>2. GoesOnAt(c, layout) = c + 4
  BY <1>1 DEF GoesOnAt
<1>3. GoesOnAt(e, layout) = e + 8
  BY <1>1 DEF GoesOnAt
<1>4. GoesOnAt(headers, layout) = headers
  BY <1>1 DEF GoesOnAt
<1> HIDE DEF c, e
<1>5. /\ r1 \in Seq(Ranges) /\ NonEmpty(r1) \in Seq(Ranges) /\ NonEmpty(r1) = r1
      /\ Covers(NonEmpty(r1), 0, c + 4, layout)
  <2>1. 0 \in Nat /\ 0 < c /\ 0 <= c
    BY <1>1
  <2> QED BY <1>1, <1>2, <2>1, SpanCovers
<1>6. /\ r2 \in Seq(Ranges) /\ NonEmpty(r2) \in Seq(Ranges)
      /\ Covers(NonEmpty(r2), c + 4, e + 8, layout)
  <2>1. c + 4 \in Nat /\ c + 4 < e /\ c + 4 <= e
    BY <1>1
  <2> QED BY <1>1, <1>3, <2>1, SpanCovers
<1>7. /\ r3 \in Seq(Ranges) /\ NonEmpty(r3) \in Seq(Ranges)
      /\ Covers(NonEmpty(r3), e + 8, headers, layout)
  <2>1. e + 8 \in Nat /\ e + 8 <= headers
    BY <1>1
  <2> QED BY <1>4, <2>1, SpanCovers
<1>8. HeaderSpans(c, e, headers) = (r1 \o r2) \o r3
  BY DEF HeaderSpans
<1>9. r1 # <<>>
  OBVIOUS
<1> HIDE DEF r1, r2, r3
<1> DEFINE r12 == r1 \o r2
           n12 == NonEmpty(r1) \o NonEmpty(r2)
<1>10. r12 \in Seq(Ranges) /\ NonEmpty(r12) = n12
  BY <1>5, <1>6, NonEmptyJoined
<1>11. NonEmpty(r12 \o r3) = NonEmpty(r12) \o NonEmpty(r3)
  <2> HIDE DEF r12
  <2> QED BY <1>7, <1>10, NonEmptyJoined
<1>12. n12 \in Seq(Ranges) /\ Covers(n12, 0, e + 8, layout)
  BY <1>5, <1>6, CoversJoined, JoinedIs
<1>13. n12 # <<>>
  BY <1>5, <1>6, <1>9
<1> HIDE DEF n12
<1>14. n12 \o NonEmpty(r3) \in Seq(Ranges) /\ Covers(n12 \o NonEmpty(r3), 0, headers, layout)
  BY <1>7, <1>12, CoversJoined, JoinedIs
<1>15. n12 \o NonEmpty(r3) # <<>>
  BY <1>7, <1>12, <1>13
<1>16. NonEmpty(HeaderSpans(c, e, headers)) = n12 \o NonEmpty(r3)
  BY ONLY <1>8, <1>10, <1>11
<1> QED BY ONLY <1>14, <1>15, <1>16 DEF c, e

EndOf(x) == x.ptr + x.size
Chained(l, headers) == \A k \in 1..Len(l) : l[k].ptr = IF k = 1 THEN headers ELSE EndOf(l[k - 1])

\* Sections without a gap between them.
LEMMA SectionsCover ==
  ASSUME NEW headers \in Nat, NEW layout, InHeader(layout, headers), NEW l \in Seq(Sections), Chained(l, headers)
  PROVE  /\ Covers(SectionSpans(l), headers, headers + SizeOf(l), layout)
         /\ l # <<>> => headers + SizeOf(l) = EndOf(l[Len(l)])
<1> DEFINE Good(c) == /\ Covers(SectionSpans(c), headers, headers + SizeOf(c), layout)
                      /\ c # <<>> => headers + SizeOf(c) = EndOf(c[Len(c)])
           T == {c \in Seq(Sections) : Chained(c, headers) => Good(c)}
<1>0. <<>> \in Seq(Sections)
  OBVIOUS
<1>1. <<>> \in T
  <2>1. SectionSpans(<<>>) = <<>> /\ SizeOf(<<>>) = 0
    BY ONLY <1>0, SpansOf, SizeIs
  <2>2. Covers(<<>>, headers, headers + 0, layout)
    BY DEF Covers
  <2> QED BY <1>0, <2>1, <2>2
<1>2. ASSUME NEW c \in Seq(Sections), NEW x \in Sections, c \in T PROVE Append(c, x) \in T
  <2> DEFINE t == Append(c, x)
             n == Len(c)
  <2>1. /\ t \in Seq(Sections) /\ Len(t) = n + 1 /\ n \in Nat /\ t[n + 1] = x /\ n + 1 \in 1..(n + 1)
        /\ \A k \in 1..n : t[k] = c[k] /\ k \in 1..(n + 1)
    BY ItemsBefore
  <2>2. SectionSpans(t) = Append(SectionSpans(c), RangeOf(x)) /\ RangeOf(x) \in Ranges
    BY OneSpanMore
  <2>3. SizeOf(t) = SizeOf(c) + x.size /\ SizeOf(c) \in Nat
    BY SizeIs
  <2>4. SectionSpans(c) \in Seq(Ranges)
    BY SpansOf
  <2> HIDE DEF t
  <2> SUFFICES ASSUME Chained(t, headers) PROVE Good(t)
    BY <2>1 DEF t
  <2>5. x.ptr \in Nat /\ x.size \in Nat
    BY DEF Sections
  <2>6. Chained(c, headers)
    <3> SUFFICES ASSUME NEW k \in 1..n PROVE c[k].ptr = IF k = 1 THEN headers ELSE EndOf(c[k - 1])
      BY DEF Chained
    <3>1. t[k].ptr = IF k = 1 THEN headers ELSE EndOf(t[k - 1])
      BY <2>1 DEF Chained
    <3>2. t[k] = c[k] /\ (k # 1 => t[k - 1] = c[k - 1])
      BY <2>1
    <3> QED BY ONLY <3>1, <3>2
  <2>7. Good(c)
    BY <1>2, <2>6
  <2>8. x.ptr = headers + SizeOf(c)
    <3>1. t[n + 1].ptr = IF n + 1 = 1 THEN headers ELSE EndOf(t[n + 1 - 1])
      BY <2>1 DEF Chained
    <3>2. CASE c = <<>>
      <4>1. n = 0 /\ SizeOf(c) = 0
        BY <1>0, <3>2, SizeIs
      <4> QED BY ONLY <2>1, <3>1, <4>1
    <3>3. CASE c # <<>>
      <4>1. n \in 1..n /\ n + 1 # 1 /\ n + 1 - 1 = n
        BY <3>3, NoneOrSome
      <4>2. t[n] = c[n]
        BY <2>1, <4>1
      <4>3. headers + SizeOf(c) = EndOf(c[n])
        BY <2>7, <3>3
      <4> QED BY ONLY <2>1, <3>1, <4>1, <4>2, <4>3
    <3> QED BY <3>2, <3>3
  <2>9. headers + SizeOf(t) = EndOf(x)
    BY <2>3, <2>5, <2>8 DEF EndOf
  <2> DEFINE r == RangeOf(x)
             one == <<r>>
             spans == SectionSpans(c)
  <2>10. r[1] = x.ptr /\ r[2] = EndOf(x)
    BY DEF RangeOf, Span, EndOf
  <2>11. GoesOnAt(EndOf(x), layout) = EndOf(x)
    <3>1. EndOf(x) >= headers /\ EndOf(x) \in Nat
      BY <2>3, <2>5, <2>8 DEF EndOf
    <3> QED BY <3>1 DEF GoesOnAt, InHeader
  <2> HIDE DEF r
  <2>12. one \in Seq(Ranges) /\ Len(one) = 1 /\ one[1] = r /\ one # <<>> /\ spans \o one = SectionSpans(t)
    <3>1. r \in Ranges
      BY <2>2 DEF r
    <3>2. SectionSpans(t) = Append(spans, r)
      BY <2>2 DEF r
    <3> HIDE DEF spans
    <3>3. spans \in Seq(Ranges)
      BY <2>4 DEF spans
    <3> QED BY <3>1, <3>2, <3>3
  <2> HIDE DEF one, spans
  <2>13. Covers(one, headers + SizeOf(c), headers + SizeOf(t), layout)
    BY <2>8, <2>9, <2>10, <2>11, <2>12 DEF Covers
  <2>14. Covers(spans, headers, headers + SizeOf(c), layout)
    BY <2>7 DEF spans
  <2>15. spans \in Seq(Ranges)
    BY <2>4 DEF spans
  <2>16. Covers(spans \o one, headers, headers + SizeOf(t), layout)
    BY ONLY <2>12, <2>13, <2>14, <2>15, CoversJoined
  <2> QED BY ONLY <2>1, <2>9, <2>12, <2>16
<1> HIDE DEF T
<1>3. l \in T
  BY <1>1, <1>2, AlongSeq
<1> QED BY <1>3 DEF T

\* Sections that begin where the header or another one ends, no two of them at the
\* same place, follow one another.
LEMMA FollowOneAnother ==
  ASSUME NEW headers \in Nat, NEW l \in Seq(Sections), Ordered(l, 1),
         \A k \in 1..Len(l) : l[k].size > 0,
         \A k \in 1..Len(l) : l[k].ptr = headers \/ \E j \in 1..Len(l) : l[k].ptr = EndOf(l[j])
  PROVE  Chained(l, headers)
<1> DEFINE n == Len(l)
<1>1. n \in Nat /\ \A k \in 1..n : l[k].ptr \in Nat /\ l[k].size \in Nat /\ EndOf(l[k]) > l[k].ptr
  <2>1. \A k \in 1..n : l[k] \in Sections
    OBVIOUS
  <2>2. \A x \in Sections : x.ptr \in Nat /\ x.size \in Nat
    BY DEF Sections
  <2>3. \A x \in Sections : x.size > 0 => EndOf(x) > x.ptr
    BY <2>2 DEF EndOf
  <2> QED BY <2>1, <2>2, <2>3
<1>2. \A i, j \in 1..n : i < j => l[i].ptr < l[j].ptr
  BY <1>1 DEF Ordered
<1> DEFINE Off == {k \in 1..n : l[k].ptr # IF k = 1 THEN headers ELSE EndOf(l[k - 1])}
<1>3. Off = {}
  <2> SUFFICES ASSUME Off # {} PROVE FALSE
    OBVIOUS
  <2>1. PICK k \in Off : \A j \in Off : k <= j
    <3>1. Off \subseteq Nat /\ \E k \in Off : TRUE
      OBVIOUS
    <3> HIDE DEF Off
    <3> QED BY <3>1, HasLeast
  <2>2. k \in 1..n /\ l[k].ptr # (IF k = 1 THEN headers ELSE EndOf(l[k - 1]))
    OBVIOUS
  <2>3. \A j \in 1..n : j < k => l[j].ptr = IF j = 1 THEN headers ELSE EndOf(l[j - 1])
    BY <2>1
  <2> HIDE DEF Off, n
  <2>4. CASE l[k].ptr = headers
    <3>1. k # 1 /\ 1 \in 1..n /\ 1 < k
      BY <1>1, <2>2, <2>4
    <3>2. l[1].ptr = headers
      BY <2>3, <3>1
    <3>3. l[1].ptr < l[k].ptr
      BY <1>2, <2>2, <3>1
    <3> QED BY <1>1, <2>2, <2>4, <3>1, <3>2, <3>3
  <2>5. CASE \E j \in 1..n : l[k].ptr = EndOf(l[j])
    <3>1. PICK j \in 1..n : l[k].ptr = EndOf(l[j])
      BY <2>5
    <3>2. l[j].ptr < l[k].ptr
      BY <1>1, <3>1
    <3>3. j < k
      <4>1. ~(k < j) /\ k # j
        BY <1>1, <1>2, <2>2, <3>2
      <4> QED BY <1>1, <2>2, <4>1
    <3>4. k # 1
      BY <1>1, <2>2, <3>3
    <3>5. j # k - 1
      BY <2>2, <3>1, <3>4
    <3>6. j + 1 \in 1..n /\ j + 1 < k /\ j + 1 # 1 /\ j + 1 - 1 = j
      BY <1>1, <2>2, <3>3, <3>5
    <3>7. l[j + 1].ptr = EndOf(l[j])
      BY <2>3, <3>6
    <3>8. l[j + 1].ptr < l[k].ptr
      BY <1>2, <2>2, <3>6
    <3> QED BY <1>1, <2>2, <3>1, <3>7, <3>8
  <2> QED BY <2>2, <2>4, <2>5 DEF n
<1> QED BY <1>3 DEF Chained

\* No two full sections of a file at the same place.
Apart(s) == \A j, k \in 1..Len(s) : s[j].size > 0 /\ s[k].size > 0 /\ s[j].ptr = s[k].ptr => j = k

LEMMA ApartAscend ==
  ASSUME NEW s \in Seq(Sections), Apart(s)
  PROVE  Ordered(InFileOrder(Without(s, Hollow)), 1)
<1> DEFINE T == {c \in Seq(Sections) : Apart(c) => Ordered(InFileOrder(Without(c, Hollow)), 1)}
<1>0. <<>> \in Seq(Sections) /\ Len(<<>>) = 0
  OBVIOUS
<1>1. <<>> \in T
  <2>1. Without(<<>>, Hollow) = <<>>
    BY ONLY <1>0, WithoutIs
  <2>2. InFileOrder(<<>>) = <<>>
    BY ONLY <1>0, FileOrderIs
  <2>3. Ordered(<<>>, 1)
    BY <1>0 DEF Ordered
  <2> QED BY <1>0, <2>1, <2>2, <2>3
<1>2. ASSUME NEW c \in Seq(Sections), NEW x \in Sections, c \in T PROVE Append(c, x) \in T
  <2> DEFINE t == Append(c, x)
             n == Len(c)
             w == Without(c, Hollow)
             l == InFileOrder(w)
  <2>1. /\ t \in Seq(Sections) /\ Len(t) = n + 1 /\ n \in Nat /\ t[n + 1] = x /\ n + 1 \in 1..(n + 1)
        /\ \A k \in 1..n : t[k] = c[k] /\ k \in 1..(n + 1)
    BY ItemsBefore
  <2>2. w \in Seq(Sections)
    BY WithoutIs
  <2>3. Without(t, Hollow) = IF x \in Hollow THEN w ELSE Append(w, x)
    <3>1. c \in Seq(Sections) /\ x \in Sections
      OBVIOUS
    <3>2. Without(Append(c, x), Hollow) = IF x \in Hollow THEN Without(c, Hollow) ELSE Append(Without(c, Hollow), x)
      BY ONLY <3>1, WithoutMore
    <3> QED BY <3>2
  <2>4. ToSet(w) = ToSet(c) \ Hollow
    BY ItemsLeft
  <2> HIDE DEF t, w
  <2>5. l \in Seq(Sections) /\ ToSet(l) = ToSet(w)
    BY <2>2, OrderedIs
  <2>6. InFileOrder(Append(w, x)) = Inserted(x, l)
    BY <2>2, FileOrderIs
  <2> HIDE DEF l
  <2> SUFFICES ASSUME Apart(t) PROVE Ordered(InFileOrder(Without(t, Hollow)), 1)
    BY <2>1 DEF t
  <2>7. Apart(c)
    BY <2>1 DEF Apart
  <2>8. Ordered(l, 1)
    BY <1>2, <2>7 DEF l, w
  <2>9. CASE x \in Hollow
    BY <2>3, <2>8, <2>9 DEF l
  <2>10. CASE x \notin Hollow
    <3>1. x.size > 0 /\ x.ptr \in Nat
      BY <2>10 DEF Hollow, Sections
    <3>2. ASSUME NEW k \in 1..Len(l), l[k].ptr <= x.ptr PROVE l[k].ptr + 1 <= x.ptr
      <4>1. l[k] \in ToSet(l)
        BY <2>5 DEF ToSet
      <4>2. PICK j \in 1..n : l[k] = c[j] /\ l[k] \notin Hollow
        <5>1. l[k] \in ToSet(c) \ Hollow
          BY <2>4, <2>5, <4>1
        <5> QED BY <5>1 DEF ToSet
      <4>3. l[k] \in Sections
        BY <2>5
      <4>4. l[k].size > 0 /\ l[k].ptr \in Nat
        BY <4>2, <4>3, SMTT(30) DEF Hollow, Sections
      <4>5. t[j] = l[k] /\ t[n + 1] = x /\ j \in 1..Len(t) /\ n + 1 \in 1..Len(t) /\ j # n + 1
        BY <2>1, <4>2
      <4>6. l[k].ptr # x.ptr
        BY <3>1, <4>4, <4>5 DEF Apart
      <4> QED BY <3>1, <3>2, <4>4, <4>6
    <3>3. 1 \in 0..1
      OBVIOUS
    <3>4. Ordered(Inserted(x, l), 1)
      BY ONLY <2>5, <2>8, <3>2, <3>3, x \in Sections, OrderKept
    <3> QED BY <2>3, <2>6, <2>10, <3>4
  <2> QED BY <2>9, <2>10
<1> HIDE DEF T
<1>3. s \in T
  BY <1>1, <1>2, AlongSeq
<1> QED BY <1>3 DEF T

LEMMA ByEight ==
  ASSUME NEW n \in Nat
  PROVE  PadTo8(n) \in Nat /\ PadTo8(n) % 8 = 0
<1>1. -n % 8 \in 0..7
  OBVIOUS
<1>2. (n + (-n % 8)) % 8 = 0
  OBVIOUS
<1> QED BY <1>1, <1>2 DEF PadTo8

LEMMA HashedOnceIs ==
  ASSUME NEW im, Signable(im), NEW size \in Nat, NEW signed, SignedFrom(signed, im, size)
  PROVE  HashedOnce(signed)
<1> SUFFICES ASSUME Contiguous(signed.image)
             PROVE  LET spans == NonEmpty(signed.digest)
                    IN  /\ spans # <<>> /\ spans[1][1] = 0
                        /\ GoesOnAt(Last(spans)[2], signed.layout) = signed.image.cert_off
                        /\ \A k \in 1..Len(spans) - 1 : spans[k + 1][1] = GoesOnAt(spans[k][2], signed.layout)
  BY DEF HashedOnce
<1> DEFINE layout == signed.layout
           sections == im.sections
           headers == im.size_of_headers
           filled == InFileOrder(Filled(sections))
           hashed == headers + SizeOf(sections)
           header == HeaderSpans(layout.checksum, layout.security, headers)
           rest == IF hashed < im.len THEN <<Span(hashed, im.len)>> ELSE <<>>
           full == {k \in DOMAIN sections : sections[k].size > 0}
<1>1. /\ signed.image.cert_off = im.len /\ signed.image.sections = sections
      /\ signed.image.size_of_headers = headers /\ layout = PeLayout(im)
  BY SignedFields
<1>2. /\ InHeader(layout, headers)
      /\ sections \in Seq(Sections) /\ headers \in Nat /\ im.len \in Nat /\ headers <= im.len
      /\ \A k \in DOMAIN sections : EndOf(sections[k]) <= im.len
  BY <1>1, LayoutIs DEF InHeader, EndOf
<1>3. NonEmpty(signed.digest) = NonEmpty(header) \o SectionSpans(filled) \o NonEmpty(rest)
  BY DigestIs
<1>4. /\ \A k \in full : sections[k].ptr = headers \/ \E j \in full : sections[k].ptr = EndOf(sections[j])
      /\ \A j, k \in full : sections[j].ptr = sections[k].ptr => j = k
  <2> DEFINE image == signed.image
  <2>1. Contiguous(image) /\ image.sections = sections /\ image.size_of_headers = headers
    BY <1>1
  <2> HIDE DEF image, sections, headers
  <2> QED BY ONLY <2>1 DEF Contiguous, EndOf, full
<1> HIDE DEF header, rest, filled, headers, layout
<1>5. DOMAIN sections = 1..Len(sections) /\ \A k \in 1..Len(sections) : sections[k] \in Sections
  BY <1>2
<1> HIDE DEF sections
<1>6. Apart(sections)
  BY <1>4, <1>5 DEF Apart
<1>7. /\ filled \in Seq(Sections) /\ SizeOf(filled) = SizeOf(sections)
      /\ ToSet(filled) = ToSet(sections) \ Hollow /\ SizeOf(sections) \in Nat
  BY <1>2, SectionsHashed, SizeIs DEF filled
<1>8. Ordered(filled, 1)
  <2>1. Filled(sections) = Without(sections, Hollow)
    BY <1>2, FilledIs
  <2>2. Ordered(InFileOrder(Without(sections, Hollow)), 1)
    BY <1>2, <1>6, ApartAscend
  <2> QED BY ONLY <2>1, <2>2 DEF filled
<1>9. ASSUME NEW k \in 1..Len(filled) PROVE \E i \in full : filled[k] = sections[i]
  <2>1. filled[k] \in ToSet(filled)
    BY <1>7 DEF ToSet
  <2>2. PICK i \in DOMAIN sections : filled[k] = sections[i] /\ sections[i] \notin Hollow
    BY <1>7, <2>1 DEF ToSet
  <2>3. sections[i].size > 0
    BY <1>5, <2>2 DEF Hollow, Sections
  <2> QED BY <2>2, <2>3
<1>10. ASSUME NEW i \in full PROVE \E k \in 1..Len(filled) : filled[k] = sections[i]
  <2>1. sections[i] \in ToSet(sections) /\ sections[i] \notin Hollow
    BY DEF ToSet, Hollow
  <2>2. sections[i] \in ToSet(filled)
    BY <1>7, <2>1
  <2> QED BY <1>7, <2>2 DEF ToSet
<1>11. \A k \in 1..Len(filled) : filled[k].size > 0
  BY <1>9
<1>12. ASSUME NEW k \in 1..Len(filled)
       PROVE  filled[k].ptr = headers \/ \E j \in 1..Len(filled) : filled[k].ptr = EndOf(filled[j])
  <2>1. PICK i \in full : filled[k] = sections[i]
    BY <1>9
  <2>2. CASE sections[i].ptr = headers
    BY <2>1, <2>2
  <2>3. CASE \E j \in full : sections[i].ptr = EndOf(sections[j])
    <3>1. PICK j \in full : sections[i].ptr = EndOf(sections[j])
      BY <2>3
    <3>2. PICK m \in 1..Len(filled) : filled[m] = sections[j]
      BY <1>10
    <3> QED BY <2>1, <3>1, <3>2
  <2> QED BY <1>4, <2>2, <2>3
<1>13. Chained(filled, headers)
  BY <1>2, <1>7, <1>8, <1>11, <1>12, FollowOneAnother
<1>14. /\ Covers(SectionSpans(filled), headers, hashed, layout)
       /\ filled # <<>> => hashed = EndOf(filled[Len(filled)])
  <2>1. /\ Covers(SectionSpans(filled), headers, headers + SizeOf(filled), layout)
        /\ filled # <<>> => headers + SizeOf(filled) = EndOf(filled[Len(filled)])
    BY <1>2, <1>7, <1>13, SectionsCover
  <2> QED BY <1>7, <2>1
<1>15. hashed \in Nat /\ hashed >= headers
  BY <1>2, <1>7
<1>16. hashed <= im.len
  <2>1. CASE filled = <<>>
    <3>1. SizeOf(filled) = 0
      <4>1. SizeOf(<<>>) = 0
        BY <1>7, SizeIs
      <4> QED BY <2>1, <4>1
    <3> QED BY <1>2, <1>7, <3>1
  <2>2. CASE filled # <<>>
    <3>1. Len(filled) \in 1..Len(filled)
      BY <1>7, <2>2, NoneOrSome
    <3>2. PICK i \in full : filled[Len(filled)] = sections[i]
      BY <1>9, <3>1
    <3>3. EndOf(sections[i]) <= im.len
      BY <1>2
    <3> QED BY ONLY <1>14, <2>2, <3>2, <3>3
  <2> QED BY <2>1, <2>2
<1> HIDE DEF hashed, full
<1>17. NonEmpty(rest) \in Seq(Ranges) /\ Covers(NonEmpty(rest), hashed, im.len, layout)
  <2>1. CASE hashed < im.len
    <3>1. GoesOnAt(im.len, layout) = im.len
      BY <1>2, <1>15, <2>1 DEF GoesOnAt, InHeader
    <3>2. /\ NonEmpty(<<Span(hashed, im.len)>>) \in Seq(Ranges)
          /\ Covers(NonEmpty(<<Span(hashed, im.len)>>), hashed, im.len, layout)
      BY <1>2, <1>15, <1>16, <3>1, SpanCovers
    <3> QED BY <2>1, <3>2 DEF rest
  <2>2. CASE ~(hashed < im.len)
    <3>1. hashed = im.len /\ rest = <<>>
      BY <1>2, <1>15, <1>16, <2>2 DEF rest
    <3>2. NonEmpty(<<>>) = <<>> /\ <<>> \in Seq(Ranges)
      <4>1. <<>> \in Seq(Ranges)
        OBVIOUS
      <4>2. NonEmpty(<<>>) = Without(<<>>, Void) /\ Without(<<>>, Void) = <<>>
        BY ONLY <4>1, NonEmptyIs, WithoutIs
      <4> QED BY <4>1, <4>2
    <3> QED BY <3>1, <3>2 DEF Covers
  <2> QED BY <2>1, <2>2
<1>18. /\ NonEmpty(header) \in Seq(Ranges) /\ NonEmpty(header) # <<>>
       /\ Covers(NonEmpty(header), 0, headers, layout)
  BY <1>2, HeaderCovers DEF header
<1>19. SectionSpans(filled) \in Seq(Ranges)
  BY <1>7, SpansOf
<1> DEFINE h == NonEmpty(header)
           s == SectionSpans(filled)
           r == NonEmpty(rest)
<1> HIDE DEF h, s, r
<1>20. /\ h \in Seq(Ranges) /\ h # <<>> /\ s \in Seq(Ranges) /\ r \in Seq(Ranges)
       /\ Covers(h, 0, headers, layout) /\ Covers(s, headers, hashed, layout) /\ Covers(r, hashed, im.len, layout)
  BY <1>14, <1>17, <1>18, <1>19 DEF h, s, r
<1> DEFINE hs == h \o s
           all == hs \o r
<1>21. hs \in Seq(Ranges) /\ hs # <<>>
  BY <1>20
<1>22. Covers(hs, 0, hashed, layout)
  BY <1>20, CoversJoined
<1> HIDE DEF hs
<1>23. all \in Seq(Ranges) /\ all # <<>>
  BY <1>20, <1>21
<1>24. Covers(all, 0, im.len, layout)
  BY <1>20, <1>21, <1>22, CoversJoined
<1>25. NonEmpty(signed.digest) = all
  BY <1>3 DEF h, s, r, hs
<1> HIDE DEF all
<1>26. /\ all[1][1] = 0 /\ GoesOnAt(Last(all)[2], layout) = im.len
       /\ \A k \in 1..Len(all) - 1 : all[k + 1][1] = GoesOnAt(all[k][2], layout)
  BY <1>23, <1>24 DEF Covers, Last
<1> QED BY <1>1, <1>23, <1>25, <1>26 DEF layout
-----------------------------------------------------------------------------
(***************************************************************************)
(* The inductive invariant: what the files hold and where keys are; what a *)
(* call holds between two steps; and, as long as no other program wrote a  *)
(* file of the call, that the key and the certificate still match, and that*)
(* the result of an earlier conversion is still gone.                      *)
(***************************************************************************)
Kinds == {"absent", "key", "cert", "esl", "image", "signed"}
SignedImage(signed) == \E im : \E size \in Nat : Signable(im) /\ SignedFrom(signed, im, size)
File(content) ==
    /\ content.kind \in Kinds
    /\ content.kind = "absent" => content = Absent
    /\ content.kind = "key" => content \in {KeyFile(k) : k \in Keys}
    /\ content.kind = "cert" => content \in Certs("pem") \cup Certs("der")
    /\ content.kind = "image" => content.image \in ImageRecords
    /\ content.kind = "signed" => content.cert \in Certs("der") /\ content.by \in Keys /\ SignedImage(content)
Placed(path, content) == IF path.name = "pvt.pem" THEN content.kind \in {"absent", "key"}
                         ELSE content.kind # "key"

Store == /\ DOMAIN files = Paths
         /\ \A path \in Paths : File(files[path]) /\ Placed(path, files[path])
         /\ used \subseteq Keys

Labels == {"idle", "called", "request", "openssl", "write", "sign_cert", "sbsign", "sbsign_cert",
           "sbsign_key"}
Signing == {"sign_cert", "sbsign", "sbsign_cert", "sbsign_key"}
Holds(label, c, content) ==
    /\ label # "idle" => c \in Commands
    /\ label = "request" => c.op = "request" /\ content \in {KeyFile(k) : k \in Keys}
    /\ label = "openssl" => c.op = "pem_to_der" /\ OutOf(c) # None
    /\ label = "write" => /\ c.op \in {"pem_make", "keypair_make", "make_esl", "sign"}
                          /\ OutOf(c) # None /\ File(content) /\ content.kind # "key"
    /\ label \in Signing => c.op = "sign" /\ OutOf(c) # None
    /\ label = "sign_cert" => content \in {KeyFile(k) : k \in Keys}
    /\ label = "sbsign_cert" => Signable(content.image)
    /\ label = "sbsign_key" => content.cert \in Certs("der") /\ Signable(content.image)
Programs == /\ pc \in [Procs -> Labels]
            /\ cmd \in [Procs -> Commands \cup {NoCommand}]
            /\ calls \in 0..MaxCalls
            /\ disturbed \in [Procs -> BOOLEAN]
            /\ DOMAIN held = Procs /\ DOMAIN result = Procs
            /\ \A p \in Procs : Holds(pc[p], cmd[p], held[p])

\* The key of a call's key file and that of its certificate, as the files store holds.
Matched(store, label, c, content) ==
    /\ label = "sign_cert" => store[c.key].key = content.key
    /\ label \in {"sbsign", "sbsign_cert"} => store[c.src].key = store[c.key].key
    /\ label = "sbsign_key" => content.cert.key = store[c.key].key
    /\ label = "write" /\ c.op = "sign" => content.by = content.cert.key
    /\ label = "openssl" => store[OutOf(c)] = Absent
Undisturbed == \A p \in Procs : ~disturbed[p] => Matched(files, pc[p], cmd[p], held[p])

IInv == Store /\ Programs /\ Undisturbed

LEMMA OutOfIs ==
  ASSUME NEW c \in Commands, OutOf(c) # None, c.op # "pkey"
  PROVE  OutOf(c) \in Paths /\ OutOf(c).name # "pvt.pem"
<1>1. /\ c.op \in Ops /\ c.key \in Paths \cup {None} /\ c.src \in Paths \cup {None}
      /\ c.image \in Paths \cup {None}
      /\ c.out = None \/ c.out.dir \notin Dirs \/ c.out \in OutPaths
      /\ c.op \in {"request", "pkey", "keypair_make", "sign"} => c.key # None
      /\ c.op \notin {"request", "pkey", "keypair_make"} => c.src # None
      /\ c.op = "sign" => c.image # None
  BY CommandsAssumption
<1>2. ASSUME NEW path \in Paths, NEW name \in Names \ {"pvt.pem"}, FixPathOut(path, c.out, name) # None
      PROVE  FixPathOut(path, c.out, name) \in Paths /\ FixPathOut(path, c.out, name).name # "pvt.pem"
  <2>1. ASSUME NEW dir \in Dirs, NEW n \in Names \ {"pvt.pem"}
        PROVE  Path(dir, n) \in Paths /\ Path(dir, n).name # "pvt.pem"
    BY DEF Paths, Path
  <2>2. path.dir \in Dirs
    BY DEF Paths, Path
  <2>3. CASE c.out = None
    BY <2>1, <2>2, <2>3 DEF FixPathOut
  <2>4. CASE c.out # None /\ c.out.dir \notin Dirs
    BY <1>2, <2>4 DEF FixPathOut
  <2>5. CASE c.out # None /\ c.out.dir \in Dirs
    <3>1. PICK dir \in Dirs, n \in (Names \ {"pvt.pem"}) \cup {"directory"} : c.out = Path(dir, n)
      BY <1>1, <2>5 DEF OutPaths
    <3>2. c.out.dir = dir /\ c.out.name = n
      BY <3>1 DEF Path
    <3>3. FixPathOut(path, c.out, name) = IF n = "directory" THEN Path(dir, name) ELSE Path(dir, n)
      BY <2>5, <3>1, <3>2 DEF FixPathOut
    <3> QED BY <2>1, <3>3
  <2> QED BY <2>3, <2>4, <2>5
<1>3. /\ "der" \in Names \ {"pvt.pem"} /\ "from_certder.pem" \in Names \ {"pvt.pem"}
      /\ "pvt.der" \in Names \ {"pvt.pem"} /\ "esl" \in Names \ {"pvt.pem"} /\ "signed" \in Names \ {"pvt.pem"}
  BY DEF Names
<1>4. CASE c.op \in {"pem_to_der", "pem_make"}
  BY <1>1, <1>2, <1>3, <1>4 DEF OutOf
<1>5. CASE c.op = "der_to_pem"
  BY <1>1, <1>2, <1>3, <1>5 DEF OutOf
<1>6. CASE c.op = "keypair_make"
  BY <1>1, <1>2, <1>3, <1>6 DEF OutOf
<1>7. CASE c.op = "make_esl"
  BY <1>1, <1>2, <1>3, <1>7 DEF OutOf
<1>8. CASE c.op = "sign"
  BY <1>1, <1>2, <1>3, <1>8 DEF OutOf
<1>9. CASE c.op \in {"request", "read_certder", "get_pubkey"}
  BY <1>9 DEF OutOf
<1> QED BY <1>1, <1>4, <1>5, <1>6, <1>7, <1>8, <1>9 DEF Ops

LEMMA PieceOf ==
  ASSUME NEW S, NEW s \in Seq(S), NEW a \in Nat, NEW b \in Nat, 1 <= a, b <= Len(s)
  PROVE  SubSeq(s, a, b) \in Seq(S)
OBVIOUS

\* What is no certificate has no key that from_x509_certder_get_pubkey finds.
LEMMA NoDerHasNoKey == GetPubkey(NoDer) = None
<1>1. NoDer \in Seq(Byte) /\ Len(NoDer) = 60 /\ NoDer[1] = 45 /\ NoDer[2] = 45
  BY DEF NoDer, Filler, Byte
<1>2. ~LongForm(NoDer, 0)
  BY <1>1 DEF LongForm
<1>3. CountOf(NoDer, 0) = 0
  BY <1>2 DEF CountOf
<1>4. ContentAt(NoDer, 0) = 2
  BY <1>3 DEF ContentAt
<1>5. ContentEnd(NoDer, 0) = 47
  BY <1>1, <1>2, <1>4 DEF ContentEnd, ContentSize
<1>6. ReadTlv(NoDer, 0) = [tag |-> 45, end |-> 47, value |-> SubSeq(NoDer, 3, 47)]
  <2>1. /\ ~(0 + 2 > Len(NoDer)) /\ ~(ContentAt(NoDer, 0) > Len(NoDer)) /\ ~(ContentEnd(NoDer, 0) > Len(NoDer))
        /\ NoDer[0 + 1] = 45 /\ ContentAt(NoDer, 0) + 1 = 3
    BY <1>1, <1>4, <1>5
  <2> QED BY <1>2, <1>5, <2>1 DEF ReadTlv
<1>7. PICK value \in Seq(Byte) : value = SubSeq(NoDer, 3, 47)
  <2>1. 3 \in Nat /\ 47 \in Nat /\ 1 <= 3 /\ 47 <= Len(NoDer) /\ NoDer \in Seq(Byte)
    BY <1>1
  <2>2. SubSeq(NoDer, 3, 47) \in Seq(Byte)
    BY ONLY <2>1, PieceOf
  <2> QED BY ONLY <2>2
<1>8. PICK cert \in Tlvs : cert = ReadTlv(NoDer, 0) /\ cert.tag = 45
  <2>1. 45 \in Byte /\ 47 \in Nat
    BY DEF Byte
  <2>2. PICK r : r = [tag |-> 45, end |-> 47, value |-> value]
    OBVIOUS
  <2>3. r \in Tlvs /\ r.tag = 45
    BY <2>1, <2>2 DEF Tlvs
  <2> QED BY <1>6, <1>7, <2>2, <2>3
<1>9. ~Failed(cert)
  BY NotFailed
<1> QED BY <1>8, <1>9 DEF GetPubkey, Bind

LEMMA PubkeyIs ==
  ASSUME NEW content, File(content)
  PROVE  /\ IsDer(content) => PubkeyOf(content) = content.key
         /\ PubkeyOf(content) \notin {None, Raises} => IsDer(content) /\ PubkeyOf(content) = content.key
<1>1. IsDer(content) => PubkeyOf(content) = content.key
  <2> HAVE IsDer(content)
  <2>1. PICK k \in Keys, shape \in Shapes, form \in {"der", "pem"} : content = CertFile(k, shape, form)
    BY DEF File, IsDer, Certs
  <2>2. content.key = k /\ content.shape = shape /\ content.kind # "absent"
    BY <2>1 DEF CertFile
  <2> QED BY <2>2, KeyOfIs DEF PubkeyOf
<1>2. ~IsDer(content) => PubkeyOf(content) \in {None, Raises}
  BY NoDerHasNoKey DEF PubkeyOf
<1> QED BY <1>1, <1>2
-----------------------------------------------------------------------------
(***************************************************************************)
(* What a step does to the invariant: it moves its own call on, and writes *)
(* one file or none.                                                       *)
(***************************************************************************)
\* A file that a call does not use makes no difference to it.
LEMMA StillMatched ==
  ASSUME NEW f, DOMAIN f = Paths, NEW path, NEW new, NEW label, NEW c, NEW content,
         Holds(label, c, content), path \notin {c.key, c.src, OutOf(c)}, Matched(f, label, c, content)
  PROVE  Matched([f EXCEPT ![path] = new], label, c, content)
<1> DEFINE g == [f EXCEPT ![path] = new]
<1>1. \A other \in Paths : other # path => g[other] = f[other]
  OBVIOUS
<1>2. label \in Signing \cup {"write"} /\ c.op = "sign" => c.key \in Paths /\ c.src \in Paths
  <2>1. label \in Signing \cup {"write"} => c \in Commands
    BY DEF Holds, Signing
  <2> QED BY <2>1, CommandsAssumption
<1>3. label \in Signing => c.op = "sign"
  BY DEF Holds
<1>4. label = "openssl" => OutOf(c) \in Paths
  <2>1. label = "openssl" => c \in Commands /\ OutOf(c) # None /\ c.op # "pkey"
    BY DEF Holds
  <2> QED BY <2>1, OutOfIs
<1> HIDE DEF g
<1>5. label \in Signing => g[c.key] = f[c.key] /\ g[c.src] = f[c.src]
  BY <1>1, <1>2, <1>3
<1>6. label = "openssl" => g[OutOf(c)] = f[OutOf(c)]
  BY <1>1, <1>4
<1>7. Matched(g, label, c, content)
  BY <1>5, <1>6 DEF Matched, Signing
<1> QED BY <1>7 DEF g

LEMMA IdleHolds ==
  ASSUME NEW store, NEW c, NEW content
  PROVE  Holds("idle", c, content) /\ Matched(store, "idle", c, content)
BY DEF Holds, Matched, Signing

\* The call of p at its next label, the others where they were.
MovedTo(p, label, content) == /\ pc' = [pc EXCEPT ![p] = label]
                              /\ held' = [held EXCEPT ![p] = content]
                              /\ DOMAIN result' = DOMAIN result
                              /\ UNCHANGED <<cmd, calls>>

LEMMA Moved ==
  ASSUME Programs, NEW p \in Procs, NEW label \in Labels, NEW content, MovedTo(p, label, content),
         Holds(label, cmd[p], content), disturbed' \in [Procs -> BOOLEAN]
  PROVE  Programs'
<1>1. /\ pc' \in [Procs -> Labels] /\ cmd' \in [Procs -> Commands \cup {NoCommand}] /\ calls' \in 0..MaxCalls
      /\ DOMAIN held' = Procs /\ DOMAIN result' = Procs
  BY DEF Programs, MovedTo
<1>2. ASSUME NEW r \in Procs PROVE Holds(pc'[r], cmd'[r], held'[r])
  <2>1. CASE r = p
    BY <2>1 DEF Programs, MovedTo
  <2>2. CASE r # p
    <3>1. pc'[r] = pc[r] /\ cmd'[r] = cmd[r] /\ held'[r] = held[r]
      BY <2>2 DEF Programs, MovedTo
    <3> QED BY <3>1 DEF Programs
  <2> QED BY <2>1, <2>2
<1>3. (\A r \in Procs : Holds(pc[r], cmd[r], held[r]))'
  BY <1>2
<1> QED BY <1>1, <1>3 DEF Programs

\* A step that writes no file.
LEMMA Still ==
  ASSUME IInv, NEW p \in Procs, NEW label \in Labels, NEW content, MovedTo(p, label, content),
         NoFile, Holds(label, cmd[p], content), ~disturbed[p] => Matched(files, label, cmd[p], content)
  PROVE  IInv'
<1>1. Store'
  BY DEF IInv, Store, NoFile
<1>2. Programs'
  <2>1. disturbed' \in [Procs -> BOOLEAN]
    BY DEF IInv, Programs, NoFile
  <2> QED BY <2>1, Moved DEF IInv
<1>3. ASSUME NEW r \in Procs, ~disturbed'[r] PROVE Matched(files', pc'[r], cmd'[r], held'[r])
  <2>1. ~disturbed[r] /\ files' = files
    BY <1>3 DEF NoFile
  <2>2. CASE r = p
    BY <2>1, <2>2 DEF IInv, Programs, MovedTo
  <2>3. CASE r # p
    <3>1. pc'[r] = pc[r] /\ cmd'[r] = cmd[r] /\ held'[r] = held[r]
      BY <2>3 DEF IInv, Programs, MovedTo
    <3> QED BY <2>1, <3>1 DEF IInv, Undisturbed
  <2> QED BY <2>2, <2>3
<1>4. Undisturbed'
  BY <1>3 DEF Undisturbed
<1> QED BY <1>1, <1>2, <1>4 DEF IInv

\* A step that writes one.
LEMMA Writes ==
  ASSUME IInv, NEW p \in Procs, NEW label \in Labels, NEW content, MovedTo(p, label, content),
         NEW path \in Paths, NEW new, WriteFile(p, path, new), File(new), Placed(path, new),
         used' \subseteq Keys, Holds(label, cmd[p], content), Matched(files', label, cmd[p], content)
  PROVE  IInv'
<1>1. files' = [files EXCEPT ![path] = new] /\ DOMAIN files = Paths
  BY DEF IInv, Store, WriteFile
<1>2. Store'
  <2>1. DOMAIN files' = Paths
    BY <1>1
  <2>2. ASSUME NEW other \in Paths PROVE File(files'[other]) /\ Placed(other, files'[other])
    <3>1. files'[other] = IF other = path THEN new ELSE files[other]
      BY <1>1
    <3>2. CASE other = path
      BY <3>1, <3>2
    <3>3. CASE other # path
      <4>1. files'[other] = files[other]
        BY <3>1, <3>3
      <4>2. File(files[other]) /\ Placed(other, files[other])
        BY DEF IInv, Store
      <4> QED BY <4>1, <4>2
    <3> QED BY <3>2, <3>3
  <2>3. (\A other \in Paths : File(files[other]) /\ Placed(other, files[other]))'
    BY <2>2 DEF File, Placed
  <2> QED BY <2>1, <2>3 DEF Store
<1>3. \A r \in Procs : disturbed'[r] = (disturbed[r] \/ (r # p /\ path \in {cmd[r].key, cmd[r].src, OutOf(cmd[r])}))
  BY DEF WriteFile
<1>4. Programs'
  <2>1. disturbed' \in [Procs -> BOOLEAN]
    BY DEF WriteFile
  <2> QED BY <2>1, Moved DEF IInv
<1>5. ASSUME NEW r \in Procs, ~disturbed'[r] PROVE Matched(files', pc'[r], cmd'[r], held'[r])
  <2>2. CASE r = p
    BY <2>2 DEF IInv, Programs, MovedTo
  <2>3. CASE r # p
    <3>1. pc'[r] = pc[r] /\ cmd'[r] = cmd[r] /\ held'[r] = held[r]
      BY <2>3 DEF IInv, Programs, MovedTo
    <3>2. ~disturbed[r] /\ path \notin {cmd[r].key, cmd[r].src, OutOf(cmd[r])}
      BY <1>3, <1>5, <2>3
    <3>3. Matched(files, pc[r], cmd[r], held[r]) /\ Holds(pc[r], cmd[r], held[r])
      BY <3>2 DEF IInv, Undisturbed, Programs
    <3>4. Matched(files', pc[r], cmd[r], held[r])
      BY <1>1, <3>2, <3>3, StillMatched
    <3> QED BY <3>1, <3>4
  <2> QED BY <2>2, <2>3
<1>6. Undisturbed'
  BY <1>5 DEF Undisturbed
<1> QED BY <1>2, <1>4, <1>6 DEF IInv

\* A call that ends.
LEMMA Finished ==
  ASSUME IInv, NEW p \in Procs, NEW what, Finish(p, what), NoFile
  PROVE  IInv'
<1>1. MovedTo(p, "idle", Absent) /\ "idle" \in Labels
  BY DEF Finish, MovedTo, Labels
<1> QED BY <1>1, Still, IdleHolds

LEMMA FinishedWriting ==
  ASSUME IInv, NEW p \in Procs, NEW what, Finish(p, what), NEW path \in Paths, NEW new,
         WriteFile(p, path, new), File(new), Placed(path, new), used' \subseteq Keys
  PROVE  IInv'
<1>1. MovedTo(p, "idle", Absent) /\ "idle" \in Labels
  BY DEF Finish, MovedTo, Labels
<1>2. Holds("idle", cmd[p], Absent) /\ Matched(files', "idle", cmd[p], Absent)
  BY IdleHolds
<1> QED BY <1>1, <1>2, Writes
\* A call that goes on without having written.
LEMMA Holding ==
  ASSUME IInv, NEW p \in Procs, NEW label \in Labels, NEW content, Hold(p, label, content), NoFile,
         Holds(label, cmd[p], content), ~disturbed[p] => Matched(files, label, cmd[p], content)
  PROVE  IInv'
<1>1. MovedTo(p, label, content)
  BY DEF Hold, MovedTo
<1> QED BY <1>1, Still

\* What a call in progress is, and what its files hold.
LEMMA InProgress ==
  ASSUME IInv, NEW p \in Procs, pc[p] # "idle"
  PROVE  /\ cmd[p] \in Commands /\ Holds(pc[p], cmd[p], held[p])
         /\ ~disturbed[p] => Matched(files, pc[p], cmd[p], held[p])
BY DEF IInv, Programs, Undisturbed, Holds

LEMMA Stored ==
  ASSUME IInv, NEW path \in Paths
  PROVE  File(files[path])
BY DEF IInv, Store

LEMMA SourceIs ==
  ASSUME NEW c \in Commands
  PROVE  /\ c.op \notin {"request", "pkey", "keypair_make"} => c.src \in Paths
         /\ c.op \in {"request", "pkey", "keypair_make", "sign"} => c.key \in Paths
         /\ c.op = "sign" => c.image \in Paths
BY CommandsAssumption

LEMMA Beside ==
  ASSUME NEW path \in Paths, NEW name \in Names
  PROVE  Path(path.dir, name) \in Paths /\ Path(path.dir, name).name = name
<1>1. path.dir \in Dirs
  BY DEF Paths, Path
<1> QED BY <1>1 DEF Paths, Path

LEMMA CallKeeps ==
  ASSUME IInv, NEW p \in Procs, Call(p)
  PROVE  IInv'
<1>1. PICK c \in Commands : cmd' = [cmd EXCEPT ![p] = c]
  BY DEF Call
<1>2. Store'
  BY DEF IInv, Store, Call
<1>3. /\ pc' \in [Procs -> Labels] /\ cmd' \in [Procs -> Commands \cup {NoCommand}]
      /\ disturbed' \in [Procs -> BOOLEAN] /\ DOMAIN held' = Procs /\ DOMAIN result' = Procs
  BY <1>1 DEF IInv, Programs, Call, Labels
<1>4. calls' \in 0..MaxCalls
  <2>1. calls \in 0..MaxCalls /\ calls < MaxCalls /\ calls' = calls + 1
    BY DEF IInv, Programs, Call
  <2> QED BY <2>1, MaxCallsAssumption
<1>5. ASSUME NEW r \in Procs
      PROVE  /\ Holds(pc'[r], cmd'[r], held'[r])
             /\ ~disturbed'[r] => Matched(files', pc'[r], cmd'[r], held'[r])
  <2>1. CASE r = p
    <3>1. pc'[r] = "called" /\ cmd'[r] \in Commands
      BY <1>1, <2>1 DEF IInv, Programs, Call
    <3> QED BY <3>1 DEF Holds, Matched, Signing
  <2>2. CASE r # p
    <3>1. /\ pc'[r] = pc[r] /\ cmd'[r] = cmd[r] /\ held'[r] = held[r] /\ disturbed'[r] = disturbed[r]
          /\ files' = files
      BY <1>1, <2>2 DEF IInv, Programs, Call
    <3> QED BY <3>1 DEF IInv, Programs, Undisturbed
  <2> QED BY <2>1, <2>2
<1>6. (\A r \in Procs : Holds(pc[r], cmd[r], held[r]))' /\ Undisturbed'
  BY <1>5 DEF Undisturbed
<1> QED BY <1>2, <1>3, <1>4, <1>6 DEF IInv, Programs

LEMMA RequestKeyKeeps ==
  ASSUME IInv, NEW p \in Procs, RequestKey(p)
  PROVE  IInv'
<1>1. CASE Finish(p, "failed") /\ NoFile
  BY <1>1, Finished
<1>2. ASSUME NEW k \in Keys \ used, WriteFile(p, cmd[p].key, KeyFile(k)), used' = used \cup {k},
             Hold(p, "request", KeyFile(k))
      PROVE  IInv'
  <2>1. pc[p] # "idle" /\ cmd[p].op = "request"
    BY DEF RequestKey, Called
  <2>2. cmd[p] \in Commands /\ cmd[p].key \in Paths /\ cmd[p].key.name = "pvt.pem"
    BY <2>1, InProgress, CommandsAssumption
  <2>3. File(KeyFile(k)) /\ Placed(cmd[p].key, KeyFile(k))
    BY <2>2 DEF File, Kinds, KeyFile, Placed
  <2>4. used' \subseteq Keys
    BY <1>2 DEF IInv, Store
  <2>5. Holds("request", cmd[p], KeyFile(k)) /\ Matched(files', "request", cmd[p], KeyFile(k))
    BY <2>1, <2>2 DEF Holds, Matched, Signing
  <2>6. MovedTo(p, "request", KeyFile(k)) /\ "request" \in Labels
    BY <1>2 DEF Hold, MovedTo, Labels
  <2> QED BY <1>2, <2>2, <2>3, <2>4, <2>5, <2>6, Writes
<1> QED BY <1>1, <1>2 DEF RequestKey

LEMMA RequestCertKeeps ==
  ASSUME IInv, NEW p \in Procs, RequestCert(p)
  PROVE  IInv'
<1>1. CASE Finish(p, "failed") /\ NoFile
  BY <1>1, Finished
<1>2. ASSUME NEW shape \in Shapes, Finish(p, "ok"), UNCHANGED used,
             WriteFile(p, Path(cmd[p].key.dir, "pem"), CertFile(held[p].key, shape, "pem"))
      PROVE  IInv'
  <2>1. cmd[p] \in Commands /\ cmd[p].op = "request" /\ held[p] \in {KeyFile(k) : k \in Keys}
    BY InProgress DEF RequestCert, Holds
  <2>2. PICK k \in Keys : held[p] = KeyFile(k) /\ held[p].key = k
    BY <2>1 DEF KeyFile
  <2>3. cmd[p].key \in Paths
    BY <2>1, SourceIs
  <2>4. PICK path \in Paths : path = Path(cmd[p].key.dir, "pem") /\ path.name = "pem"
    <3>1. "pem" \in Names
      BY DEF Names
    <3>2. /\ Path(cmd[p].key.dir, "pem") \in Paths
          /\ Path(cmd[p].key.dir, "pem").name = "pem"
      BY ONLY <2>3, <3>1, Beside
    <3> QED BY <3>2
  <2>5. PICK new : new = CertFile(k, shape, "pem")
    OBVIOUS
  <2>6. File(new) /\ Placed(path, new)
    <3>1. new \in Certs("pem") /\ new.kind = "cert"
      BY <2>5 DEF Certs, CertFile
    <3> QED BY <2>4, <3>1 DEF File, Kinds, Placed
  <2>7. used' \subseteq Keys
    BY <1>2 DEF IInv, Store
  <2>8. WriteFile(p, path, new)
    BY <1>2, <2>2, <2>4, <2>5
  <2> QED BY <1>2, <2>6, <2>7, <2>8, FinishedWriting
<1> QED BY <1>1, <1>2 DEF RequestCert

\* Actions that only look at files.
LEMMA ReadersKeep ==
  ASSUME IInv, NEW p \in Procs, PkeyExtract(p) \/ ReadCertder(p) \/ CertderGetPubkey(p)
  PROVE  IInv'
<1>1. CASE PkeyExtract(p)
  BY <1>1, Finished DEF PkeyExtract
<1>2. CASE ReadCertder(p)
  BY <1>2, Finished DEF ReadCertder
<1>3. CASE CertderGetPubkey(p)
  BY <1>3, Finished DEF CertderGetPubkey
<1> QED BY <1>1, <1>2, <1>3
-----------------------------------------------------------------------------
\* A certificate in the other form.
LEMMA OtherForm ==
  ASSUME NEW content, File(content), content.kind = "cert", NEW form \in {"pem", "der"}
  PROVE  /\ [content EXCEPT !.form = form] \in Certs(form)
         /\ File([content EXCEPT !.form = form]) /\ [content EXCEPT !.form = form].kind = "cert"
<1>1. PICK k \in Keys, shape \in Shapes, old \in {"der", "pem"} : content = CertFile(k, shape, old)
  BY DEF File, Certs
<1>2. [content EXCEPT !.form = form] = CertFile(k, shape, form)
  BY <1>1 DEF CertFile
<1>3. CertFile(k, shape, form) \in Certs(form) /\ CertFile(k, shape, form).kind = "cert"
  BY DEF Certs, CertFile
<1>4. File(CertFile(k, shape, form))
  BY <1>3 DEF File, Kinds
<1> QED BY <1>2, <1>3, <1>4

LEMMA ConvertedKeeps ==
  ASSUME IInv, NEW p \in Procs, pc[p] # "idle", OutOf(cmd[p]) # None,
         cmd[p].op \in {"pem_to_der", "der_to_pem"},
         NEW form, NEW other \in {"pem", "der"}, Converted(p, form, other)
  PROVE  IInv'
<1>1. cmd[p] \in Commands
  BY InProgress
<1>2. cmd[p].src \in Paths
  BY <1>1, SourceIs
<1>3. OutOf(cmd[p]) \in Paths /\ OutOf(cmd[p]).name # "pvt.pem"
  BY <1>1, OutOfIs
<1>4. File(files[cmd[p].src]) /\ files[cmd[p].src].kind = "cert"
  BY <1>2, Stored DEF Converted
<1>5. PICK new : new = [files[cmd[p].src] EXCEPT !.form = other]
  OBVIOUS
<1>6. File(new) /\ new.kind = "cert"
  BY <1>4, <1>5, OtherForm
<1>7. Placed(OutOf(cmd[p]), new)
  BY <1>3, <1>6 DEF Placed
<1>8. WriteFile(p, OutOf(cmd[p]), new) /\ Finish(p, "path") /\ used' \subseteq Keys
  BY <1>5 DEF Converted, IInv, Store
<1> QED BY <1>3, <1>6, <1>7, <1>8, FinishedWriting

LEMMA PemToDerKeeps ==
  ASSUME IInv, NEW p \in Procs, PemToDer(p)
  PROVE  IInv'
<1>1. pc[p] # "idle" /\ cmd[p].op = "pem_to_der" /\ used' = used
  BY DEF PemToDer, Called
<1>2. CASE OutOf(cmd[p]) = None
  <2>1. Finish(p, "None") /\ NoFile
    BY <1>1, <1>2 DEF PemToDer, NoFile
  <2> QED BY <2>1, Finished
<1>3. CASE OutOf(cmd[p]) # None
  <2>1. Hold(p, "openssl", Absent) /\ UnlinkOld(p, OutOf(cmd[p]))
    BY <1>3 DEF PemToDer
  <2>2. cmd[p] \in Commands
    BY <1>1, InProgress
  <2>3. PICK out \in Paths : out = OutOf(cmd[p]) /\ out.name # "pvt.pem"
    BY <1>1, <1>3, <2>2, OutOfIs
  <2>4. Holds("openssl", cmd[p], Absent) /\ "openssl" \in Labels
    BY <1>1, <1>3, <2>2 DEF Holds, Signing, Labels
  <2>5. CASE files[out].kind # "absent"
    <3>1. WriteFile(p, out, Absent)
      BY <2>1, <2>3, <2>5 DEF UnlinkOld
    <3>2. File(Absent) /\ Placed(out, Absent)
      BY DEF File, Kinds, Absent, Placed
    <3>3. files'[out] = Absent
      BY <3>1 DEF WriteFile, IInv, Store
    <3>4. Matched(files', "openssl", cmd[p], Absent)
      BY <2>3, <3>3 DEF Matched
    <3>5. MovedTo(p, "openssl", Absent) /\ used' \subseteq Keys
      BY <1>1, <2>1 DEF Hold, MovedTo, IInv, Store
    <3> QED BY <2>4, <3>1, <3>2, <3>4, <3>5, Writes
  <2>6. CASE files[out].kind = "absent"
    <3>1. NoFile
      BY <1>1, <2>1, <2>3, <2>6 DEF UnlinkOld, NoFile
    <3>2. files[out] = Absent
      BY <2>6, Stored DEF File
    <3>3. Matched(files, "openssl", cmd[p], Absent)
      BY <2>3, <3>2 DEF Matched
    <3> QED BY <2>1, <2>4, <3>1, <3>3, Holding
  <2> QED BY <2>5, <2>6
<1> QED BY <1>2, <1>3

LEMMA ConversionsKeep ==
  ASSUME IInv, NEW p \in Procs, OpensslToDer(p) \/ DerToPem(p)
  PROVE  IInv'
<1>1. CASE OpensslToDer(p)
  <2>1. CASE Finish(p, "None") /\ NoFile
    BY <2>1, Finished
  <2>2. CASE Converted(p, "pem", "der")
    <3>1. pc[p] # "idle" /\ OutOf(cmd[p]) # None /\ cmd[p].op = "pem_to_der"
      BY <1>1, InProgress DEF OpensslToDer, Holds
    <3> QED BY <2>2, <3>1, ConvertedKeeps
  <2> QED BY <1>1, <2>1, <2>2 DEF OpensslToDer
<1>2. CASE DerToPem(p)
  <2>1. pc[p] # "idle" /\ cmd[p].op = "der_to_pem"
    BY <1>2 DEF DerToPem, Called
  <2>2. CASE OutOf(cmd[p]) # None /\ Converted(p, "der", "pem")
    BY <2>1, <2>2, ConvertedKeeps
  <2>3. CASE Finish(p, IF OutOf(cmd[p]) = None THEN "None" ELSE "False") /\ NoFile
    BY <2>3, Finished
  <2> QED BY <1>2, <2>2, <2>3 DEF DerToPem
<1> QED BY <1>1, <1>2

\* A call that made what it is going to write.
LEMMA ReadyToWrite ==
  ASSUME IInv, NEW p \in Procs, pc[p] # "idle", cmd[p].op \in {"pem_make", "keypair_make", "make_esl"},
         OutOf(cmd[p]) # None, NEW new, File(new), new.kind # "key", Hold(p, "write", new), NoFile
  PROVE  IInv'
<1>1. cmd[p] \in Commands
  BY InProgress
<1>2. Holds("write", cmd[p], new) /\ "write" \in Labels
  BY <1>1 DEF Holds, Signing, Labels
<1>3. Matched(files, "write", cmd[p], new)
  BY DEF Matched
<1> QED BY <1>2, <1>3, Holding

LEMMA PemMakeKeeps ==
  ASSUME IInv, NEW p \in Procs, PemMake(p)
  PROVE  IInv'
<1>1. pc[p] # "idle" /\ cmd[p].op = "pem_make" /\ NoFile
  BY DEF PemMake, Called
<1>2. PICK pem : pem = files[cmd[p].src] /\ File(pem)
  BY <1>1, InProgress, SourceIs, Stored
<1>3. CASE OutOf(cmd[p]) # None /\ pem.kind = "cert" /\ pem.form = "pem"
  <2>1. Hold(p, "write", [pem EXCEPT !.form = "der"])
    BY <1>2, <1>3 DEF PemMake
  <2>2. File([pem EXCEPT !.form = "der"]) /\ [pem EXCEPT !.form = "der"].kind = "cert"
    BY <1>2, <1>3, OtherForm
  <2> QED BY <1>1, <1>3, <2>1, <2>2, ReadyToWrite
<1>4. CASE ~(OutOf(cmd[p]) # None /\ pem.kind = "cert" /\ pem.form = "pem")
  <2>1. Finish(p, "None") \/ Finish(p, "raised")
    BY <1>2, <1>4 DEF PemMake
  <2> QED BY <1>1, <2>1, Finished
<1> QED BY <1>3, <1>4

LEMMA KeypairMakeKeeps ==
  ASSUME IInv, NEW p \in Procs, KeypairMake(p)
  PROVE  IInv'
<1>1. pc[p] # "idle" /\ cmd[p].op = "keypair_make" /\ NoFile
  BY DEF KeypairMake, Called
<1>2. cmd[p] \in Commands /\ cmd[p].rtype \in {"asn1", "raw", "path", "other"} /\ cmd[p].key \in Paths
  BY <1>1, InProgress, SourceIs, CommandsAssumption
<1>3. PICK pair : pair = files[cmd[p].key] /\ File(pair)
  BY <1>2, Stored
<1>4. CASE \E what : Finish(p, what)
  BY <1>1, <1>4, Finished
<1>5. CASE ~\E what : Finish(p, what)
  <2>1. /\ pair.kind = "key" /\ cmd[p].rtype = "path" /\ OutOf(cmd[p]) # None
        /\ \E shape \in {x \in Shapes : x.v3} : Hold(p, "write", CertFile(pair.key, shape, "der"))
    BY <1>2, <1>3, <1>5 DEF KeypairMake
  <2>2. PICK shape \in Shapes : Hold(p, "write", CertFile(pair.key, shape, "der"))
    BY <2>1
  <2>3. PICK k \in Keys : pair = KeyFile(k)
    BY <1>3, <2>1 DEF File
  <2>4. PICK new : new = CertFile(pair.key, shape, "der") /\ new \in Certs("der")
    BY <2>3 DEF Certs, KeyFile
  <2>5. new.kind = "cert"
    BY <2>4 DEF CertFile
  <2>6. File(new) /\ new.kind # "key"
    BY <2>4, <2>5 DEF File, Kinds
  <2> QED BY <1>1, <2>1, <2>2, <2>4, <2>6, ReadyToWrite
<1> QED BY <1>4, <1>5

LEMMA MakeEslKeeps ==
  ASSUME IInv, NEW p \in Procs, MakeEsl(p)
  PROVE  IInv'
<1>1. pc[p] # "idle" /\ cmd[p].op = "make_esl" /\ NoFile
  BY DEF MakeEsl, Called
<1>2. CASE \E what : Finish(p, what)
  BY <1>1, <1>2, Finished
<1>3. CASE ~\E what : Finish(p, what)
  <2>1. OutOf(cmd[p]) # None /\ Hold(p, "write", [kind |-> "esl", of |-> files[cmd[p].src]])
    BY <1>3 DEF MakeEsl
  <2>2. PICK new : new = [kind |-> "esl", of |-> files[cmd[p].src]]
    OBVIOUS
  <2>3. File(new) /\ new.kind # "key"
    BY <2>2 DEF File, Kinds
  <2> QED BY <1>1, <2>1, <2>2, <2>3, ReadyToWrite
<1> QED BY <1>2, <1>3

LEMMA WriteKeeps ==
  ASSUME IInv, NEW p \in Procs, Write(p)
  PROVE  IInv'
<1>1. /\ cmd[p] \in Commands /\ cmd[p].op # "pkey" /\ OutOf(cmd[p]) # None
      /\ File(held[p]) /\ held[p].kind # "key"
  BY InProgress DEF Write, Holds
<1>2. PICK out \in Paths : out = OutOf(cmd[p]) /\ out.name # "pvt.pem"
  BY <1>1, OutOfIs
<1>3. Placed(out, held[p])
  BY <1>1, <1>2 DEF Placed
<1>4. WriteFile(p, out, held[p]) /\ Finish(p, "path") /\ used' \subseteq Keys
  BY <1>2 DEF Write, IInv, Store
<1> QED BY <1>1, <1>3, <1>4, FinishedWriting
-----------------------------------------------------------------------------
(***************************************************************************)
(* sign_image and main of the signer.                                      *)
(***************************************************************************)
\* What a file of a key or of a certificate says of its key.
LEMMA ImportedKey ==
  ASSUME NEW content, File(content), Imports(content)
  PROVE  content.key \in Keys
<1>1. CASE content.kind = "key"
  <2>1. PICK k \in Keys : content = KeyFile(k)
    BY <1>1 DEF File
  <2> QED BY <2>1 DEF KeyFile
<1>2. CASE content.kind = "cert"
  <2>1. PICK k \in Keys, shape \in Shapes, form \in {"der", "pem"} : content = CertFile(k, shape, form)
    BY <1>2 DEF File, Certs
  <2> QED BY <2>1 DEF CertFile
<1> QED BY <1>1, <1>2 DEF Imports

LEMMA DerFile ==
  ASSUME NEW content, File(content), IsDer(content)
  PROVE  content \in Certs("der")
<1>1. PICK k \in Keys, shape \in Shapes, form \in {"der", "pem"} : content = CertFile(k, shape, form)
  BY DEF File, IsDer, Certs
<1>2. form = "der"
  BY <1>1 DEF IsDer, CertFile
<1> QED BY <1>1, <1>2 DEF Certs

\* A call of sign_image in progress.
LEMMA SigningCall ==
  ASSUME IInv, NEW p \in Procs, Called(p, "sign") \/ pc[p] \in Signing
  PROVE  /\ pc[p] # "idle" /\ cmd[p] \in Commands /\ cmd[p].op = "sign"
         /\ cmd[p].key \in Paths /\ cmd[p].src \in Paths
         /\ File(files[cmd[p].key]) /\ File(files[cmd[p].src])
<1>1. pc[p] # "idle"
  BY DEF Called, Signing
<1>2. cmd[p] \in Commands /\ cmd[p].op = "sign"
  BY <1>1, InProgress DEF Called, Holds
<1>3. cmd[p].key \in Paths /\ cmd[p].src \in Paths
  BY <1>2, SourceIs
<1> QED BY <1>1, <1>2, <1>3, Stored

LEMMA SignKeyKeeps ==
  ASSUME IInv, NEW p \in Procs, SignKey(p)
  PROVE  IInv'
<1>1. NoFile /\ Called(p, "sign")
  BY DEF SignKey
<1>2. CASE \E what : Finish(p, what)
  BY <1>1, <1>2, Finished
<1>3. CASE ~\E what : Finish(p, what)
  <2>1. PICK key : key = files[cmd[p].key]
    OBVIOUS
  <2>2. OutOf(cmd[p]) # None /\ Imports(key) /\ Hold(p, "sign_cert", KeyFile(key.key))
    BY <1>3, <2>1 DEF SignKey
  <2>3. key.key \in Keys
    BY <1>1, <2>1, <2>2, SigningCall, ImportedKey
  <2>4. PICK content : content = KeyFile(key.key)
    OBVIOUS
  <2>5. Holds("sign_cert", cmd[p], content) /\ "sign_cert" \in Labels
    BY <1>1, <2>2, <2>3, <2>4, SigningCall DEF Holds, Signing, Labels
  <2>6. Matched(files, "sign_cert", cmd[p], content)
    BY <2>1, <2>4 DEF Matched, KeyFile
  <2> QED BY <1>1, <2>2, <2>4, <2>5, <2>6, Holding
<1> QED BY <1>2, <1>3

LEMMA SignCertKeeps ==
  ASSUME IInv, NEW p \in Procs, SignCert(p)
  PROVE  IInv'
<1>1. NoFile /\ pc[p] = "sign_cert" /\ pc[p] \in Signing
  BY DEF SignCert, Signing
<1>2. CASE \E what : Finish(p, what)
  BY <1>1, <1>2, Finished
<1>3. CASE ~\E what : Finish(p, what)
  <2>1. PICK cert : cert = files[cmd[p].src] /\ File(cert)
    BY <1>1, SigningCall
  <2>2. /\ PubkeyOf(cert) \notin {None, Raises} /\ PubkeyOf(cert) = held[p].key
        /\ Hold(p, "sbsign", Absent)
    BY <1>3, <2>1 DEF SignCert, SameKey
  <2>3. cert.key = held[p].key
    BY <2>1, <2>2, PubkeyIs
  <2>4. OutOf(cmd[p]) # None
    BY <1>1, SigningCall, InProgress DEF Holds
  <2>5. Holds("sbsign", cmd[p], Absent) /\ "sbsign" \in Labels
    BY <1>1, <2>4, SigningCall DEF Holds, Signing, Labels
  <2>6. ASSUME ~disturbed[p] PROVE Matched(files, "sbsign", cmd[p], Absent)
    <3>1. files[cmd[p].key].key = held[p].key
      BY <1>1, <2>6 DEF IInv, Undisturbed, Matched
    <3> QED BY <2>1, <2>3, <3>1 DEF Matched
  <2> QED BY <1>1, <2>2, <2>5, <2>6, Holding
<1> QED BY <1>2, <1>3

\* An image whose length and directory entry are changed is a record of one.
LEMMA ImageSet ==
  ASSUME NEW im \in ImageRecords, NEW n \in Nat, NEW off \in Nat, NEW len \in Nat
  PROVE  [im EXCEPT !.len = n, !.cert_off = off, !.cert_size = len] \in ImageRecords
BY ZenonT(60) DEF ImageRecords

\* An image that is read is a record of one, and filled up it has a length that
\* goes by 8.
LEMMA FilledUp ==
  ASSUME NEW input, File(input), input.kind \in {"image", "signed"}, NEW im,
         im = [input.image EXCEPT !.len = PadTo8(@)]
  PROVE  im \in ImageRecords /\ im.len % 8 = 0
<1>1. PICK image \in ImageRecords : image = input.image
  <2>1. CASE input.kind = "image"
    BY <2>1 DEF File
  <2>2. CASE input.kind = "signed"
    <3>1. PICK old : \E size \in Nat : Signable(old) /\ SignedFrom(input, old, size)
      BY <2>2 DEF File, SignedImage
    <3>2. PICK size \in Nat : Signable(old) /\ SignedFrom(input, old, size)
      BY <3>1
    <3>3. old \in ImageRecords
      BY <3>2 DEF Signable
    <3>4. input.image = [old EXCEPT !.len = @ + size, !.cert_off = old.len, !.cert_size = size]
      BY <3>2 DEF SignedFrom
    <3>5. old.len \in Nat /\ old.len + size \in Nat
      BY <3>2, <3>3 DEF ImageRecords
    <3>7. \A n, off, len \in Nat :
             [old EXCEPT !.len = n, !.cert_off = off, !.cert_size = len] \in ImageRecords
      BY <3>3, ImageSet
    <3>8. input.image = [old EXCEPT !.len = old.len + size, !.cert_off = old.len, !.cert_size = size]
      BY <3>3, <3>4 DEF ImageRecords
    <3> QED BY <3>5, <3>7, <3>8
  <2> QED BY <2>1, <2>2
<1>2. image.len \in Nat
  BY DEF ImageRecords
<1>3. PadTo8(image.len) \in Nat /\ PadTo8(image.len) % 8 = 0
  BY <1>2, ByEight
<1>4. im = [image EXCEPT !.len = PadTo8(image.len)]
  BY <1>1
<1>5. im \in ImageRecords
  BY <1>3, <1>4 DEF ImageRecords
<1>6. im.len = PadTo8(image.len)
  BY <1>4 DEF ImageRecords
<1> QED BY <1>3, <1>5, <1>6

LEMMA SbsignImageKeeps ==
  ASSUME IInv, NEW p \in Procs, SbsignImage(p)
  PROVE  IInv'
<1>1. NoFile /\ pc[p] = "sbsign" /\ pc[p] \in Signing
  BY DEF SbsignImage, Signing
<1>2. CASE \E what : Finish(p, what)
  BY <1>1, <1>2, Finished
<1>3. CASE ~\E what : Finish(p, what)
  <2>0. PICK input : input = files[cmd[p].image] /\ File(input)
    <3>1. cmd[p].image \in Paths
      BY <1>1, SigningCall, SourceIs
    <3> QED BY <3>1, Stored
  <2>1. PICK content : Hold(p, "sbsign_cert", content) /\ Signable(content.image)
    <3>1. PICK im : im = [input.image EXCEPT !.len = PadTo8(@)]
      OBVIOUS
    <3>2. /\ input.kind \in {"image", "signed"} /\ PeLayout(im) \notin {None, Raises}
          /\ Authenticode(im) # None /\ Hold(p, "sbsign_cert", ImageFile(im))
      BY <1>3, <2>0, <3>1 DEF SbsignImage
    <3>3. Signable(im)
      BY <2>0, <3>1, <3>2, FilledUp DEF Signable
    <3> QED BY <3>2, <3>3 DEF ImageFile
  <2>2. OutOf(cmd[p]) # None
    BY <1>1, SigningCall, InProgress DEF Holds
  <2>3. Holds("sbsign_cert", cmd[p], content) /\ "sbsign_cert" \in Labels
    BY <1>1, <2>1, <2>2, SigningCall DEF Holds, Signing, Labels
  <2>4. ASSUME ~disturbed[p] PROVE Matched(files, "sbsign_cert", cmd[p], content)
    <3>1. files[cmd[p].src].key = files[cmd[p].key].key
      BY <1>1, <2>4 DEF IInv, Undisturbed, Matched
    <3> QED BY <3>1 DEF Matched
  <2> QED BY <1>1, <2>1, <2>3, <2>4, Holding
<1> QED BY <1>2, <1>3

LEMMA SbsignCertKeeps ==
  ASSUME IInv, NEW p \in Procs, SbsignCert(p)
  PROVE  IInv'
<1>1. NoFile /\ pc[p] = "sbsign_cert" /\ pc[p] \in Signing
  BY DEF SbsignCert, Signing
<1>2. CASE \E what : Finish(p, what)
  BY <1>1, <1>2, Finished
<1>3. CASE ~\E what : Finish(p, what)
  <2>1. PICK cert : cert = files[cmd[p].src] /\ File(cert)
    BY <1>1, SigningCall
  <2>2. PICK content : content = [image |-> held[p].image, cert |-> cert]
    OBVIOUS
  <2>3. IsDer(cert) /\ Hold(p, "sbsign_key", content)
    BY <1>3, <2>1, <2>2 DEF SbsignCert
  <2>4. content.cert = cert /\ content.cert \in Certs("der")
    BY <2>1, <2>2, <2>3, DerFile
  <2>5. OutOf(cmd[p]) # None /\ Signable(content.image)
    BY <1>1, <2>2, SigningCall, InProgress DEF Holds
  <2>6. Holds("sbsign_key", cmd[p], content) /\ "sbsign_key" \in Labels
    BY <1>1, <2>4, <2>5, SigningCall DEF Holds, Signing, Labels
  <2>7. ASSUME ~disturbed[p] PROVE Matched(files, "sbsign_key", cmd[p], content)
    <3>1. files[cmd[p].src].key = files[cmd[p].key].key
      BY <1>1, <2>7 DEF IInv, Undisturbed, Matched
    <3> QED BY <2>1, <2>4, <3>1 DEF Matched
  <2> QED BY <1>1, <2>3, <2>6, <2>7, Holding
<1> QED BY <1>2, <1>3

LEMMA SbsignKeyKeeps ==
  ASSUME IInv, NEW p \in Procs, SbsignKey(p)
  PROVE  IInv'
<1>1. NoFile /\ pc[p] = "sbsign_key" /\ pc[p] \in Signing
  BY DEF SbsignKey, Signing
<1>2. CASE \E what : Finish(p, what)
  BY <1>1, <1>2, Finished
<1>3. CASE ~\E what : Finish(p, what)
  <2>1. PICK key : key = files[cmd[p].key] /\ File(key)
    BY <1>1, SigningCall
  <2>2. PICK im, cert : im = held[p].image /\ cert = held[p].cert
    OBVIOUS
  <2>3. OutOf(cmd[p]) # None /\ cert \in Certs("der") /\ Signable(im)
    BY <1>1, <2>2, SigningCall, InProgress DEF Holds
  <2>4. PICK size : size = PadTo8(8 + Len(SignedDer[cert.key][cert.shape][key.key]))
    OBVIOUS
  <2>5. PICK signed : /\ key.kind = "key" /\ Hold(p, "write", signed)
                      /\ signed.kind = "signed" /\ signed.cert = cert /\ signed.by = key.key
                      /\ SignedFrom(signed, im, size)
    <3>1. PICK signed :
            signed = [kind |-> "signed", cert |-> cert, by |-> key.key,
                      digest |-> Authenticode(im), layout |-> PeLayout(im),
                      image |-> [im EXCEPT !.len = @ + size, !.cert_off = im.len, !.cert_size = size]]
      OBVIOUS
    <3>2. key.kind = "key" /\ Hold(p, "write", signed)
      BY <1>3, <2>1, <2>2, <2>4, <3>1 DEF SbsignKey
    <3>3. SignedFrom(signed, im, size)
      BY <3>1 DEF SignedFrom
    <3> QED BY <3>1, <3>2, <3>3
  <2>5a. key.key \in Keys
    BY <2>1, <2>5, ImportedKey DEF Imports
  <2>5b. size \in Nat
    <3>1. PICK k \in Keys, shape \in Shapes : cert.key = k /\ cert.shape = shape
      BY <2>3 DEF Certs, CertFile
    <3>2. SignedDer[k][shape][key.key] \in Seq(Byte)
      BY <2>5a, SignatureIs
    <3>3. 8 + Len(SignedDer[k][shape][key.key]) \in Nat
      BY <3>2
    <3> QED BY <2>4, <3>1, <3>3, ByEight
  <2>5c. File(signed) /\ signed.kind # "key"
    BY <2>3, <2>5, <2>5a, <2>5b DEF File, Kinds, SignedImage
  <2>6. Holds("write", cmd[p], signed) /\ "write" \in Labels
    BY <1>1, <2>3, <2>5c, SigningCall DEF Holds, Signing, Labels
  <2>7. ASSUME ~disturbed[p] PROVE Matched(files, "write", cmd[p], signed)
    <3>1. held[p].cert.key = files[cmd[p].key].key
      BY <1>1, <2>7 DEF IInv, Undisturbed, Matched
    <3> QED BY <2>1, <2>2, <2>5, <3>1 DEF Matched
  <2> QED BY <1>1, <2>5, <2>6, <2>7, Holding
<1> QED BY <1>2, <1>3
-----------------------------------------------------------------------------
(***************************************************************************)
(* The invariant holds, and what follows from it.                          *)
(***************************************************************************)
LEMMA InitHolds == Init => IInv
<1> SUFFICES ASSUME Init PROVE IInv
  OBVIOUS
<1>1. PICK f \in InitFiles : files = f
  BY DEF Init
<1>2. /\ f \in [Paths -> {Absent} \cup {KeyFile(k) : k \in Keys} \cup Certs("pem")
                         \cup Certs("der") \cup {ImageFile(im) : im \in Images}]
      /\ \A path \in Paths :
           IF path.name = "pvt.pem" THEN f[path].kind \in {"absent", "key"} ELSE f[path].kind # "key"
  BY InitFilesAssumption
<1>3. ASSUME NEW path \in Paths
      PROVE  File(f[path]) /\ (f[path].kind = "key" => f[path].key \in Keys)
  <2>1. PICK content : content = f[path]
    OBVIOUS
  <2>2. CASE content = Absent
    <3>1. content.kind = "absent"
      BY <2>2 DEF Absent
    <3> QED BY <2>1, <2>2, <3>1 DEF File, Kinds
  <2>3. CASE \E k \in Keys : content = KeyFile(k)
    <3>1. PICK k \in Keys : content = KeyFile(k)
      BY <2>3
    <3>2. content.kind = "key" /\ content.key \in Keys
      BY <3>1 DEF KeyFile
    <3> QED BY <2>1, <3>1, <3>2 DEF File, Kinds
  <2>4. CASE content \in Certs("pem") \cup Certs("der")
    <3>1. content.kind = "cert"
      BY <2>4 DEF Certs, CertFile
    <3> QED BY <2>1, <2>4, <3>1 DEF File, Kinds
  <2>5. CASE \E im \in Images : content = ImageFile(im)
    <3>1. content.kind = "image" /\ content.image \in ImageRecords
      BY <2>5, ImagesAssumption DEF ImageFile
    <3> QED BY <2>1, <3>1 DEF File, Kinds
  <2> QED BY <1>2, <2>1, <2>2, <2>3, <2>4, <2>5
<1>4. Store
  <2>1. used \subseteq Keys
    BY <1>1, <1>3 DEF Init
  <2>2. \A path \in Paths : File(files[path]) /\ Placed(path, files[path])
    BY <1>1, <1>2, <1>3 DEF Placed
  <2> QED BY <1>1, <1>2, <2>1, <2>2 DEF Store
<1>5. Programs
  <2>1. \A p \in Procs : Holds(pc[p], cmd[p], held[p])
    BY IdleHolds DEF Init
  <2>2. calls \in 0..MaxCalls
    BY MaxCallsAssumption DEF Init
  <2> QED BY <2>1, <2>2 DEF Init, Programs, Labels
<1>6. Undisturbed
  BY IdleHolds DEF Init, Undisturbed
<1> QED BY <1>4, <1>5, <1>6 DEF IInv

LEMMA NextKeeps == IInv /\ [Next]_vars => IInv'
<1> SUFFICES ASSUME IInv, [Next]_vars PROVE IInv'
  OBVIOUS
<1>1. CASE UNCHANGED vars
  <2>1. Store' /\ Programs' /\ Undisturbed'
    BY <1>1 DEF vars, IInv, Store, Programs, Undisturbed
  <2> QED BY <2>1 DEF IInv
<1>2. CASE Next
  <2>1. PICK p \in Procs : Step(p)
    BY <1>2 DEF Next
  <2>2. CASE Call(p)
    BY <2>2, CallKeeps
  <2>3. CASE RequestKey(p) \/ RequestCert(p)
    BY <2>3, RequestKeyKeeps, RequestCertKeeps
  <2>4. CASE PkeyExtract(p) \/ ReadCertder(p) \/ CertderGetPubkey(p)
    BY <2>4, ReadersKeep
  <2>5. CASE PemToDer(p) \/ OpensslToDer(p) \/ DerToPem(p)
    BY <2>5, PemToDerKeeps, ConversionsKeep
  <2>6. CASE PemMake(p) \/ KeypairMake(p) \/ MakeEsl(p) \/ Write(p)
    BY <2>6, PemMakeKeeps, KeypairMakeKeeps, MakeEslKeeps, WriteKeeps
  <2>7. CASE SignKey(p) \/ SignCert(p)
    BY <2>7, SignKeyKeeps, SignCertKeeps
  <2>8. CASE SbsignImage(p) \/ SbsignCert(p) \/ SbsignKey(p)
    BY <2>8, SbsignImageKeeps, SbsignCertKeeps, SbsignKeyKeeps
  <2> QED BY <2>1, <2>2, <2>3, <2>4, <2>5, <2>6, <2>7, <2>8 DEF Step
<1> QED BY <1>1, <1>2

\* The inductive invariant holds in every state, for any number of programs on one
\* set of files, with any calls in any order.
THEOREM StoreInvariant == Spec => []IInv
BY InitHolds, NextKeeps, PTL DEF Spec

\* Every file has a content of its kind, and keys stand in the files named for them
\* and nowhere else: no function of WUEFI_crypto.py writes anything over one.
THEOREM KeysStayWhereTheyAre == Spec => []TypeOK
<1>1. IInv => TypeOK
  <2> SUFFICES ASSUME IInv PROVE TypeOK
    OBVIOUS
  <2>1. \A path \in Paths : files[path].kind \in {"absent", "key", "cert", "esl", "image", "signed"}
    BY DEF IInv, Store, File, Kinds
  <2>2. \A path \in Paths :
          IF path.name = "pvt.pem" THEN files[path].kind \in {"absent", "key"} ELSE files[path].kind # "key"
    BY DEF IInv, Store, Placed
  <2> QED BY <2>1, <2>2 DEF TypeOK, IInv, Store, Programs
<1> QED BY <1>1, StoreInvariant, PTL

\* What sign_image is going to write is signed with the key of the certificate that
\* goes with it, although main of the signer reads both files again, unless another
\* program wrote the key, the certificate or the result since the call began.
THEOREM SignsWithTheKeyOfItsCertificate == Spec => []SignedAsChecked
<1>1. IInv => SignedAsChecked
  BY DEF IInv, Undisturbed, Matched, SignedAsChecked
<1> QED BY <1>1, StoreInvariant, PTL

\* Whatever key pairs, names and serial numbers there are: what read_tlv gets out of
\* a signature and of a certificate is what the writer put in.
THEOREM SignaturesReadBack == Spec => []ReadsBack
<1>1. ASSUME IInv, NEW signed \in Signed
      PROVE  \E k \in Keys, shape \in Shapes : /\ signed.cert.key = k /\ signed.cert.shape = shape
                                               /\ signed.by \in Keys
  <2>1. PICK path \in Paths : signed = files[path] /\ signed.kind = "signed"
    BY DEF Signed
  <2>2. File(signed)
    BY <1>1, <2>1 DEF IInv, Store
  <2>3. PICK k \in Keys, shape \in Shapes : signed.cert = CertFile(k, shape, "der")
    BY <2>1, <2>2 DEF File, Certs
  <2>4. signed.cert.key = k /\ signed.cert.shape = shape
    BY <2>3 DEF CertFile
  <2> QED BY <2>1, <2>2, <2>4 DEF File
<1>2. IInv => ReadsBack
  <2> SUFFICES ASSUME IInv PROVE ReadsBack
    OBVIOUS
  <2>1. \A path \in Paths : IsDer(files[path]) => PubkeyOf(files[path]) = files[path].key
    BY Stored, PubkeyIs
  <2>2. ASSUME NEW signed \in Signed
        PROVE  ReadsItsParts(signed.cert.key, signed.cert.shape, signed.by)
    <3>1. PICK k \in Keys, shape \in Shapes :
            signed.cert.key = k /\ signed.cert.shape = shape /\ signed.by \in Keys
      BY <1>1
    <3> QED BY <3>1, SignatureIs
  <2> QED BY <2>1, <2>2 DEF ReadsBack, ReadsItsParts
<1> QED BY <1>2, StoreInvariant, PTL

\* A file that is an image with a signature was made of one that could be signed.
LEMMA SignedFile ==
  ASSUME IInv, NEW signed \in Signed
  PROVE  \E im : \E size \in Nat : Signable(im) /\ SignedFrom(signed, im, size)
<1>1. PICK path \in Paths : signed = files[path] /\ signed.kind = "signed"
  BY DEF Signed
<1>2. File(signed)
  BY <1>1, Stored
<1> QED BY <1>1, <1>2 DEF File, SignedImage

\* Of every image that is ever signed, with any number of sections in any order of
\* the table, the firmware hashes what authenticode_sha256 did, as long as no section
\* is inside the header: the entry the signer writes and the table behind the image
\* are no part of it.
THEOREM FirmwareHashesTheSame == Spec => []SignedVerifies
<1>1. IInv => SignedVerifies
  <2> SUFFICES ASSUME IInv, NEW signed \in Signed PROVE Verifies(signed)
    BY DEF SignedVerifies
  <2>1. PICK im : \E size \in Nat : Signable(im) /\ SignedFrom(signed, im, size)
    BY SignedFile
  <2> QED BY <2>1, VerifiesIs
<1> QED BY <1>1, StoreInvariant, PTL

\* Of an image whose sections follow the header and one another without a gap, every
\* byte is hashed, once and in order, but for the checksum and the security entry.
THEOREM EveryByteIsHashedOnce == Spec => []HashedInOrderOnce
<1>1. IInv => HashedInOrderOnce
  <2> SUFFICES ASSUME IInv, NEW signed \in Signed PROVE HashedOnce(signed)
    BY DEF HashedInOrderOnce
  <2>1. PICK im : \E size \in Nat : Signable(im) /\ SignedFrom(signed, im, size)
    BY SignedFile
  <2> QED BY <2>1, HashedOnceIs
<1> QED BY <1>1, StoreInvariant, PTL

\* A step moves on the call of one program.
LEMMA OthersStay ==
  ASSUME IInv, NEW p \in Procs, NEW q \in Procs, Step(q), q # p
  PROVE  pc'[p] = pc[p]
<1>1. \E label : pc' = [pc EXCEPT ![q] = label]
  <2>1. CASE Call(q)
    BY <2>1 DEF Call
  <2>2. ASSUME \E what : Finish(q, what) PROVE <1>1
    BY <2>2 DEF Finish
  <2>3. ASSUME \E label, content : Hold(q, label, content) PROVE <1>1
    BY <2>3 DEF Hold
  <2>4. CASE RequestKey(q) \/ RequestCert(q)
    BY <2>2, <2>3, <2>4 DEF RequestKey, RequestCert
  <2>5. CASE PkeyExtract(q) \/ ReadCertder(q) \/ CertderGetPubkey(q)
    BY <2>2, <2>5 DEF PkeyExtract, ReadCertder, CertderGetPubkey
  <2>6. CASE PemToDer(q) \/ OpensslToDer(q) \/ DerToPem(q)
    BY <2>2, <2>3, <2>6 DEF PemToDer, OpensslToDer, DerToPem, Converted
  <2>7. CASE PemMake(q) \/ KeypairMake(q)
    BY <2>2, <2>3, <2>7 DEF PemMake, KeypairMake
  <2>8. CASE MakeEsl(q) \/ Write(q)
    BY <2>2, <2>3, <2>8 DEF MakeEsl, Write
  <2>9. CASE SignKey(q) \/ SignCert(q)
    BY <2>2, <2>3, <2>9 DEF SignKey, SignCert
  <2>10. CASE SbsignImage(q)
    BY <2>2, <2>3, <2>10 DEF SbsignImage
  <2>11. CASE SbsignCert(q) \/ SbsignKey(q)
    BY <2>2, <2>3, <2>11 DEF SbsignCert, SbsignKey
  <2> QED BY <2>1, <2>4, <2>5, <2>6, <2>7, <2>8, <2>9, <2>10, <2>11 DEF Step
<1> QED BY <1>1 DEF IInv, Programs

\* openssl_x509_convert_pem_to_der that gives no path leaves no certificate of an
\* earlier call where its result belongs, unless another program wrote a file of the
\* call since it began.  (The conversion the other way leaves an old result.)
THEOREM NoStaleResult == Spec => NoStaleDer
<1> DEFINE Fails(p) == pc[p] = "openssl" /\ pc'[p] = "idle" /\ result'[p] = "None" /\ ~disturbed[p]
<1>1. ASSUME IInv, Next, NEW p \in Procs, Fails(p) PROVE files'[OutOf(cmd[p])] = Absent
  <2>1. PICK q \in Procs : Step(q)
    BY <1>1 DEF Next
  <2>2. q = p
    BY <1>1, <2>1, OthersStay
  <2>3. OpensslToDer(p)
    BY <1>1, <2>1, <2>2 DEF Step, Call, Called, RequestKey, RequestCert, PkeyExtract, PemToDer, DerToPem,
       ReadCertder, PemMake, KeypairMake, MakeEsl, CertderGetPubkey, SignKey, SignCert, SbsignImage,
       SbsignCert, SbsignKey, Write
  <2>4. ~Converted(p, "pem", "der")
    <3>1. Finish(p, "path") => result'[p] = "path"
      BY <1>1 DEF Finish, IInv, Programs
    <3> QED BY <1>1, <3>1 DEF Converted
  <2>5. files' = files
    BY <2>3, <2>4 DEF OpensslToDer, NoFile
  <2>6. Matched(files, pc[p], cmd[p], held[p])
    BY <1>1 DEF IInv, Undisturbed
  <2> QED BY <1>1, <2>5, <2>6 DEF Matched
<1>2. IInv /\ [Next]_vars =>
        [\A p \in Procs : Fails(p) => files'[OutOf(cmd[p])] = Absent]_vars
  BY <1>1
<1>3. IInv /\ [Next]_vars =>
        [\A p \in Procs :
           pc[p] = "openssl" /\ pc'[p] = "idle" /\ result'[p] = "None" /\ ~disturbed[p] =>
             files'[OutOf(cmd[p])] = Absent]_vars
  BY <1>2
<1> HIDE DEF Fails
<1> QED BY <1>3, StoreInvariant, PTL DEF Spec, NoStaleDer
=============================================================================
