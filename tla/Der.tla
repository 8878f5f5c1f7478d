-------------------------------- MODULE Der --------------------------------
(***************************************************************************)
(* The DER encoding of WUEFI_crypto_sbsign.py, the reader of               *)
(* WUEFI_crypto.py, and the way that reader takes to the public key of a   *)
(* certificate.  Data are sequences of bytes and offsets count from 0 as   *)
(* in the code.  Bound: a content has at most MaxContent bytes (keys,      *)
(* signatures and certificates have fewer), so its length takes at most    *)
(* two bytes, and a number of more bytes exceeds every data read here.     *)
(***************************************************************************)
EXTENDS Outcomes, Integers, Sequences, SequencesExt

Byte == 0..255
MaxContent == 256 * 256 - 1

\* No function gives None, or raises, by a value that it returns otherwise.
Tlvs == [tag : Byte, end : Nat, value : Seq(Byte)]
ASSUME OutcomesAssumption == /\ None \notin Tlvs /\ None \notin Seq(Byte)
                             /\ Raises \notin Tlvs /\ Raises \notin Seq(Byte)

\* int.to_bytes of the length, and int.from_bytes
BigEndian(n) == IF n < 256 THEN <<n>> ELSE <<n \div 256, n % 256>>
FromBigEndian(raw) ==
    LET digit(k) == IF k < Len(raw) THEN raw[Len(raw) - k] ELSE 0
    IN  IF \E k \in 1..(Len(raw) - 2) : raw[k] # 0 THEN MaxContent + 1
        ELSE digit(0) + 256 * digit(1)

\* tlv
LengthBytesUpTo128(n) ==
    IF n <= 128 THEN <<n>> ELSE <<128 + Len(BigEndian(n))>> \o BigEndian(n)
LengthBytes(n) ==
    IF n < 128 THEN <<n>> ELSE <<128 + Len(BigEndian(n))>> \o BigEndian(n)
Tlv(tag, content) == <<tag>> \o LengthBytes(Len(content)) \o content

\* seq, and der_set with its elements sorted bytewise
DerSeq(items) == Tlv(48, FlattenSeq(items))
BytesLess(s, t) ==
    \/ Len(s) < Len(t) /\ s = SubSeq(t, 1, Len(s))
    \/ \E k \in DOMAIN s \cap DOMAIN t :
         s[k] < t[k] /\ SubSeq(s, 1, k - 1) = SubSeq(t, 1, k - 1)
Sorted(items) ==
    LET at == CHOOSE p \in Injection(DOMAIN items, DOMAIN items) :
                \A i, j \in DOMAIN items : i < j => ~BytesLess(items[p[j]], items[p[i]])
    IN  [k \in DOMAIN items |-> items[at[k]]]
DerSet(items) == Tlv(49, FlattenSeq(Sorted(items)))

\* der_integer, of a number given by its bytes; der_oid, of a number for each
\* identifier; algorithm_identifier.
DerInteger(raw) == Tlv(2, IF raw[1] >= 128 THEN <<0>> \o raw ELSE raw)
DerOid(n) == Tlv(6, [k \in 1..9 |-> n])
AlgorithmIdentifier(n) == DerSeq(<<DerOid(n), Tlv(5, <<>>)>>)
-----------------------------------------------------------------------------
\* read_tlv: the size is the first byte, or stands in as many bytes behind it
\* as that byte counts above 128.
LongForm(data, off) == data[off + 2] >= 128
CountOf(data, off) == IF LongForm(data, off) THEN data[off + 2] - 128 ELSE 0
ContentAt(data, off) == off + 2 + CountOf(data, off)
ContentSize(data, off) ==
    IF LongForm(data, off) THEN FromBigEndian(SubSeq(data, off + 3, ContentAt(data, off)))
                           ELSE data[off + 2]
ContentEnd(data, off) == ContentAt(data, off) + ContentSize(data, off)
ReadTlv(data, off) ==
    IF off + 2 > Len(data) THEN Raises
    ELSE IF \/ LongForm(data, off) /\ CountOf(data, off) = 0
            \/ ContentAt(data, off) > Len(data)
            \/ ContentEnd(data, off) > Len(data)
    THEN None
    ELSE [tag |-> data[off + 1], end |-> ContentEnd(data, off),
          value |-> SubSeq(data, ContentAt(data, off) + 1, ContentEnd(data, off))]

Failed(read) == read \in {None, Raises}

\* The fields of a content from off on, up to the first that cannot be read.
Fields(data, off) ==
    LET from[k \in 0..Len(data)] ==
          IF k >= Len(data) THEN <<>>
          ELSE IF Failed(ReadTlv(data, k)) THEN <<ReadTlv(data, k)>>
          ELSE <<ReadTlv(data, k)>> \o from[ReadTlv(data, k).end]
    IN  from[off]

\* Then(x), or x when that is None or an exception.
Bind(x, Then(_)) == IF Failed(x) THEN x ELSE Then(x)

\* from_x509_certder_get_pubkey: certificate, TBSCertificate, its fields behind
\* the version, the sixth of them, and the bit string in that.
KeyInfoAt(fields) == CASE fields[1].tag = 160 -> 7
                       [] fields[1].tag = 2 -> 6
                       [] OTHER -> 0
BitString(info) ==
    Bind(ReadTlv(info, 0), LAMBDA algorithm :
      Bind(ReadTlv(info, algorithm.end), LAMBDA bits :
        IF bits.tag # 3 \/ bits.value = <<>> THEN None
        ELSE IF bits.value[1] # 0 THEN None ELSE Tail(bits.value)))
KeyInfo(tbs, off) ==
    LET fields == Fields(tbs, off)
    IN  IF fields = <<>> THEN Raises
        ELSE IF Failed(Last(fields)) THEN Last(fields)
        ELSE IF KeyInfoAt(fields) = 0 THEN None
        ELSE IF KeyInfoAt(fields) > Len(fields) THEN Raises
        ELSE IF fields[KeyInfoAt(fields)].tag # 48 THEN None
        ELSE BitString(fields[KeyInfoAt(fields)].value)
BehindVersion(first) == IF first.tag = 160 THEN first.end ELSE 0
GetPubkey(data) ==
    Bind(ReadTlv(data, 0), LAMBDA cert :
      IF cert.tag # 48 THEN None
      ELSE Bind(ReadTlv(cert.value, 0), LAMBDA tbs :
        IF tbs.tag # 48 THEN None
        ELSE Bind(ReadTlv(tbs.value, 0), LAMBDA first :
          KeyInfo(tbs.value, BehindVersion(first)))))
=============================================================================
