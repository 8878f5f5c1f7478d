--------------------------- MODULE BootOrderCodec ---------------------------
(***************************************************************************)
(* The two conversions of WUEFI_serde.py between the bytes of the EFI      *)
(* variable BootOrder (an array of little-endian UINT16) and the Boot####  *)
(* names the rest of the program works with:                               *)
(*   parse_efi_BootOrder  bytes -> names     (f"Boot{n:04X}")              *)
(*   build_efi_BootOrder  names -> bytes or None                           *)
(* A name is "Boot" followed by characters; a character is kept as what    *)
(* the code tells apart: a hexadecimal digit 0..15, or NonHex.  A Python   *)
(* str or int of a list is a record, Python's None is the constant None.   *)
(***************************************************************************)
EXTENDS Integers, Sequences

CONSTANT None

Byte == 0..255
Word == 0..65535
NonHex == 16

\* The items of the lists build_efi_BootOrder is handed.
Entry == [kind : {"str"}, boot : BOOLEAN, rest : Seq(0..NonHex)]
           \cup [kind : {"int"}, n : Int]

ASSUME NoneAssumption == None \notin Seq(Byte) /\ None \notin Seq(Entry)

\* The i-th little-endian word of a byte string, and the two bytes of a word
\* (BigEndian is the byte order a slip would give).
WordAt(data, i) == data[2*i - 1] + 256 * data[2*i]
BigEndian(n) == <<n \div 256, n % 256>>
LittleEndian(n) == <<n % 256, n \div 256>>

\* f"Boot{n:X}", without the zeros in front.
BootNameUnpadded(n) ==
    LET digits == <<n \div 4096, (n \div 256) % 16, (n \div 16) % 16, n % 16>>
        zeros == CASE n < 16 -> 3 [] n < 256 -> 2 [] n < 4096 -> 1 [] OTHER -> 0
    IN  [kind |-> "str", boot |-> TRUE, rest |-> SubSeq(digits, 1 + zeros, 4)]

\* f"Boot{n:04X}": four upper-case hexadecimal digits for every 16-bit number.
BootName(n) ==
    LET high == n \div 256
        low == n % 256
    IN  [kind |-> "str", boot |-> TRUE,
         rest |-> <<high \div 16, high % 16, low \div 16, low % 16>>]

\* The result of parse_efi_BootOrder (None for an odd number of bytes).
ParseBootOrder(data) ==
    IF Len(data) % 2 # 0
    THEN None
    ELSE [i \in 1..(Len(data) \div 2) |-> BootName(WordAt(data, i))]

\* int("0x" + rest, 16), for a rest of at most five digits.
HexValue(rest) ==
    LET digit(k) == IF k < Len(rest) THEN rest[Len(rest) - k] ELSE 0
    IN  digit(0) + 16*digit(1) + 256*digit(2) + 4096*digit(3) + 65536*digit(4)

EntryValue(e) == IF e.kind = "int" THEN e.n ELSE HexValue(e.rest)

\* EntryOk with the range check forgotten.
EntryOkUnranged(e) ==
    e.kind = "str" => /\ e.boot
                      /\ Len(e.rest) > 0
                      /\ \A k \in 1..Len(e.rest) : e.rest[k] <= 9

\* What one round of build_efi_BootOrder accepts: the name starts with Boot,
\* has characters after it and str.isdigit() holds of them (so that a name
\* with a digit A..F is refused), and is_uint16 with its default inc_zero
\* (so that 0 is refused).
EntryOk(e) ==
    /\ e.kind = "str" => /\ e.boot
                         /\ Len(e.rest) > 0
                         /\ \A k \in 1..Len(e.rest) : e.rest[k] <= 9
    /\ EntryValue(e) \in Word /\ EntryValue(e) # 0

\* The result of build_efi_BootOrder: one bad entry and the list is None.
BuildBootOrder(entries) ==
    IF \A i \in 1..Len(entries) : EntryOk(entries[i])
    THEN [j \in 1..(2 * Len(entries)) |->
            LittleEndian(EntryValue(entries[(j + 1) \div 2]))[2 - (j % 2)]]
    ELSE None

\* The numbers whose name survives the way back: no zero, no digit A..F.
Encodable(n) == EntryOk(BootName(n))
=============================================================================
