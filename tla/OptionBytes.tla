---------------------------- MODULE OptionBytes ----------------------------
(***************************************************************************)
(* EFI_LOAD_OPTION on bytes: parse_efi_EFI_LOAD_OPTION with the walk of    *)
(* parse_efi_elo_filepathlist over a device path, as the code takes them   *)
(* apart.  LoadOption, which the other modules use, keeps one cell for     *)
(* each field and node; Bytes says which bytes a sequence of cells stands  *)
(* for, DecodesAlike that both decode it to the same.                      *)
(***************************************************************************)
EXTENDS LoadOption, SequencesExt, FiniteSetsExt

CONSTANT Units    \* Units[t]: the UTF-16 code units of the text t

\* A text of Windows has no U+0000.
Unit == 1..65535
Byte == 0..255
ASSUME UnitsAssumption == \A t \in DOMAIN Units : Units[t] \in Seq(Unit)

LittleEndian16(n) == <<n % 256, n \div 256>>
Value16(data, at) == data[at + 1] + 256 * data[at + 2]

\* data[a:b] of Python: an end before the start of the data counts from its end.
PySlice(data, a, b) ==
    LET end == IF b < 0 THEN Max({0, Len(data) + b}) ELSE Min({b, Len(data)})
    IN  SubSeq(data, a + 1, end)
From(data, a) == PySlice(data, a, Len(data))

\* str.encode and bytes.decode with _ENC_UTF16LE
Encode(units) == FlattenSeq([i \in 1..Len(units) |-> LittleEndian16(units[i])])
Decode(data) == [i \in 1..(Len(data) \div 2) |-> Value16(data, 2 * (i - 1))]

BuildDescription(units) == Encode(units) \o <<0, 0>>

\* data.find(_NULLTERM): the first two bytes that are 0, wherever they stand;
\* at an odd place the one before is taken for the high byte of a character.
NullTerms(data) == {p \in 0..(Len(data) - 2) : Value16(data, p) = 0}
FirstNull(data) == Min(NullTerms(data))
\* ... and as it would be without that correction.
DescriptionSizeAsFound(data) == FirstNull(data)
DescriptionSize(data) ==
    IF FirstNull(data) % 2 = 0 THEN FirstNull(data) ELSE FirstNull(data) + 1
-----------------------------------------------------------------------------
\* The device-path nodes the program knows, by their first bytes.
Header == [acpi |-> <<2, 1, 12, 0>>, pci |-> <<1, 1, 6, 0>>,
           nvme |-> <<3, 23, 16, 0>>, hd |-> <<4, 1, 42, 0>>]
EndHeader == <<127, 255, 4, 0>>
PathHeader == <<4, 4>>

\* The integer fields of the parsers that refuse one: offset and size of each.
Fields == [acpi |-> <<>>, nvme |-> <<>>,
           pci |-> [function |-> <<4, 1>>, device |-> <<5, 1>>],
           hd |-> [partnum |-> <<4, 4>>, startlba |-> <<8, 8>>, size |-> <<16, 8>>,
                   mbrtype |-> <<40, 1>>, sigtype |-> <<41, 1>>]]

\* is_uint8, is_uint32, is_uint64 with inc_zero=False; the largest UINT64 is
\* _UINT64_MAX itself and refused.
FieldOkIncZero(field) == Len(field) > 0
FieldOk(field) ==
    /\ \E i \in 1..Len(field) : field[i] # 0
    /\ Len(field) = 8 => \E i \in 1..8 : field[i] # 255

FixedOk(node, kind) ==
    /\ Len(node) = Header[kind][3]
    /\ \A f \in DOMAIN Fields[kind] :
         LET at == Fields[kind][f] IN FieldOk(PySlice(node, at[1], at[1] + at[2]))

\* One round at offset o.  A known fixed-size node is as long as its header says
\* or the list is corrupted; a file path is as long as its own length field; of
\* a header nobody knows everything left is one raw node.
\*   step: "node", "end", "raw", "corrupted" or "raises"
Node(kind, size, bytes, text) ==
    [step |-> "node", kind |-> kind, size |-> size, bytes |-> bytes, text |-> text]
Stop(step) == [step |-> step]

\* A length of 0 is no is_uint16, one beyond the data is refused.  A text of an
\* odd number of bytes cannot be decoded (lone surrogates are left out).
PathFitsAnywhere(size, left) == size # 0
PathFits(size, left) == size # 0 /\ size <= left
PathNode(data, o) ==
    LET size == IF o + 4 <= Len(data) THEN Value16(data, o + 2) ELSE 0
        text == PySlice(data, o + 4, o + size - 2)
    IN  IF ~PathFits(size, Len(data) - o) THEN Stop("corrupted")
        ELSE IF Len(text) % 2 = 1 THEN Stop("raises")
        ELSE Node("path", size, PySlice(data, o, o + size), Decode(text))

Round(data, o) ==
    LET head == PySlice(data, o, o + 4)
        short == PySlice(data, o, o + 2)
    IN  CASE \E k \in DOMAIN Header : head = Header[k] ->
               LET k == CHOOSE k \in DOMAIN Header : head = Header[k]
                   node == PySlice(data, o, o + Header[k][3])
               IN  IF FixedOk(node, k) THEN Node(k, Len(node), node, <<>>) ELSE Stop("corrupted")
          \* bytes "in" bytes is a search: one byte 04 is found in 04 04, and is
          \* no key of known_parsers_vsn
          [] short = <<4>> -> Stop("raises")
          [] short = PathHeader -> PathNode(data, o)
          [] head = EndHeader -> Stop("end")
          [] OTHER -> Stop("raw")

\* The rounds of the walk, to the end of the data or to the round that stops it.
Walk(data) ==
    LET from[o \in 0..Len(data)] ==
          IF o = Len(data) THEN <<>>
          ELSE LET round == Round(data, o)
               IN  <<round>> \o IF round.step = "node" THEN from[o + round.size] ELSE <<>>
    IN  from[0]
-----------------------------------------------------------------------------
\* The whole option: its parts with their places, or Unparsed.
Option(data) ==
    IF Len(data) < 6 \/ NullTerms(From(data, 6)) = {}
    THEN Unparsed
    ELSE LET size == DescriptionSize(From(data, 6))
             start == 6 + size + 2
             end == start + Value16(data, 4)
         IN  IF Value16(data, 4) > Len(From(data, start))
             THEN Unparsed
             ELSE [description |-> Decode(PySlice(data, 6, 6 + size)),
                   rounds |-> Walk(PySlice(data, start, end)),
                   start |-> start, end |-> end,
                   optdata |-> From(data, end)]
-----------------------------------------------------------------------------
\* The bytes of a cell.  A flawed field is zero; the value of another one is 1 in
\* its lowest byte.
Fill(n) == [i \in 1..n |-> 0]
FieldBytes(size, flawed) == IF flawed THEN Fill(size) ELSE <<1>> \o Fill(size - 1)

FixedBytes(c) ==
    LET plain(f, size) == FieldBytes(size, f \in c.flaws)
    IN  Header[c.kind] \o
        CASE c.kind = "pci" -> plain("function", 1) \o plain("device", 1)
          [] c.kind = "hd" -> plain("partnum", 4) \o plain("startlba", 8) \o plain("size", 8)
                                \o Fill(16) \o plain("mbrtype", 1) \o plain("sigtype", 1)
          [] OTHER -> Fill(Header[c.kind][3] - 4)

PathBytes(c) ==
    LET text == Encode(Units[c.val]) \o <<0, 0>> \o IF "odd" \in c.flaws THEN <<1>> ELSE <<>>
    IN  PathHeader \o LittleEndian16(IF "nodesize" \in c.flaws THEN 0 ELSE 4 + Len(text)) \o text

Whole(c) == CASE c.kind = "attr" -> <<1, 0, 0, 0>>
              [] c.kind = "desc" -> BuildDescription(Units[c.val])
              [] c.kind = "opt" -> Encode(Units[c.val])
              [] c.kind = "end" -> EndHeader
              [] c.kind = "path" -> PathBytes(c)
              [] c.kind \in DOMAIN Header -> FixedBytes(c)
              [] c.kind = "usb" -> <<3, 5, 6, 0>> \o Fill(2)
              [] c.kind = "fv" -> <<4, 6, 20, 0>> \o Fill(16)
              [] c.kind = "stub" -> <<4>>

CellBytes(c) == LET all == Whole(c)
                IN  IF c.kind # "len" /\ "cut" \in c.flaws THEN Front(all) ELSE all
Bare(cells) == FlattenSeq([i \in 1..Len(cells) |-> CellBytes(cells[i])])

\* A length cell counts the cells behind the description that follows it; cells
\* that are not there count for a byte each.
ListBytes(cells, first, n) ==
    LET last == Min({first + n - 1, Len(cells)})
    IN  Len(Bare(SubSeq(cells, first, last))) + (first + n - 1 - last)
Bytes(cells) ==
    FlattenSeq([i \in 1..Len(cells) |->
        IF cells[i].kind = "len"
        THEN LittleEndian16(ListBytes(cells, i + 2, cells[i].n))
        ELSE CellBytes(cells[i])])

\* What a walk gives of the nodes of LoadOption.
Shown(c) == CASE c.kind = "path" -> Node("path", Len(PathBytes(c)), PathBytes(c), Units[c.val])
              [] c.kind \in {"end", "raw"} -> Stop(c.kind)
              [] OTHER -> Node(c.kind, Len(FixedBytes(c)), FixedBytes(c), <<>>)
Kept(rounds) == SelectSeq(rounds, LAMBDA x : x.step # "corrupted")
Raising(option) ==
    /\ option # Unparsed
    /\ \E i \in 1..Len(option.rounds) : option.rounds[i].step = "raises"

\* What was decoded from the bytes is what LoadOption decodes from the cells:
\* refused or not, description, nodes, and with a well-placed header the place
\* of the list and the optional data.
AsCells(option, cells) ==
    LET parsed == Parse(cells)
    IN  /\ parsed = Unparsed <=> option = Unparsed
        /\ parsed # Unparsed =>
             /\ option.description = Units[parsed.description]
             /\ Kept(option.rounds) = [i \in 1..Len(parsed.nodes) |-> Shown(parsed.nodes[i])]
             /\ ~AttributesTwice(cells) =>
                  /\ option.start = 6 + Len(CellBytes(cells[3]))
                  /\ PySlice(Bytes(cells), option.start, option.end)
                       = Bare(Slice(cells, parsed.start, parsed.end))
                  /\ option.optdata = Bare(parsed.optdata)
DecodesAlike(cells) ==
    LET option == Option(Bytes(cells))
    IN  /\ ParseRaises(cells) <=> Raising(option)
        /\ ~ParseRaises(cells) => AsCells(option, cells)

\* The places where a character below 256 stands before one whose low byte is 0,
\* and how much of a description is read back.
EarlyPairs(units) == {i \in 1..(Len(units) - 1) : units[i] < 256 /\ units[i + 1] % 256 = 0}
WholeUpTo(units) == IF EarlyPairs(units) = {} THEN Len(units) ELSE Min(EarlyPairs(units))
=============================================================================
