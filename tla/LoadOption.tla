----------------------------- MODULE LoadOption -----------------------------
(***************************************************************************)
(* The EFI_LOAD_OPTION inside a Boot#### variable, as WUEFI_serde.py reads *)
(* and builds it.  The bytes are kept as a sequence of cells, one for each *)
(* field or device-path node:                                              *)
(*    Attributes, FilePathListLength, Description, node*, OptionalData*    *)
(* so that lengths and offsets are counted in cells (offset o of the code  *)
(* is the number of cells before it, a slice data[a:b] is Slice).          *)
(* Attributes is always _ELO_ATTR_ACTIVE (bytes 01 00 00 00).  A node      *)
(* carries its flaws: the fields that are zero, "cut" when the data ends   *)
(* inside it, "odd" when a file path has an odd number of bytes.           *)
(* Texts stand for descriptions that end where their terminator stands;    *)
(* OptionBytes has the bytes, and those that do not.                       *)
(***************************************************************************)
EXTENDS Integers, Sequences, FiniteSets

CONSTANT Unparsed   \* the empty dict of a parser that gave up

Cell(kind, val) == [kind |-> kind, val |-> val, flaws |-> {}]
Flawed(kind, flaws) == [kind |-> kind, val |-> "", flaws |-> flaws]

Attributes == Cell("attr", "")
LengthCell(n) == [kind |-> "len", n |-> n]
Description(d) == Cell("desc", d)
FilePath(p) == Cell("path", p)
EndNode == Cell("end", "")
RawNode == Cell("raw", "")
OptData(o) == Cell("opt", o)

Slice(data, a, b) == SubSeq(data, a + 1, b)
-----------------------------------------------------------------------------
\* The node parsers.  The four fixed-size ones refuse a node that is cut or
\* one of whose checked fields is 0 (is_uint8, is_uint32 and is_uint64 with
\* their default inc_zero=False); ACPI and NVMe check no field.
HardDriveOk(c) ==
    c.flaws \cap {"cut", "partnum", "startlba", "size", "mbrtype", "sigtype"} = {}
PciOk(c) == c.flaws \cap {"cut", "function", "device"} = {}
AcpiOk(c) == "cut" \notin c.flaws
NvmeOk(c) == "cut" \notin c.flaws
\* the length field of the header must be non-zero and within the data
FilePathOk(c) == c.flaws \cap {"cut", "nodesize"} = {}

Known == {"hd", "pci", "acpi", "nvme", "path"}
NodeKinds == Known \cup {"end", "raw", "usb", "fv", "stub"}
Flaws == {"cut", "odd", "partnum", "startlba", "size", "mbrtype", "sigtype",
          "function", "device", "nodesize"}

NodeOk(c) == \/ c.kind = "hd" /\ HardDriveOk(c)
             \/ c.kind = "pci" /\ PciOk(c)
             \/ c.kind = "acpi" /\ AcpiOk(c)
             \/ c.kind = "nvme" /\ NvmeOk(c)
             \/ c.kind = "path" /\ FilePathOk(c)

\* What the list ends with at the first cell that is not a good node: the end
\* node itself, nothing for a known node its parser refused ("corrupted"),
\* one raw node that swallows everything left for a header nobody knows.
LastNode(c) == CASE c.kind = "end" -> <<EndNode>>
                 [] c.kind \in Known -> <<>>
                 [] OTHER -> <<RawNode>>

\* parse_efi_elo_filepathlist: the nodes up to the first that stops it.
Stops(fpl) == {i \in 1..Len(fpl) : ~NodeOk(fpl[i])}
FirstStop(fpl) == CHOOSE i \in Stops(fpl) : \A j \in Stops(fpl) : i <= j
Nodes(fpl) ==
    IF Stops(fpl) = {}
    THEN fpl
    ELSE SubSeq(fpl, 1, FirstStop(fpl) - 1) \o LastNode(fpl[FirstStop(fpl)])

\* The parser raises instead: an odd path cannot be decoded, and a lone last
\* byte 04 passes the substring test "in (_ELO_NODE_MEDIA_FILEPATH)" but is no
\* key of known_parsers_vsn.
NodesRaise(fpl) ==
    \E i \in 1..Len(fpl) :
        /\ \A j \in 1..(i - 1) : NodeOk(fpl[j])
        /\ \/ fpl[i].kind = "path" /\ FilePathOk(fpl[i]) /\ "odd" \in fpl[i].flaws
           \/ fpl[i].kind = "stub"
-----------------------------------------------------------------------------
\* parse_efi_EFI_LOAD_OPTION.  With a well-placed header the description and
\* the list are where the length says.  When the Attributes stand twice the
\* second one is taken for FilePathListLength (1) and an empty Description, and
\* the list is the low byte of the length that follows: a node nobody knows (bound:
\* no list has 4 bytes modulo 256, where that byte would be taken for the type of a
\* file path, and the parser raise).  Anything else, and a length that passes the
\* end, is refused.
HeaderOk(data) == /\ Len(data) >= 3
                  /\ data[1].kind = "attr"
                  /\ data[2].kind = "len"
                  /\ data[3].kind = "desc"
AttributesTwice(data) == /\ Len(data) >= 4
                         /\ data[1].kind = "attr"
                         /\ data[2].kind = "attr"

Parse(data) ==
    IF AttributesTwice(data)
    THEN [description |-> "", nodes |-> <<RawNode>>, start |-> 2, end |-> 3,
          optdata |-> Slice(data, 3, Len(data))]
    ELSE IF HeaderOk(data) /\ 3 + data[2].n <= Len(data)
    THEN [description |-> data[3].val,
          nodes |-> Nodes(Slice(data, 3, 3 + data[2].n)),
          start |-> 3, end |-> 3 + data[2].n,
          optdata |-> Slice(data, 3 + data[2].n, Len(data))]
    ELSE Unparsed

ParseRaises(data) ==
    /\ HeaderOk(data)
    /\ 3 + data[2].n <= Len(data)
    /\ NodesRaise(Slice(data, 3, 3 + data[2].n))

\* The payload set_evar_BootNNNN puts together.
BuildLoadOption(description, nodes, opdata) ==
    <<Attributes, LengthCell(Len(nodes) + 1), Description(description)>>
        \o Append(nodes, EndNode) \o opdata

\* The three conditions under which main_CreateFwBootEntry and
\* main_EditFwBootEntry go on: at least two nodes, END last, a file path before.
EndsWithPath(nodes) ==
    /\ Len(nodes) > 1
    /\ nodes[Len(nodes)].kind = "end"
    /\ nodes[Len(nodes) - 1].kind = "path"
=============================================================================
