---------------------------- MODULE NodeBuilders ----------------------------
(***************************************************************************)
(* The builders of device-path nodes, on bytes, and the fields their       *)
(* parsers give back.  A node is asked for by a record of the builder's    *)
(* arguments; a builder takes it or gives None.  An EISA id is kept as     *)
(* what build_spec_EISAID_to_HID looks at: its length, its three letters   *)
(* (1..26, 0 for no letter; letters outside of A..Z are left out) and what *)
(* int(..., 16) makes of the rest.  Numbers are below 2^31, which is 0 and *)
(* everything else to is_uint32 and is_uint64.                             *)
(***************************************************************************)
EXTENDS OptionBytes

\* int.to_bytes and int.from_bytes, little end first
Weight == <<1, 256, 65536, 16777216>>
ToBytes(n, size) == [i \in 1..size |-> IF i > 4 THEN 0 ELSE (n \div Weight[i]) % 256]
FromBytes(bytes) ==
    LET from[i \in 1..(Len(bytes) + 1)] ==
          IF i > Len(bytes) THEN 0 ELSE bytes[i] + 256 * from[i + 1]
    IN  from[1]

\* is_uint8 and its siblings; with inc_zero=True they would let 0 pass.
FitsIn(n, size) == size < 4 => n < Weight[size + 1]
IsUintIncZero(n, size) == n >= 0 /\ FitsIn(n, size)
IsUint(n, size) == n > 0 /\ FitsIn(n, size)

\* UUID.bytes_le and UUID(bytes_le=...): the first three groups turned round.
BytesLe(guid) == Reverse(SubSeq(guid, 1, 4)) \o Reverse(SubSeq(guid, 5, 6))
                   \o Reverse(SubSeq(guid, 7, 8)) \o SubSeq(guid, 9, 16)

\* Five bits for a letter, the number in the upper half.
EisaOk(eisa) == eisa.length = 7 /\ \A i \in 1..3 : eisa.vendor[i] # 0
EisaToHid(eisa) ==
    LittleEndian16(1024 * eisa.vendor[1] + 32 * eisa.vendor[2] + eisa.vendor[3])
      \o LittleEndian16(eisa.product)
HidToEisa(hid) ==
    LET code == Value16(hid, 0)
    IN  [length |-> 7, product |-> Value16(hid, 2),
         vendor |-> <<(code \div 1024) % 32, (code \div 32) % 32, code % 32>>]
-----------------------------------------------------------------------------
\* What the builders accept; a negative number of an EISA id and a path of 64K
\* raise instead.
Taken(node) ==
    CASE node.kind = "acpi" -> /\ EisaOk(node.eisa)
                               /\ node.eisa.product >= 0
                               /\ IsUint(node.uid, 4)
      [] node.kind = "pci" -> IsUint(node.function, 1) /\ IsUint(node.device, 1)
      [] node.kind = "hd" -> /\ IsUint(node.partnum, 4)
                             /\ IsUint(node.startlba, 8) /\ IsUint(node.size, 8)
                             /\ Len(node.guid) = 16
                             /\ IsUint(node.mbrtype, 1) /\ IsUint(node.sigtype, 1)
      [] node.kind = "path" -> 6 + 2 * Len(node.text) < 65536

Built(node) ==
    CASE node.kind = "acpi" -> Header.acpi \o EisaToHid(node.eisa) \o ToBytes(node.uid, 4)
      [] node.kind = "pci" -> Header.pci \o <<node.function, node.device>>
      [] node.kind = "hd" -> Header.hd \o ToBytes(node.partnum, 4) \o ToBytes(node.startlba, 8)
                               \o ToBytes(node.size, 8) \o BytesLe(node.guid)
                               \o <<node.mbrtype, node.sigtype>>
      [] node.kind = "path" ->
           LET text == Encode(node.text) \o <<0, 0>>
           IN  PathHeader \o LittleEndian16(4 + Len(text)) \o text

\* set_evar_BootNNNN with the nodes of those builders; to_bytes raises when the
\* list is longer than its length field can say.
BuiltList(nodes) == FlattenSeq([i \in 1..Len(nodes) |-> Built(nodes[i])]) \o EndHeader
Buildable(asked) ==
    /\ \A i \in 1..Len(asked.nodes) : Taken(asked.nodes[i])
    /\ Len(BuiltList(asked.nodes)) < 65536
BuiltOption(asked) ==
    LET list == BuiltList(asked.nodes)
    IN  ToBytes(asked.attributes, 4) \o ToBytes(Len(list), 2)
          \o BuildDescription(asked.description) \o list \o asked.optdata

\* The fields a round of the walk has read.
Read(round) ==
    LET int(at, size) == FromBytes(PySlice(round.bytes, at, at + size))
    IN  CASE round.kind = "acpi" -> [kind |-> "acpi", uid |-> int(8, 4),
                                     eisa |-> HidToEisa(PySlice(round.bytes, 4, 8))]
          [] round.kind = "pci" -> [kind |-> "pci", function |-> int(4, 1), device |-> int(5, 1)]
          [] round.kind = "hd" -> [kind |-> "hd", partnum |-> int(4, 4), startlba |-> int(8, 8),
                                   size |-> int(16, 8), guid |-> BytesLe(PySlice(round.bytes, 24, 40)),
                                   mbrtype |-> int(40, 1), sigtype |-> int(41, 1)]
          [] round.kind = "path" -> [kind |-> "path", text |-> round.text]
=============================================================================
