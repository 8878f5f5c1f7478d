--------------------------- MODULE MCOptionLoops ----------------------------
(* Instances of OptionLoops for TLC: lists of up to three nodes with every    *)
(* flaw their parsers look for, descriptions with every combination of zero   *)
(* high and low bytes, and short lists of arbitrary bytes.                    *)
EXTENDS OptionLoops, SequencesExt

\* Texts by their code units: no pair, a pair, before and behind other characters,
\* twice, and bytes that are 0 without being one.
MCUnits == ("" :> <<>>) @@
    [A |-> <<1>>, Path |-> <<1, 256>>, low |-> <<256>>, lows |-> <<256, 256>>,
     ascii |-> <<65, 1, 255>>, wide |-> <<257, 16640>>, other |-> <<1, 257>>,
     back |-> <<256, 1>>, middle |-> <<1, 256, 1>>, late |-> <<257, 65, 16640>>,
     next |-> <<1, 1, 256>>, twice |-> <<256, 1, 256, 257, 1, 256>>]

Sound == {Cell(k, "A") : k \in {"hd", "pci", "acpi", "nvme", "usb", "fv", "end", "path"}}
Damaged == {[Cell("hd", "A") EXCEPT !.flaws = {x}] :
               x \in {"partnum", "startlba", "size", "mbrtype", "sigtype"}}
             \cup {[Cell("pci", "A") EXCEPT !.flaws = {x}] : x \in {"function", "device"}}
             \cup {[FilePath("Path") EXCEPT !.flaws = {x}] : x \in {"odd", "nodesize"}}
Final == {[Cell(k, "A") EXCEPT !.flaws = {"cut"}] : k \in {"hd", "pci", "acpi", "nvme", "path"}}
          \cup {Cell("stub", "A")}

Lists == {<<>>} \cup {Append(nodes, last) :
              nodes \in SeqOf(Sound \cup Damaged, 2), last \in Sound \cup Damaged \cup Final}

OptionOf(description, list, n, behind) ==
    <<Attributes, LengthCell(n), Description(description)>> \o list \o behind
Good == <<Cell("hd", "A"), FilePath("Path"), EndNode>>

MCOptions ==
    {OptionOf("A", list, Len(list), <<OptData("Path")>>) : list \in Lists}
      \cup {OptionOf("A", list, Len(list) + 1, <<>>) : list \in Lists}
      \cup {OptionOf(text, Good, 3, <<>>) : text \in DOMAIN MCUnits}
      \cup {<<Attributes>> \o OptionOf(text, Good, 3, <<>>) : text \in {"A", "Path"}}
      \cup {<<>>, <<Attributes>>}

\* Lists of other bytes behind a sound header, in a file path's length above all.
RawLists == {<<4, 4>> \o bytes : bytes \in SeqOf({0, 1, 4, 5}, 6)}
              \cup SeqOf({0, 4, 127}, 3)
\* Descriptions whose last character is not whole.
Shortened == {<<1, 0, 0, 0, n, 0>> \o text : n \in {0, 1}, text \in {<<65, 0, 0>>, <<65, 0, 65, 0, 0>>}}
MCRaws == {<<1, 0, 0, 0, Len(list), 0, 65, 0, 0, 0>> \o list : list \in RawLists} \cup Shortened

\* Arguments at both ends of what the builders take, and beyond.
Acpi(vendor, product, length, uid) ==
    [kind |-> "acpi", uid |-> uid,
     eisa |-> [vendor |-> vendor, product |-> product, length |-> length]]
Pci(function, device) == [kind |-> "pci", function |-> function, device |-> device]
Hd(partnum, startlba, size, guid, mbrtype, sigtype) ==
    [kind |-> "hd", partnum |-> partnum, startlba |-> startlba, size |-> size, guid |-> guid,
     mbrtype |-> mbrtype, sigtype |-> sigtype]
Ascending(n) == [i \in 1..n |-> i]

AskedNodes ==
    {Acpi(vendor, product, 7, uid) : vendor \in {<<16, 14, 16>>, <<1, 26, 1>>, <<26, 0, 26>>},
                                     product \in {-1, 0, 2563, 65535}, uid \in {0, 1, 16909060}}
      \cup {Acpi(<<16, 14, 16>>, 2563, 6, 1)}
      \cup {Pci(function, device) : function, device \in {0, 1, 255, 256}}
      \cup {Hd(partnum, startlba, size, Ascending(n), mbrtype, 2) :
              partnum, startlba \in {0, 1, 66051}, size \in {0, 2147483647},
              n \in {0, 16}, mbrtype \in {0, 2, 256}}
      \cup {[kind |-> "path", text |-> MCUnits[text]] : text \in DOMAIN MCUnits}
Few == {Acpi(<<16, 14, 16>>, 2563, 7, 1), Pci(31, 7), Hd(1, 2048, 204800, Ascending(16), 2, 2),
        [kind |-> "path", text |-> MCUnits["Path"]]}

Asked(nodes, optdata) == [attributes |-> 257, description |-> MCUnits["ascii"],
                          nodes |-> nodes, optdata |-> optdata]
MCRequests == {Asked(<<node>>, <<>>) : node \in AskedNodes}
                \cup {Asked(nodes, <<4, 4, 0>>) : nodes \in SeqOf(Few, 3)}
=============================================================================
