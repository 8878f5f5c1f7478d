--------------------------- MODULE MCCreateEntry ----------------------------
(* Instances of CreateEntry for TLC: the requests of each run, the device     *)
(* paths bcdedit may copy and the boot orders at the start.                   *)
EXTENDS CreateEntry, OptionBytes

CONSTANTS f, n1, n2

Request(path, metadata, next, first, pathByBcd, orderByBcd, debug, detailed) ==
    [path |-> path, description |-> "New", metadata |-> metadata,
     next |-> next, first |-> first, pathByBcd |-> pathByBcd,
     orderByBcd |-> orderByBcd, debug |-> debug, detailed |-> detailed]

Meta == <<OptData("meta")>>

MCTexts == {"", "Foreign", "foreign", "new", "New", "meta", "esp", "bootmgfw", "windows"}

\* Two concurrent calls that use the Windows API throughout.
WinApiRequests ==
    {Request("new", Meta, TRUE, first, FALSE, FALSE, FALSE, FALSE) : first \in BOOLEAN}

\* Every combination of the flags.
AllRequests ==
    {Request(path, Meta, next, first, pathByBcd, orderByBcd, debug, detailed) :
        path \in {"new", TooLong},
        next, first, pathByBcd, orderByBcd, debug, detailed \in BOOLEAN}

\* One call that sets path and description with bcdedit.
BcdPathRequests == {Request("new", Meta, FALSE, FALSE, TRUE, FALSE, FALSE, FALSE)}

Disk == Cell("hd", "esp")
Windows == FilePath("bootmgfw")

MCWinOptData == <<OptData("windows"), OptData("windows")>>

\* What Windows copies; and lists that steps 7 to 11 must refuse.
WindowsPath == {<<Disk, Windows, EndNode>>}
AllPaths == WindowsPath \cup
    {<<EndNode>>, <<Disk, EndNode>>, <<Disk, Cell("usb", ""), Windows, EndNode>>,
     <<Flawed("pci", {"function"}), Disk, Windows, EndNode>>,
     <<Cell("acpi", ""), Flawed("path", {"odd"}), EndNode>>,
     <<Cell("acpi", ""), Cell("nvme", ""), Disk, Windows, EndNode>>}

\* n1 is a name left in BootOrder by an entry that is gone.
OneOrder == {<<f>>}
DanglingOrders == {NoVar, <<f>>, <<n1, f>>}
-----------------------------------------------------------------------------
\* Bytes for the texts; a run's token is a text of its own.
MCUnits == [t \in MCTexts \cup Runs |->
              CASE t = "" -> <<>>
                [] t = "New" -> <<78, 513, 119>>
                [] t \in {"new", "bootmgfw"} -> <<92, 98, 256>>
                [] t \in {"meta", "windows"} -> <<260, 1, 32639, 4>>
                [] t \in {"Foreign", "foreign", "esp"} -> <<70, 8211>>
                [] OTHER -> <<66, 32, 49>>]

\* What a run parses, and what it has just written, decodes as its bytes do:
\* the abstraction the other properties rest on, also for what only later steps
\* and bcdedit put together.
DecodesAsItsBytes ==
    \A r \in Runs : /\ pc[r] = "parse" => DecodesAlike(data[r])
                    /\ pc[r] = "next" => DecodesAlike(entry[name[r]])
=============================================================================
