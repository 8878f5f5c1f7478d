---------------------------- MODULE MCEditEntry -----------------------------
(* Instances of EditEntry for TLC: two overlapping calls on a Windows-like    *)
(* entry, a shell without a path, a listed entry that is gone and entries    *)
(* the parser refuses.                                                        *)
EXTENDS EditEntry, TLC

CONSTANTS w, s, g

MCStripped == [d \in {"Old", " Old ", "New", "  ", "path"} |->
                 CASE d = " Old " -> "Old" [] d = "  " -> Blank [] OTHER -> d]

Edit(target, description, path, metadata, dry, debug, detailed) ==
    [target |-> target, description |-> description, path |-> path,
     metadata |-> metadata, dry |-> dry, debug |-> debug, detailed |-> detailed]

Meta == <<OptData("meta")>>

MCEdits ==
    {Edit(t, "New", None, None, FALSE, FALSE, FALSE) : t \in Names}
      \cup {Edit(w, "  ", None, None, FALSE, FALSE, FALSE),
            Edit(w, None, "path", None, FALSE, TRUE, FALSE),
            Edit(w, None, TooLong, Meta, FALSE, FALSE, FALSE),
            Edit(w, None, None, Meta, FALSE, TRUE, TRUE),
            Edit(s, "New", None, Meta, FALSE, FALSE, TRUE),
            Edit(w, "New", None, None, TRUE, FALSE, FALSE)}

PathEdits == {Edit(w, "New", None, None, FALSE, FALSE, FALSE)}

Disk == Cell("hd", "esp")
Shell == Cell("fv", "shell")   \* a firmware file: no parser knows the node
OldOpt == <<OptData("old"), OptData("old")>>

Entry(description, nodes, opt) == BuildLoadOption(description, nodes, opt)

WinEntries == {Entry(d, nodes, opt) : d \in {"Old", " Old ", "  "},
                 nodes \in {<<Disk, FilePath("old")>>, <<FilePath("old")>>},
                 opt \in {<<>>, OldOpt}}
ShellEntries == {Entry("Old", <<Shell>>, <<>>), Entry("Old", <<>>, OldOpt),
                 Entry("Old", <<Flawed("pci", {"device"}), FilePath("old")>>, <<>>),
                 Entry("Old", <<Flawed("path", {"odd"})>>, <<>>),
                 <<Attributes, LengthCell(4), Description("Old"), Disk>>,
                 <<Attributes>> \o Entry("Old", <<Disk, FilePath("old")>>, <<>>)}

MCInitEntries == {(w :> a) @@ (s :> b) @@ (g :> NoVar) : a \in WinEntries, b \in ShellEntries}
MCCells == {OptData("meta")}
             \cup UNION {{e[i] : i \in 1..Len(e)} : e \in WinEntries \cup ShellEntries}
MCInitOrders == {NoVar, <<w, s, g>>, <<s>>}
=============================================================================
