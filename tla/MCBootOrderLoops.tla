-------------------------- MODULE MCBootOrderLoops --------------------------
(* Bounded inputs for BootOrderLoops: byte strings of up to 4 bytes over     *)
(* bytes that give every kind of digit, lists of up to 3 entries.            *)
EXTENDS BootOrderLoops, SequencesExt

MCBytes == {0, 1, 9, 10, 153, 160, 255}
MCDatas == SeqOf(MCBytes, 4)

Str(boot, rest) == [kind |-> "str", boot |-> boot, rest |-> rest]
Num(n) == [kind |-> "int", n |-> n]

MCEntries ==
    {Num(0), Num(1), Num(258), Num(65535), Num(65536), Num(-1),
     BootName(0), BootName(1), BootName(39321), BootName(26),
     Str(TRUE, <<>>), Str(TRUE, <<7>>), Str(TRUE, <<1, 0, 0, 0, 0>>),
     Str(TRUE, <<0, 0, 0, NonHex>>), Str(FALSE, <<0, 0, 0, 1>>)}
MCLists == SeqOf(MCEntries, 3)

=============================================================================
