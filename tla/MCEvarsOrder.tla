---------------------------- MODULE MCEvarsOrder ----------------------------
(* Instances of EvarsOrder for TLC: boot orders of up to three entries, names *)
(* with and without digits build_efi_BootOrder refuses, and short names.      *)
EXTENDS EvarsOrder

Str(boot, rest) == [kind |-> "str", boot |-> boot, rest |-> rest]
Full(a, b, c, d) == Str(TRUE, <<a, b, c, d>>)
Order(numbers) == FlattenSeq([k \in DOMAIN numbers |-> LittleEndian(numbers[k])])

\* 598 is 0x0256 (two different bytes), 10 is 0x000A.
MCInitRaws ==
    {NoVar, <<1>>} \cup {Order(numbers) : numbers \in
        {<<1>>, <<1, 598>>, <<598, 2, 1>>, <<2, 598, 1>>, <<0, 1>>, <<1, 10>>}}

MCNextNames == {Full(0, 2, 5, 6), Full(0, 0, NonHex, 1), Str(TRUE, <<1>>)}

\* Full names, a short one, and one that cannot be written.
FullNames == {Full(0, 0, 0, 1), Full(0, 0, 0, 2), Full(0, 2, 5, 6)}
MCEntries == FullNames \cup {Str(TRUE, <<2>>), Full(0, 0, 0, 10)}
=============================================================================
