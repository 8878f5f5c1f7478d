--------------------------- MODULE MCLocateEntry ----------------------------
(* Instances of LocateEntry for TLC: variables of one to four buffers, one   *)
(* description that ends like another one, the words of a hint in another    *)
(* field, and BootOrder missing, short or with a repetition.                 *)
EXTENDS LocateEntry, TLC

CONSTANTS a, b

Entry(description, path, opt) ==
    Append(description, Nul) \o <<PathHeader>> \o Append(path, Nul) \o opt

Short == Entry(<<"D">>, <<"p">>, <<>>)                    \* 5 symbols
Longer == Entry(<<"x", "D">>, <<"p">>, <<"m">>)           \* 7
Longest == Entry(<<"x">>, <<"q">>, <<"D", Nul, "m">>)         \* 8

MCContents == {Short, Longer, Longest}
MCInitOrders == {NoVar, <<a>>, <<a, b>>, <<b, a, b>>}

Hint(description, filepath, metadata, content) ==
    [description |-> description, filepath |-> filepath, metadata |-> metadata,
     content |-> content]

MCHints == {Hint(None, None, None, c) : c \in BOOLEAN}
             \cup {Hint(<<"D">>, p, None, TRUE) : p \in {None, <<"p">>}}
             \cup {Hint(d, <<"p">>, <<"m">>, FALSE) : d \in {None, <<"D">>}}
             \cup {Hint(None, None, m, m = <<>>) : m \in {<<>>, <<"m">>}}
=============================================================================
