----------------------------- MODULE MCBcdOrder -----------------------------
(* Instances of BcdOrder for TLC: two programs, identifiers in every        *)
(* spelling, repeated, mixed with strings that are none, commands that are  *)
(* only printed, and orders of no, one, two and three objects.              *)
EXTENDS BcdOrder

CONSTANTS p, q, x, y

Command(op, ids) == [op |-> op, ids |-> ids, test |-> FALSE]
Printed(c) == [c EXCEPT !.test = TRUE]
NoBraces(id) == [BracedGuid(id) EXCEPT !.braced = FALSE]

Writers == {Command("addfirst", <<BracedGuid(y), BracedGuid(y)>>),
            Command("addfirst", <<OtherCase(Guid(x)), BracedGuid(y)>>),
            Command("addlast", <<Guid(x), Empty>>),
            Command("replace", <<Guid(y), WellKnown(Bootmgr)>>),
            Command("replace", <<NoBraces(y)>>),
            Printed(Command("addlast", <<Guid(y)>>)),
            Command("remove", <<Guid(x)>>), Command("remove", <<WellKnown(Fwbootmgr)>>),
            Command("bootsequence", <<Guid(y)>>),
            Printed(Command("bootsequence", <<Guid(y)>>))}
Raisers == {Command("list", <<>>), Command("force", <<Guid(y)>>),
            Command("force", <<Guid(y), Empty>>)}
Readers == {Command("enum", <<>>), Command("enum", <<BracedGuid(x)>>),
            Command("enum", <<WellKnown(Fwbootmgr)>>), Command("enum", <<Empty>>)}
OnEntries == {Command("delete", <<Guid(x)>>), Command("delete", <<WellKnown(Bootmgr)>>),
              Command("delete", <<BracedGuid(Bootmgr)>>),
              Command("copy", <<WellKnown(Bootmgr)>>),
              Command("modify", <<Guid(y)>>), Command("modify", <<WellKnown(Fwbootmgr)>>)}
MCCommands == Writers \cup Raisers \cup Readers \cup OnEntries

MCInitOrders == {<<>>, <<x>>, <<Bootmgr, x, y>>, <<y, Bootmgr>>}
=============================================================================
