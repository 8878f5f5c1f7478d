------------------------------ MODULE BcdEnum -------------------------------
(***************************************************************************)
(* What WUEFI_bcdedit.py does with identifiers and with the text "bcdedit  *)
(* /enum" prints.                                                          *)
(*                                                                         *)
(* A string is kept as what its checks look at: its length, whether it     *)
(* stands in braces, whether it has the hyphens and the digits of a GUID   *)
(* (between the braces when both are there), the object it names, and how: *)
(* by its GUID as bcdedit prints it, by its GUID in the other case, or by  *)
(* its well-known name.                                                    *)
(* A line of text is a title, dashes, a field with its value, a further    *)
(* value of the field above (these lines start with spaces), a word alone, *)
(* or blank.                                                               *)
(***************************************************************************)
EXTENDS Integers, Sequences, FiniteSets, SequencesExt

CONSTANTS None, Malformed, Bootmgr, Fwbootmgr

Text(body, spelling, len, braced, hyphens, hex) ==
    [body |-> body, spelling |-> spelling, len |-> len, braced |-> braced,
     hyphens |-> hyphens, hex |-> hex]
Guid(id) == Text(id, "guid", 36, FALSE, TRUE, TRUE)
BracedGuid(id) == Text(id, "guid", 38, TRUE, TRUE, TRUE)
WellKnown(id) == Text(id, "name", 9, TRUE, FALSE, FALSE)
Empty == Text(None, "none", 0, FALSE, FALSE, FALSE)
OtherCase(s) == [s EXCEPT !.spelling = "othercase"]

\* is_guid.  38 characters without braces pass as well: nothing is cut off them.
IsGuid(s) == s.len \in {36, 38} /\ s.hyphens /\ s.hex

\* util_filter_identifier: the string a command is given for s, or None.  The
\* spelling stays, only missing braces are added.
Target(id, spelling) == [id |-> id, spelling |-> spelling]
Filter(s, whitelist) ==
    IF s \in whitelist THEN Target(s.body, s.spelling)
    ELSE IF ~IsGuid(s) THEN None
    ELSE Target(IF s.len = 36 \/ s.braced THEN s.body ELSE Malformed, s.spelling)

BothKnown == {WellKnown(Bootmgr), WellKnown(Fwbootmgr)}
OnlyBootmgr == {WellKnown(Bootmgr)}

\* util_filter_identifier_list: a repeated string makes the list that is
\* expected shorter, the first bad one ends the loop.
TakeOneSkipping(acc, s, whitelist) ==
    LET target == Filter(s, whitelist)
    IN  IF acc.stopped THEN acc
        ELSE IF target = None \/ target \in ToSet(acc.targets) THEN [acc EXCEPT !.maxlen = @ - 1]
        ELSE [acc EXCEPT !.targets = Append(@, target)]
TakeOneRepeating(acc, s, whitelist) ==
    LET target == Filter(s, whitelist)
    IN  IF acc.stopped THEN acc
        ELSE IF target = None THEN [acc EXCEPT !.stopped = TRUE]
        ELSE [acc EXCEPT !.targets = Append(@, target)]
TakeOne(acc, s, whitelist) ==
    LET target == Filter(s, whitelist)
    IN  IF acc.stopped THEN acc
        ELSE IF target = None THEN [acc EXCEPT !.stopped = TRUE]
        ELSE IF target \in ToSet(acc.targets) THEN [acc EXCEPT !.maxlen = @ - 1]
        ELSE [acc EXCEPT !.targets = Append(@, target)]
Taken(ids, whitelist) ==
    LET taken[k \in 0..Len(ids)] ==
          IF k = 0 THEN [targets |-> <<>>, maxlen |-> Len(ids), stopped |-> FALSE]
          ELSE TakeOne(taken[k - 1], ids[k], whitelist)
    IN  taken
FilterList(ids, whitelist) ==
    LET last == Taken(ids, whitelist)[Len(ids)]
    IN  IF Len(last.targets) # last.maxlen THEN <<>> ELSE last.targets
-----------------------------------------------------------------------------
Line(kind, key, value) == [kind |-> kind, key |-> key, value |-> value]
Title == Line("title", "", Empty)
Dashes == Line("dashes", "", Empty)
Field(key, value) == Line("field", key, value)
Item(value) == Line("item", "", value)
Word == Line("word", "", Empty)
Blank == Line("blank", "", Empty)

\* The first position from k on that fails Goes, or the end of the text.
FirstFrom(k, Goes(_), lines) ==
    LET stops == {j \in k..Len(lines) : ~Goes(lines[j])}
    IN  IF stops = {} THEN Len(lines) + 1
        ELSE CHOOSE j \in stops : \A m \in stops : j <= m

\* parse_enum_entry_listfield: the values on the lines after the one at k.  The
\* value on that line itself, the first of the list, is never used.
ListFieldFromName(lines, k) ==
    LET end == FirstFrom(k + 1, LAMBDA l : l.kind = "item", lines)
    IN  [j \in 1..(end - k) |-> lines[k + j - 1].value]
ListField(lines, k) ==
    LET end == FirstFrom(k + 1, LAMBDA l : l.kind = "item", lines)
    IN  [j \in 1..(end - k - 1) |-> lines[k + j].value]

\* parse_enum_entry, for the dashes at u: the entry, or {} (None here) without
\* a title above and a field below.
EndOfEntry(lines, u) == FirstFrom(u + 2, LAMBDA l : l.kind # "blank", lines)
ParseEntry(lines, u, kli) ==
    LET named(key) == {k \in (u + 2)..(EndOfEntry(lines, u) - 1) :
                         lines[k].kind = "field" /\ lines[k].key = key}
        keys == {key \in {lines[k].key : k \in DOMAIN lines} : named(key) # {}}
        last(key) == CHOOSE k \in named(key) : \A j \in named(key) : j <= k
    IN  IF lines[u - 1].kind = "blank" \/ lines[u + 1].kind # "field" THEN None
        ELSE [identifier |-> lines[u + 1].value,
              fields |-> [key \in keys |-> IF key \in kli THEN ListField(lines, last(key))
                                           ELSE <<lines[last(key)].value>>]]

\* parse_enum: goes on behind the entry it has parsed.  (A text that starts or
\* ends with dashes would make it look at a line that is not there.)
ParseEnum(lines, kli) ==
    LET from[k \in 1..Len(lines) + 1] ==
          IF k > Len(lines) THEN <<>>
          ELSE LET parsed == IF lines[k].kind = "dashes" THEN ParseEntry(lines, k, kli)
                             ELSE None
               IN  IF parsed = None THEN from[k + 1]
                   ELSE <<parsed>> \o from[EndOfEntry(lines, k)]
    IN  from[1]
=============================================================================
