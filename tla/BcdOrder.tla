------------------------------ MODULE BcdOrder ------------------------------
(***************************************************************************)
(* The commands of WUEFI_bcdedit.py on the firmware's boot entries and on  *)
(* {fwbootmgr}'s displayorder (BootOrder) and bootsequence (BootNext).     *)
(* Each call runs bcdedit once, except cmd_fw_do_list and                  *)
(* cmd_fw_do_modify_addfirst_force: they call wsubproc without verbose,    *)
(* which it requires, and raise TypeError there, before bcdedit runs.      *)
(* Several programs call them at a time.                                   *)
(***************************************************************************)
EXTENDS BcdEnum

CONSTANTS
    Procs,        \* programs using the module
    Ids,          \* boot entries: GUIDs, other than Bootmgr
    Commands,     \* the calls they make, see CommandsAssumption
    InitOrders,   \* displayorder at the start
    MaxCalls      \* bound: the calls they make, all together

Objects == Ids \cup {Bootmgr}

\* The strings a call is given, or bcdedit prints: a well-known name is no GUID.
Spellings == {"guid", "othercase", "name", "none"}
Bodies == Objects \cup {Fwbootmgr, Malformed, None}
Strings == {s \in [body : Bodies, spelling : Spellings, len : Nat, braced : BOOLEAN,
                   hyphens : BOOLEAN, hex : BOOLEAN] : s.spelling = "name" => ~IsGuid(s)}

\* ids: the strings given; test: only print the command.
OnOne == {"remove", "bootsequence", "delete", "copy", "modify"}
OnMany == {"replace", "addfirst", "force", "addlast"}
ASSUME CommandsAssumption ==
    \A c \in Commands : /\ c.op \in OnOne \cup OnMany \cup {"list", "enum"}
                        /\ c.test \in BOOLEAN
                        /\ c.ids \in Seq(Strings)
                        /\ c.op \in OnOne => Len(c.ids) = 1
                        /\ c.op = "enum" => Len(c.ids) <= 1

\* bcdedit refuses to list what is no object; the firmware lists nothing twice.
ASSUME InitOrdersAssumption ==
    /\ InitOrders \subseteq Seq(Objects)
    /\ \A o \in InitOrders : \A i, j \in 1..Len(o) : o[i] = o[j] => i = j

ASSUME NamesAssumption == /\ Bootmgr \notin Ids /\ Fwbootmgr \notin Objects
                          /\ Malformed \notin Objects

\* None is nothing a function returns otherwise.
Targets == [id : Bodies, spelling : Spellings]
FieldNames == {"identifier", "displayorder", "bootsequence", "timeout", "device", "description"}
Entries == [identifier : Strings, fields : UNION {[keys -> Seq(Strings)] : keys \in SUBSET FieldNames}]
ASSUME SentinelAssumption == /\ None \notin Objects /\ None \notin Targets
                             /\ None \notin Seq(Strings) /\ None \notin Entries

VARIABLES
    order,        \* displayorder, a sequence of objects
    sequence,     \* bootsequence, or None
    objects,      \* the objects there are
    edited,       \* the objects a property of which was set
    pc, cmd,
    result,
    calls,
    given         \* observability: the strings the calls were given

firmware == <<order, sequence, objects, edited>>
vars == <<firmware, pc, cmd, result, calls, given>>

NoCommand == [op |-> "none", ids |-> <<>>, test |-> FALSE]

Init == /\ order \in InitOrders
        /\ sequence = None
        /\ objects = {Bootmgr} \cup ToSet(order)
        /\ edited = {}
        /\ pc = [p \in Procs |-> "idle"]
        /\ cmd = [p \in Procs |-> NoCommand]
        /\ result = [p \in Procs |-> "none"]
        /\ calls = 0
        /\ given = {}

End(p, what) == /\ pc' = [pc EXCEPT ![p] = "idle"]
                /\ cmd' = [cmd EXCEPT ![p] = NoCommand]
                /\ result' = [result EXCEPT ![p] = what]

Call(p) ==
    /\ pc[p] = "idle" /\ calls < MaxCalls
    /\ calls' = calls + 1
    /\ \E c \in Commands : /\ cmd' = [cmd EXCEPT ![p] = c]
                           /\ given' = given \cup ToSet(c.ids)
    /\ pc' = [pc EXCEPT ![p] = "called"]
    /\ result' = [result EXCEPT ![p] = "none"]
    /\ UNCHANGED firmware
-----------------------------------------------------------------------------
\* What bcdedit makes of "/set {fwbootmgr} displayorder ids [/addfirst, ...]": an
\* object given under two spellings is listed twice.
Named(targets) == [k \in DOMAIN targets |-> targets[k].id]
Kept(s, gone) ==
    LET kept[k \in 0..Len(s)] ==
          IF k = 0 THEN <<>>
          ELSE IF s[k] \in ToSet(gone) THEN kept[k - 1] ELSE Append(kept[k - 1], s[k])
    IN  kept
Minus(s, gone) == Kept(s, gone)[Len(s)]
Displayed(op, ids) == CASE op = "replace" -> ids
                        [] op = "addfirst" -> ids \o Minus(order, ids)
                        [] op = "addlast" -> Minus(order, ids) \o ids
                        [] op = "remove" -> Minus(order, ids)

\* ... and what it prints with "/v" for {fwbootmgr}, and for the others.
ListLines(key, ids) ==
    [k \in 1..Len(ids) |-> IF k = 1 THEN Field(key, BracedGuid(ids[k]))
                           ELSE Item(BracedGuid(ids[k]))]
FwbootmgrLines ==
    <<Blank, Title, Dashes, Field("identifier", BracedGuid(Fwbootmgr))>>
        \o ListLines("displayorder", order)
        \o ListLines("bootsequence", IF sequence = None THEN <<>> ELSE <<sequence>>)
        \o <<Field("timeout", Empty)>>
EntryLines(id) ==
    <<Blank, Title, Dashes, Field("identifier", BracedGuid(id)), Field("device", Empty), Word,
      Field("description", BracedGuid(id))>>
FirmwareLines(listed) ==
    FwbootmgrLines \o FlattenSeq([k \in DOMAIN listed |-> EntryLines(listed[k])])

\* cmd_entry_enum, for the whole group or for one string; [] when bcdedit fails.
EnumFields == {"displayorder", "toolsdisplayorder"}
EnumGroup == ParseEnum(FirmwareLines(SetToSeq(objects)), EnumFields)
EnumEntry(s) ==
    LET target == Filter(s, BothKnown)
    IN  IF target = None THEN <<>>
        ELSE IF target.id = Fwbootmgr THEN ParseEnum(FwbootmgrLines, EnumFields)
        ELSE IF target.id \in objects THEN ParseEnum(EntryLines(target.id), EnumFields)
        ELSE <<>>

\* subproc gives False instead of a tuple in test mode, and False[0] raises.
Runs(p) == ~cmd[p].test

\* The end of a call whose last command is "/set {fwbootmgr} displayorder ids".
SetDisplayOrder(p, op, targets) ==
    \/ /\ Runs(p) /\ ToSet(Named(targets)) \subseteq objects
       /\ order' = Displayed(op, Named(targets))
       /\ End(p, "True")
       /\ UNCHANGED <<sequence, objects, edited>>
    \/ /\ End(p, IF Runs(p) THEN "False" ELSE "raised")
       /\ UNCHANGED firmware
-----------------------------------------------------------------------------
\* cmd_fw_do_modify_replace, _addfirst, _addlast
Modify(p) ==
    /\ pc[p] = "called" /\ cmd[p].op \in {"replace", "addfirst", "addlast"}
    /\ LET targets == FilterList(cmd[p].ids, OnlyBootmgr)
       IN  IF targets = <<>> THEN End(p, "False") /\ UNCHANGED firmware
           ELSE SetDisplayOrder(p, cmd[p].op, targets)
    /\ UNCHANGED <<calls, given>>

\* cmd_fw_do_modify_remove
RemoveOne(p) ==
    /\ pc[p] = "called" /\ cmd[p].op = "remove"
    /\ LET target == Filter(cmd[p].ids[1], OnlyBootmgr)
       IN  IF target = None THEN End(p, "False") /\ UNCHANGED firmware
           ELSE SetDisplayOrder(p, "remove", <<target>>)
    /\ UNCHANGED <<calls, given>>

\* cmd_fw_bs_modify
SetSequence(p) ==
    /\ pc[p] = "called" /\ cmd[p].op = "bootsequence"
    /\ LET target == Filter(cmd[p].ids[1], OnlyBootmgr)
       IN  \/ /\ target # None /\ Runs(p) /\ target.id \in objects
              /\ sequence' = target.id
              /\ End(p, "True")
              /\ UNCHANGED <<order, objects, edited>>
           \/ /\ End(p, IF target = None \/ Runs(p) THEN "False" ELSE "raised")
              /\ UNCHANGED firmware
    /\ UNCHANGED <<calls, given>>
-----------------------------------------------------------------------------
\* cmd_fw_do_modify_addfirst_force: past the filter it raises.
AddFirstForce(p) ==
    /\ pc[p] = "called" /\ cmd[p].op = "force"
    /\ End(p, IF FilterList(cmd[p].ids, OnlyBootmgr) = <<>> THEN "False" ELSE "raised")
    /\ UNCHANGED <<firmware, calls, given>>

\* cmd_fw_do_list: its first command raises.
List(p) ==
    /\ pc[p] = "called" /\ cmd[p].op = "list"
    /\ End(p, "raised")
    /\ UNCHANGED <<firmware, calls, given>>

\* cmd_entry_enum as a call.  A bcdedit that succeeds and prints nothing leaves
\* None to parse, which raises.
Enum(p) ==
    /\ pc[p] = "called" /\ cmd[p].op = "enum"
    /\ LET whole == cmd[p].ids = <<>>
           entries == IF whole THEN EnumGroup ELSE EnumEntry(cmd[p].ids[1])
       IN  \/ End(p, IF entries = <<>> THEN "[]" ELSE "entries")
           \/ End(p, "[]")
           \/ /\ ~whole => Filter(cmd[p].ids[1], BothKnown) # None
              /\ End(p, "raised")
    /\ UNCHANGED <<firmware, calls, given>>
-----------------------------------------------------------------------------
\* cmd_entry_delete: a GUID, never one of the well-known names.  bcdedit takes
\* the object out of the lists as well.
DeleteTargetAny(s) == Filter(s, BothKnown)
DeleteTarget(s) == Filter(s, {})
Delete(p) ==
    /\ pc[p] = "called" /\ cmd[p].op = "delete"
    /\ LET target == DeleteTarget(cmd[p].ids[1])
       IN  \/ /\ target # None /\ target.id \in objects
              /\ objects' = objects \ {target.id}
              /\ edited' = edited \ {target.id}
              /\ order' = Minus(order, <<target.id>>)
              /\ sequence' = IF sequence = target.id THEN None ELSE sequence
              /\ End(p, "True")
           \/ End(p, "False") /\ UNCHANGED firmware
    /\ UNCHANGED <<calls, given>>

\* cmd_entry_copy: bcdedit lists the copy last; the GUID it prints comes back,
\* or None when the text around it is another one; no text at all raises.
Copy(p) ==
    /\ pc[p] = "called" /\ cmd[p].op = "copy"
    /\ LET target == Filter(cmd[p].ids[1], OnlyBootmgr)
       IN  \/ \E id \in Ids \ objects :
                /\ target # None /\ target.id \in objects
                /\ objects' = objects \cup {id}
                /\ order' = Append(order, id)
                /\ \E printed \in {"guid", "None", "raised"} : End(p, printed)
                /\ UNCHANGED <<sequence, edited>>
           \/ End(p, "None") /\ UNCHANGED firmware
    /\ UNCHANGED <<calls, given>>

\* cmd_entry_modify, of a property that is no list
ModifyEntry(p) ==
    /\ pc[p] = "called" /\ cmd[p].op = "modify"
    /\ LET target == Filter(cmd[p].ids[1], BothKnown)
       IN  \/ /\ target # None /\ target.id \in objects \cup {Fwbootmgr}
              /\ edited' = edited \cup {target.id}
              /\ End(p, "True")
              /\ UNCHANGED <<order, sequence, objects>>
           \/ End(p, "False") /\ UNCHANGED firmware
    /\ UNCHANGED <<calls, given>>

Step(p) == \/ Call(p)
           \/ Modify(p) \/ RemoveOne(p) \/ SetSequence(p)
           \/ AddFirstForce(p) \/ List(p) \/ Enum(p)
           \/ Delete(p) \/ Copy(p) \/ ModifyEntry(p)

Next == \E p \in Procs : Step(p)

Spec == Init /\ [][Next]_vars
-----------------------------------------------------------------------------
\* util_filter_identifier_list gives every string that was given, once and in the
\* order they came, or none of them when one is no identifier.
FilterIsAllOrNothing ==
    \A p \in Procs :
      LET ids == cmd[p].ids
          targets == FilterList(ids, OnlyBootmgr)
          target(k) == Filter(ids[k], OnlyBootmgr)
          first(j) == Min({k \in DOMAIN ids : target(k) = targets[j]})
      IN  IF \E k \in DOMAIN ids : target(k) = None THEN targets = <<>>
          ELSE /\ ToSet(targets) = {target(k) : k \in DOMAIN ids}
               /\ \A i, j \in DOMAIN targets : i < j => first(i) < first(j)

\* The firmware's display order lists an object twice only after a call gave it
\* under another name than the GUID bcdedit prints for it: the filters compare
\* strings, and {bootmgr} or a GUID in the other case is another string.
NoRepeats ==
    \A i, j \in DOMAIN order :
      i # j /\ order[i] = order[j] =>
        \E s \in given : s.body = order[i] /\ s.spelling # "guid"

\* cmd_entry_delete takes the boot manager away only when it is given its GUID:
\* "SHOULD NOT try and target identifiers such as {bootmgr}".
BootmgrStays ==
    Bootmgr \in objects \/ \E s \in given : s.body = Bootmgr /\ s.spelling # "name"

\* What parse_enum makes of the firmware's enumeration: one entry per object, in
\* the order printed, each with the fields that have a value on their line, and
\* the display order without its head.
EnumReadsBack ==
    LET entries == ParseEnum(FirmwareLines(order), EnumFields)
        group == entries[1].fields
    IN  /\ [k \in DOMAIN entries |-> entries[k].identifier]
             = [k \in 1..Len(order) + 1 |-> BracedGuid((<<Fwbootmgr>> \o order)[k])]
        /\ order # <<>> => /\ "displayorder" \in DOMAIN group
                           /\ Len(group["displayorder"]) = Len(order) - 1
                           /\ \A k \in 2..Len(order) :
                                group["displayorder"][k - 1].body = order[k]
        /\ sequence # None => group["bootsequence"] = <<BracedGuid(sequence)>>
        /\ \A k \in 2..Len(entries) : DOMAIN entries[k].fields = {"device", "description"}
=============================================================================
