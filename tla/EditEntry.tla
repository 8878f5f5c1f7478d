----------------------------- MODULE EditEntry ------------------------------
(***************************************************************************)
(* main_EditFwBootEntry of WUEFI.py: reads BootOrder, then the target      *)
(* entry, rebuilds its EFI_LOAD_OPTION with a new description, path and/or *)
(* metadata, and writes it back.  Calls on the same entry may overlap.     *)
(***************************************************************************)
EXTENDS FwStore

CONSTANTS
    Runs,       \* calls of main_EditFwBootEntry
    Edits,      \* their arguments, see EditsAssumption
    InitOrders, InitEntries,   \* BootOrder and Boot#### at the start
    Stripped,   \* str.strip() of each description in use
    Cells,      \* what the variables are made of
    None, TooLong

OptCells == {c \in Cells : c.kind = "opt"}

ASSUME CellsAssumption == \A c \in Cells : c.kind = "len" => c.n \in Nat

\* description, path, metadata may be None; dry: no setter function is given.
ASSUME EditsAssumption ==
    \A e \in Edits :
        /\ e.target \in Names
        /\ e.dry \in BOOLEAN /\ e.debug \in BOOLEAN /\ e.detailed \in BOOLEAN
        /\ e.description # None => e.description \in DOMAIN Stripped
        /\ e.path # None /\ e.path # TooLong => e.path \in DOMAIN Stripped
        /\ e.metadata # None => e.metadata \in Seq(OptCells)

\* Behind a list that ends with a file path stands nothing that looks like a node.
ASSUME EntriesAssumption ==
    \A es \in InitEntries :
        /\ es \in [Names -> Seq(Cells) \cup {NoVar}]
        /\ \A n \in Names :
             (/\ es[n] # NoVar /\ Parse(es[n]) # Unparsed
              /\ EndsWithPath(Parse(es[n]).nodes)) => Parse(es[n]).optdata \in Seq(OptCells)
ASSUME OrdersAssumption == InitOrders \subseteq {NoVar} \cup Seq(Names)

Blank == ""

VARIABLES arg, pc,
          data,      \* data_original
          outcome,   \* "running", or what the call gave: "True", "False", "()", "raised"
          wrote,     \* observability: the calls that have written, in order
          before     \* observability: the entries at the start

local == <<arg, data, outcome>>
vars == <<bootOrder, bootNext, entry, pc, local, wrote, before>>

Init == /\ bootOrder \in InitOrders
        /\ bootNext = NoVar
        /\ entry \in InitEntries
        /\ arg \in [Runs -> Edits]
        /\ pc = [r \in Runs |-> "args"]
        /\ data = [r \in Runs |-> <<>>]
        /\ outcome = [r \in Runs |-> "running"]
        /\ wrote = <<>>
        /\ before = entry

Goto(r, label) == pc' = [pc EXCEPT ![r] = label] /\ UNCHANGED outcome
End(r, what) == /\ pc' = [pc EXCEPT ![r] = "ended"]
                /\ outcome' = [outcome EXCEPT ![r] = what]

\* Every result of a call with detailed_output is return_result(...) without
\* payload: the empty tuple, for success as for failure.
Give(r, what) == End(r, IF arg[r].detailed THEN "()" ELSE what)

NewDescription(r) == arg[r].description # None /\ Stripped[arg[r].description] # Blank
NewPath(r) == /\ arg[r].path # None
              /\ arg[r].path # TooLong => Stripped[arg[r].path] # Blank
NewMetadata(r) == arg[r].metadata # None
-----------------------------------------------------------------------------
\* (1)
CheckArguments(r) ==
    /\ pc[r] = "args"
    /\ IF NewDescription(r) \/ NewPath(r) \/ NewMetadata(r)
       THEN Goto(r, "order") ELSE Give(r, "False")
    /\ UNCHANGED <<store, arg, data, wrote, before>>

\* (2, 3) A BootOrder that cannot be read raises: WinError under debug, the len
\* of None otherwise.
ReadOrder(r) ==
    /\ pc[r] = "order"
    /\ \/ /\ bootOrder # NoVar
          /\ IF arg[r].target \in Listed(bootOrder) THEN Goto(r, "read") ELSE Give(r, "False")
       \/ End(r, "raised")
    /\ UNCHANGED <<store, arg, data, wrote, before>>

\* (4)
ReadEntry(r) ==
    /\ pc[r] = "read"
    /\ Exists(arg[r].target)
    /\ data' = [data EXCEPT ![r] = entry[arg[r].target]]
    /\ Goto(r, "parse")
    /\ UNCHANGED <<store, arg, wrote, before>>

ReadEntryFails(r) ==
    /\ pc[r] = "read"
    /\ IF arg[r].debug THEN End(r, "raised") ELSE Give(r, "False")
    /\ UNCHANGED <<store, arg, data, wrote, before>>

\* (5 .. 9) The entry decodes, has a description, and its list ends with a file
\* path and END.
Described(parsed) == parsed.description # "" /\ Stripped[parsed.description] # Blank
AcceptsAny(parsed) == Described(parsed)
Accepts(parsed) == Described(parsed) /\ EndsWithPath(parsed.nodes)

\* ... and the new node can be built (OverflowError otherwise).
CheckEntry(r) ==
    /\ pc[r] = "parse"
    /\ LET parsed == Parse(data[r])
       IN  IF ParseRaises(data[r]) THEN End(r, "raised")
           ELSE IF parsed = Unparsed \/ ~Accepts(parsed) THEN Give(r, "False")
           ELSE IF arg[r].path = TooLong THEN End(r, "raised")
           ELSE IF arg[r].dry THEN End(r, "False")
           ELSE Goto(r, "write")
    /\ UNCHANGED <<store, arg, data, wrote, before>>

\* The new payload.  Its length field counts the new list, but the list itself
\* is not in it: newdata+newdata+newdata_filepathlist is an expression whose
\* value is dropped.
NewList(r) ==
    LET parsed == Parse(data[r])
    IN  IF NewPath(r)
        THEN Slice(data[r], parsed.start, parsed.end - 2) \o <<FilePath(arg[r].path), EndNode>>
        ELSE Slice(data[r], parsed.start, parsed.end)

OptDataFromNext(end) == end + 1
OptDataFrom(end) == end

NewData(r) ==
    LET parsed == Parse(data[r])
    IN  Slice(data[r], 0, 1)
          \o <<LengthCell(Len(NewList(r))),
               Description(IF NewDescription(r) THEN arg[r].description
                           ELSE Stripped[parsed.description])>>
          \o (IF NewMetadata(r) THEN arg[r].metadata
              ELSE Slice(data[r], OptDataFrom(parsed.end), Len(data[r])))

WriteEntry(r) ==
    /\ pc[r] = "write"
    /\ PutEntry(arg[r].target, NewData(r))
    /\ Give(r, "True")
    /\ wrote' = Append(wrote, r)
    /\ UNCHANGED <<arg, data, before>>

WriteEntryFails(r) ==
    /\ pc[r] = "write"
    /\ IF arg[r].debug THEN End(r, "raised") ELSE Give(r, "False")
    /\ UNCHANGED <<store, arg, data, wrote, before>>

Step(r) == \/ CheckArguments(r) \/ ReadOrder(r)
           \/ ReadEntry(r) \/ ReadEntryFails(r) \/ CheckEntry(r)
           \/ WriteEntry(r) \/ WriteEntryFails(r)

Next == \E r \in Runs : Step(r)

Spec == Init /\ [][Next]_vars
-----------------------------------------------------------------------------
\* The variables keep their types, and a call has an answer exactly when it ended.
TypeOK ==
    /\ bootOrder = NoVar \/ bootOrder \in Seq(Names)
    /\ bootNext \in Names \cup {NoVar}
    /\ DOMAIN entry = Names
    /\ arg \in [Runs -> Edits]
    /\ pc \in [Runs -> {"args", "order", "read", "parse", "write", "ended"}]
    /\ outcome \in [Runs -> {"running", "True", "False", "()", "raised"}]
    /\ \A r \in Runs : outcome[r] = "running" <=> pc[r] # "ended"
    /\ wrote \in Seq(Runs)
    /\ DOMAIN before = Names

\* An edit changes its target only, and only when what it read of it was an
\* entry that ends with a file path: an entry of another kind (a shell, a network
\* boot, one the parser gives up on) comes out of any number of calls unharmed.
OnlyPathEntriesChange ==
    \A n \in Names : entry[n] # before[n] =>
        /\ \E i \in 1..Len(wrote) : arg[wrote[i]].target = n
        /\ before[n] # NoVar
        /\ Parse(before[n]) # Unparsed
        /\ EndsWithPath(Parse(before[n]).nodes)

\* The fields a call was not asked to change are the same after it, and the
\* asked ones are those of the last writer, for calls that overlap as well.
\* (What no call changes: Attributes, and BootOrder.)
LastWriterOf(n) ==
    LET mine == {i \in 1..Len(wrote) : arg[wrote[i]].target = n}
    IN  wrote[CHOOSE i \in mine : \A j \in mine : j <= i]
Tail3(cells) == SubSeq(cells, 4, Len(cells))

OptDataKept ==
    \A n \in Names : entry[n] # before[n] =>
        LET r == LastWriterOf(n)
        IN  /\ entry[n][1] = before[n][1]
            /\ Tail3(entry[n]) =
                 IF NewMetadata(r) THEN arg[r].metadata ELSE Parse(before[n]).optdata

\* WUEFI.py:647 "Edits the filepath, description and/or metadata of an existing
\* boot entry": after a call that returns True the entry still has a path.
EditedStillHasPath ==
    \A r \in Runs : outcome[r] = "True" =>
        /\ Parse(entry[arg[r].target]) # Unparsed
        /\ EndsWithPath(Parse(entry[arg[r].target]).nodes)
=============================================================================
