---------------------------- MODULE CreateEntry -----------------------------
(***************************************************************************)
(* main_CreateFwBootEntry of WUEFI.py: a boot entry is made by letting     *)
(* bcdedit copy the one of Windows under a random description, finding the *)
(* copy's Boot#### name by that description, rewriting the variable, and   *)
(* then, when asked, arming BootNext and BootOrder.  Every call that       *)
(* leaves the process (bcdedit, a read or a write of a variable) is one    *)
(* action; each may fail, between two of them another run of the program,  *)
(* another program or the end of the process can come.                     *)
(*                                                                         *)
(* pc[r] names the numbered step of the source that run r takes next.      *)
(***************************************************************************)
EXTENDS FwStore

CONSTANTS
    Runs,         \* calls of main_CreateFwBootEntry, each in its own process
    Requests,     \* the arguments a run may be given
    Templates,    \* device paths bcdedit can copy from {bootmgr}
    WinOptData,   \* OptionalData of the copied entry
    Texts,        \* paths, descriptions and contents of nodes
    Foreign,      \* names of the entries that are there at the start
    InitOrders,   \* values of BootOrder at the start
    EnvBudget,    \* bound on the steps of other programs
    None, TooLong \* Python's None; a path no node length can hold

\* What a variable may hold.  The random token of a run, see TmpDescription, is
\* no text anybody else uses.
Cells == [kind : NodeKinds \cup {"attr", "desc", "opt"},
          val : Texts \cup Runs \cup {TooLong}, flaws : SUBSET Flaws]
           \cup [kind : {"len"}, n : Nat]
NodeCells == [kind : NodeKinds, val : Texts, flaws : SUBSET Flaws]
OptCells == [kind : {"opt"}, val : Texts, flaws : {{}}]

ASSUME TextsAssumption == /\ {"", "Foreign", "foreign"} \subseteq Texts
                          /\ \A r \in Runs : r \notin Texts

\* A request has the fields path, description, metadata (empty for None) and the
\* six flags next, first (set_BootNext, set_BootOrder_addfirst), pathByBcd,
\* orderByBcd (the two cfg_ arguments), debug and detailed (detailed_output).
ASSUME RequestsAssumption ==
    \A q \in Requests : /\ q.path \in Texts \cup {TooLong}
                        /\ q.description \in Texts
                        /\ q.metadata \in Seq(OptCells)

ASSUME BcdAssumption == Templates \subseteq Seq(NodeCells) /\ WinOptData \in Seq(OptCells)
\* An end node ends the list it stands in.
ASSUME TemplatesAssumption ==
    \A fpl \in Templates : \A i \in 1..(Len(fpl) - 1) : fpl[i].kind # "end"
ASSUME StoreAssumption == InitOrders \subseteq {NoVar} \cup (Seq(Names) \ {<<>>})
ASSUME SentinelAssumption == /\ None \notin Names
                             /\ NoVar \notin Names
                             /\ NoVar \notin Seq(Cells) /\ NoVar \notin Seq(Names)
\* What the parser gives of an entry, and what it gives when it gives up.
ParsedEntries == [description : Texts, nodes : Seq(Cells), start : Nat, end : Nat,
                  optdata : Seq(Cells)]
ASSUME ParserAssumption == Unparsed \notin ParsedEntries
ASSUME BudgetAssumption == EnvBudget \in Nat

\* "BootEntry "+token_hex(16): the random token stands for the run that drew it.
TmpDescription(r) == r

VARIABLES
    arg,      \* arguments of a run
    pc,
    guid,     \* entry_guid (None until known)
    order,    \* boot_order, the tuple read at step 2
    idx,      \* position of the scan in it
    found,    \* found
    name,     \* entry_name (None until known)
    data,     \* data_curr
    notes,    \* notes
    outcome,  \* how the call ended and what it gave its caller
    own,      \* observability: the entry bcdedit made for the run
    env       \* steps other programs have taken

local == <<arg, guid, order, idx, found, name, data, notes, outcome>>
vars == <<bootOrder, bootNext, entry, pc, local, own, env>>

Ended == {"returned", "raised", "killed"}
Running == [step |-> 0, value |-> None]

Init ==
    /\ bootOrder \in InitOrders
    /\ bootNext = NoVar
    /\ entry = [n \in Names |->
                  IF n \in Foreign
                  THEN BuildLoadOption("Foreign", <<Cell("hd", ""), FilePath("foreign")>>, <<>>)
                  ELSE NoVar]
    /\ arg \in [Runs -> Requests]
    /\ pc = [r \in Runs |-> "copy"]
    /\ guid = [r \in Runs |-> None]
    /\ order = [r \in Runs |-> <<>>]
    /\ idx = [r \in Runs |-> 1]
    /\ found = [r \in Runs |-> <<>>]
    /\ name = [r \in Runs |-> None]
    /\ data = [r \in Runs |-> <<>>]
    /\ notes = [r \in Runs |-> <<>>]
    /\ outcome = [r \in Runs |-> Running]
    /\ own = [r \in Runs |-> None]
    /\ env = 0
-----------------------------------------------------------------------------
\* How a call ends.  A failing step goes through return_result: it raises when
\* both detailed_output and debug are set, gives the payload alone when only
\* detailed_output is, and otherwise the call gives None.
Goto(r, label) == pc' = [pc EXCEPT ![r] = label]
Raise(r, step) ==
    /\ Goto(r, "raised")
    /\ outcome' = [outcome EXCEPT ![r] = [step |-> step, value |-> None]]
Return(r, step, value) ==
    /\ Goto(r, "returned")
    /\ outcome' = [outcome EXCEPT ![r] = [step |-> step, value |-> value]]
ReturnResult(step, payload) == payload
Fail(r, step, payload) ==
    IF arg[r].detailed /\ arg[r].debug
    THEN Raise(r, step)
    ELSE Return(r, step, IF arg[r].detailed THEN ReturnResult(step, payload) ELSE None)
Continue(r, label) == Goto(r, label) /\ UNCHANGED outcome

GuidOf(r) == <<"guid", guid[r]>>
NameOf(r) == <<"name", name[r]>>
Note(r, which) == notes' = [notes EXCEPT ![r] = Append(@, <<"note", which>>)]
-----------------------------------------------------------------------------
\* (1) bcdedit /copy {bootmgr} /d tmp_desc, and the GUID in what it prints.
\* The command fails; or the entry is there and the GUID is read off the output,
\* or cannot be, or there is no output (subproc gives None for it, which has no
\* method find).
CopyFails(r) ==
    /\ pc[r] = "copy"
    /\ Fail(r, 1, <<>>)
    /\ UNCHANGED <<store, arg, guid, order, idx, found, name, data, notes, own, env>>

FreeName(n) == ~Exists(n)

CopyEntry(r) ==
    /\ pc[r] = "copy"
    /\ \E n \in Names, fpl \in Templates, listed \in BOOLEAN :
         /\ FreeName(n)
         /\ BcdCopy(n, TmpDescription(r), fpl, WinOptData, listed)
         /\ own' = [own EXCEPT ![r] = n]
         /\ \/ guid' = [guid EXCEPT ![r] = n] /\ Continue(r, "order")
            \/ UNCHANGED guid /\ (Fail(r, 1, <<>>) \/ Raise(r, 1))
    /\ UNCHANGED <<arg, order, idx, found, name, data, notes, env>>

\* What a scan of all the variables, listed or not, would go through.
AllEntries ==
    LET all == {n \in Names : Exists(n)}
    IN  CHOOSE s \in [1..Cardinality(all) -> all] : all = {s[i] : i \in DOMAIN s}
ListToScan == bootOrder

\* (2) get_evar_BootOrder, with debug=False: a read that fails gives None, and
\* len(None) raises.  (A variable is never empty, so len(...)==0 cannot be.)
ReadOrder(r) ==
    /\ pc[r] = "order"
    /\ bootOrder # NoVar
    /\ order' = [order EXCEPT ![r] = ListToScan]
    /\ Continue(r, "scan")
    /\ UNCHANGED <<store, arg, guid, idx, found, name, data, notes, own, env>>

ReadOrderFails(r) ==
    /\ pc[r] = "order"
    /\ Raise(r, 2)
    /\ UNCHANGED <<store, arg, guid, order, idx, found, name, data, notes, own, env>>

\* (3) One round of the scan: the bytes of the temporary description are looked
\* for anywhere in the variable.
HasTemporary(cells, r) ==
    \E i \in 1..Len(cells) : cells[i] = Description(TmpDescription(r))
\* what a match on the common prefix "BootEntry " would take
HasAnyTemporary(cells, r) == \E q \in Runs : HasTemporary(cells, q)
Matches(cells, r) == HasTemporary(cells, r)

ScanningShort(r) == pc[r] = "scan" /\ idx[r] < Len(order[r])
Scanning(r) == pc[r] = "scan" /\ idx[r] <= Len(order[r])

ScanName(r) ==
    /\ Scanning(r)
    /\ LET n == order[r][idx[r]]
       IN  /\ Exists(n)
           /\ found' = [found EXCEPT ![r] = IF Matches(entry[n], r) THEN Append(@, n) ELSE @]
    /\ idx' = [idx EXCEPT ![r] = @ + 1]
    /\ UNCHANGED <<store, pc, arg, guid, order, name, data, notes, outcome, own, env>>

\* read_efi_variable is called with its default debug=True and raises WinError
\* for a variable that is not there, or that cannot be read.
ScanRaises(r) ==
    /\ Scanning(r)
    /\ Raise(r, 3)
    /\ UNCHANGED <<store, arg, guid, order, idx, found, name, data, notes, own, env>>

AfterScan(r) == IF arg[r].pathByBcd THEN "setpath" ELSE "read"

\* if not len(found)==1
FoundOne(candidates) == Len(candidates) = 1

ScanEnd(r) ==
    /\ pc[r] = "scan"
    /\ idx[r] > Len(order[r])
    /\ IF FoundOne(found[r])
       THEN /\ name' = [name EXCEPT ![r] = found[r][1]]
            /\ Continue(r, AfterScan(r))
       ELSE Fail(r, 3, <<GuidOf(r), <<"tmp", r>>>>) /\ UNCHANGED name
    /\ UNCHANGED <<store, arg, guid, order, idx, found, data, notes, own, env>>
-----------------------------------------------------------------------------
\* (4, 5) bcdedit /set {guid} path, description
SetPath(r) ==
    /\ pc[r] = "setpath"
    /\ \/ /\ Exists(guid[r]) /\ arg[r].path # TooLong
          /\ PutEntry(guid[r], WithPath(entry[guid[r]], arg[r].path))
          /\ Continue(r, "setdesc")
       \/ UNCHANGED store /\ Fail(r, 4, <<GuidOf(r)>>)
    /\ UNCHANGED <<arg, guid, order, idx, found, name, data, notes, own, env>>

SetDescription(r) ==
    /\ pc[r] = "setdesc"
    /\ \/ /\ Exists(guid[r])
          /\ PutEntry(guid[r], WithDescription(entry[guid[r]], arg[r].description))
          /\ Continue(r, "read")
       \/ UNCHANGED store /\ Fail(r, 5, <<GuidOf(r), NameOf(r)>>)
    /\ UNCHANGED <<arg, guid, order, idx, found, name, data, notes, own, env>>

\* (6) read_efi_variable, again with debug=True
ReadEntry(r) ==
    /\ pc[r] = "read"
    /\ Exists(name[r])
    /\ data' = [data EXCEPT ![r] = entry[name[r]]]
    /\ Continue(r, "parse")
    /\ UNCHANGED <<store, arg, guid, order, idx, found, name, notes, own, env>>

ReadEntryRaises(r) ==
    /\ pc[r] = "read"
    /\ Raise(r, 6)
    /\ UNCHANGED <<store, arg, guid, order, idx, found, name, data, notes, own, env>>

\* (7 .. 11) What the parsed entry must look like; 0 when it does.
Refused(parsed) ==
    IF parsed = Unparsed THEN 7
    ELSE IF Len(parsed.nodes) <= 1 THEN 9
    ELSE IF EndsWithPath(parsed.nodes) THEN 0 ELSE 11

\* (7 .. 12) Nothing leaves the process here.
CheckEntry(r) ==
    /\ pc[r] = "parse"
    /\ IF ParseRaises(data[r]) THEN Raise(r, 7)
       ELSE IF Refused(Parse(data[r])) # 0
       THEN Fail(r, Refused(Parse(data[r])), <<GuidOf(r), NameOf(r)>>)
       ELSE IF ~arg[r].pathByBcd /\ arg[r].path = TooLong
       THEN Raise(r, 12)      \* OverflowError of nodelen.to_bytes
       ELSE Continue(r, "write")
    /\ UNCHANGED <<store, arg, guid, order, idx, found, name, data, notes, own, env>>

\* (12) The new payload.  After bcdedit: the current one up to the end of the
\* list, behind a copy of its first four bytes.  Otherwise the last two nodes
\* make room for the new path, and length and description are written anew.
CutEndOnly(fpl) == Slice(fpl, 0, Len(fpl) - 1)
CutOff(fpl) == Slice(fpl, 0, Len(fpl) - 2)

NewData(r) ==
    LET old == data[r]
        parsed == Parse(old)
        kept == CutOff(Slice(old, parsed.start, parsed.end))
        fpl == kept \o <<FilePath(arg[r].path), EndNode>>
    IN  IF arg[r].pathByBcd
        THEN Slice(old, 0, 1) \o Slice(old, 0, parsed.end) \o arg[r].metadata
        ELSE Slice(old, 0, 1)
               \o <<LengthCell(Len(fpl)), Description(arg[r].description)>>
               \o fpl \o arg[r].metadata

\* (13) write_efi_variable; when it fails nothing is written
IgnoreRefusedWrite(r) == Continue(r, "next")
AfterRefusedWrite(r) == Fail(r, 13, <<GuidOf(r), NameOf(r)>>)

WriteEntry(r) ==
    /\ pc[r] = "write"
    /\ PutEntry(name[r], NewData(r))
    /\ Continue(r, "next")
    /\ UNCHANGED <<arg, guid, order, idx, found, name, data, notes, own, env>>

WriteEntryFails(r) ==
    /\ pc[r] = "write"
    /\ AfterRefusedWrite(r)
    /\ UNCHANGED <<store, arg, guid, order, idx, found, name, data, notes, own, env>>
-----------------------------------------------------------------------------
\* (14) BootNext, by bcdedit (bootsequence {guid}) or by the Windows API, whose
\* refused write raises under debug and is a note otherwise.
GuidText(r) == GuidOf(r)
NextTarget(r) == IF arg[r].orderByBcd THEN guid[r] ELSE name[r]

SkipNext(r) ==
    /\ pc[r] = "next"
    /\ ~arg[r].next
    /\ Continue(r, "first")
    /\ UNCHANGED <<store, arg, guid, order, idx, found, name, data, notes, own, env>>

SetNext(r) ==
    /\ pc[r] = "next"
    /\ arg[r].next
    /\ PutNext(NextTarget(r))
    /\ Continue(r, "first")
    /\ UNCHANGED <<arg, guid, order, idx, found, name, data, notes, own, env>>

SetNextFails(r) ==
    /\ pc[r] = "next"
    /\ arg[r].next
    /\ IF arg[r].debug /\ ~arg[r].orderByBcd
       THEN Raise(r, 14) /\ UNCHANGED notes
       ELSE Note(r, "next") /\ Continue(r, "first")
    /\ UNCHANGED <<store, arg, guid, order, idx, found, name, data, own, env>>

\* (15) BootOrder: asked for, it always raises.  With the Windows API, boot_order
\* is the tuple of step 2 and has no method remove (AttributeError); with bcdedit,
\* cmd_fw_do_modify_addfirst_force accepts the GUID and then calls wsubproc
\* without its argument verbose (TypeError).
SkipFirst(r) ==
    /\ pc[r] = "first"
    /\ ~arg[r].first
    /\ Continue(r, "finish")
    /\ UNCHANGED <<store, arg, guid, order, idx, found, name, data, notes, own, env>>

AddFirstRaises(r) ==
    /\ pc[r] = "first"
    /\ arg[r].first
    /\ Raise(r, 15)
    /\ UNCHANGED <<store, arg, guid, order, idx, found, name, data, notes, own, env>>

Finish(r) ==
    /\ pc[r] = "finish"
    /\ Return(r, 0, IF arg[r].detailed
                    THEN <<<<"code", 0>>, NameOf(r), GuidOf(r)>> \o notes[r]
                    ELSE <<NameOf(r), GuidOf(r)>>)
    /\ UNCHANGED <<store, arg, guid, order, idx, found, name, data, notes, own, env>>
-----------------------------------------------------------------------------
\* The process ends (closed console, power loss) between two calls.
Kill(r) ==
    /\ pc[r] \notin Ended
    /\ Goto(r, "killed")
    /\ UNCHANGED <<store, local, own, env>>

\* Other programs and the firmware: an entry that is not of a run disappears,
\* with or without its place in BootOrder; an entry moves to the front.
NotOurs(n) == \A r \in Runs : own[r] # n

DeleteForeign ==
    /\ env < EnvBudget
    /\ env' = env + 1
    /\ \E n \in Names :
         /\ Exists(n) /\ NotOurs(n)
         /\ entry' = [entry EXCEPT ![n] = NoVar]
         /\ \/ UNCHANGED bootOrder
            \/ /\ Listed(bootOrder) \ {n} # {}
               /\ bootOrder' = Without(bootOrder, n)
    /\ UNCHANGED <<bootNext, pc, local, own>>

Reorder ==
    /\ env < EnvBudget
    /\ env' = env + 1
    /\ \E n \in Listed(bootOrder) :
         bootOrder' = <<n>> \o Without(bootOrder, n)
    /\ UNCHANGED <<bootNext, entry, pc, local, own>>
-----------------------------------------------------------------------------
Step(r) ==
    \/ CopyFails(r) \/ CopyEntry(r)
    \/ ReadOrder(r) \/ ReadOrderFails(r)
    \/ ScanName(r) \/ ScanRaises(r) \/ ScanEnd(r)
    \/ SetPath(r) \/ SetDescription(r)
    \/ ReadEntry(r) \/ ReadEntryRaises(r) \/ CheckEntry(r)
    \/ WriteEntry(r) \/ WriteEntryFails(r)
    \/ SkipNext(r) \/ SetNext(r) \/ SetNextFails(r)
    \/ SkipFirst(r) \/ AddFirstRaises(r)
    \/ Finish(r)

Next == \/ \E r \in Runs : Step(r) \/ Kill(r)
        \/ DeleteForeign \/ Reorder

Spec == Init /\ [][Next]_vars

\* The code has no wait and no retry: a run that is not killed takes its next
\* step.  Nothing is assumed of the other programs, or that a call succeeds.
FairSpec == Spec /\ \A r \in Runs : WF_vars(Step(r))
-----------------------------------------------------------------------------
Steps == {"copy", "order", "scan", "setpath", "setdesc", "read", "parse", "write",
          "next", "first", "finish"}

NamesOrNone == Names \cup {None}

\* The variables keep their types; BootNext and BootOrder hold names, never GUIDs.
TypeOK ==
    /\ bootOrder = NoVar \/ bootOrder \in Seq(Names) \ {<<>>}
    /\ bootNext \in Names \cup {NoVar}
    /\ DOMAIN entry = Names /\ DOMAIN data = Runs
    /\ arg \in [Runs -> Requests]
    /\ pc \in [Runs -> Steps \cup Ended]
    /\ guid \in [Runs -> NamesOrNone]
    /\ name \in [Runs -> NamesOrNone]
    /\ own \in [Runs -> NamesOrNone]
    /\ order \in [Runs -> Seq(Names)]
    /\ found \in [Runs -> Seq(Names)]
    /\ idx \in [Runs -> Nat]
    /\ \A r \in Runs : idx[r] \in 1..(Len(order[r]) + 1)
    /\ env \in 0..EnvBudget

\* The variable a run goes on to rewrite (found by its temporary description)
\* is the one bcdedit made for it (known by its GUID), whatever other runs and
\* programs do to BootOrder in between.
NameIsOwn == \A r \in Runs : name[r] # None => name[r] = own[r] /\ guid[r] = own[r]

\* No step of a run changes or deletes an entry that is not the run's own.
OthersUntouched ==
    [][\A r \in Runs : pc'[r] # pc[r] =>
         \A n \in Names : entry'[n] # entry[n] => n = own'[r]]_vars

\* The cells decode to what a request asked for, on the device bcdedit copied
\* (whose own path and end node are the last two nodes of what it copied).
DeviceOf(fpl) == SubSeq(fpl, 1, Len(fpl) - 2)
AsRequested(cells, q) ==
    /\ cells # NoVar
    /\ \E parsed \in {Parse(cells)} :
         /\ parsed # Unparsed
         /\ parsed.description = q.description
         /\ EndsWithPath(parsed.nodes)
         /\ parsed.optdata = q.metadata
         /\ \E fpl \in Templates :
              parsed.nodes = DeviceOf(fpl) \o <<FilePath(q.path), EndNode>>

Succeeded(r) == pc[r] = "returned" /\ outcome[r].step = 0
Complete(r) == own[r] # None /\ AsRequested(entry[own[r]], arg[r])

\* A call that returns success (Windows API mode) leaves an entry that decodes
\* to the path, description and metadata it was given, and keeps it.
SuccessIsAsRequested == \A r \in Runs : Succeeded(r) /\ ~arg[r].pathByBcd => Complete(r)

\* BootNext never points at a half-made entry: also not when the run that set
\* it failed, raised or was killed later, nor before it finished.
ArmedIsComplete ==
    \A r \in Runs : (own[r] # None /\ bootNext = own[r] /\ ~arg[r].pathByBcd) => Complete(r)

\* The entry of a successful call is one the firmware will offer: it is listed,
\* also when bcdedit does not list its copies, or others reorder the list later.
ListedAtEnd == \A r \in Runs : Succeeded(r) => own[r] \in Listed(bootOrder)

\* Every call ends, also when BootOrder names entries that are not there.
RunsEnd == \A r \in Runs : <>(pc[r] \in Ended)
-----------------------------------------------------------------------------
\* What the repository says of the function and the code does not do.

\* WUEFI.py:39 "Creates a firmware boot entry using a combination of BCDEDIT
\* commands and Windows API functions": also the entry whose path and
\* description bcdedit set is one that decodes.
BcdSuccessIsAsRequested == \A r \in Runs : Succeeded(r) /\ arg[r].pathByBcd => Complete(r)
-----------------------------------------------------------------------------
(***************************************************************************)
(* What the function promises of its entry, whatever happens: see          *)
(* EntryLifecycle.                                                         *)
(***************************************************************************)
NoRun == None

\* The payload set_evar_BootNNNN would have built for the request, on the device
\* bcdedit copied (Complete says that it also decodes to the request).
Built(r) == \E fpl \in Templates :
               entry[own[r]] = BuildLoadOption(arg[r].description,
                                               Append(DeviceOf(fpl), FilePath(arg[r].path)),
                                               arg[r].metadata)
StateOf(r) == IF own[r] = None THEN "none"
              ELSE IF Built(r) THEN "ready" ELSE "draft"
ArmedRun == IF \E r \in Runs : own[r] # None /\ own[r] = bootNext
            THEN CHOOSE r \in Runs : own[r] # None /\ own[r] = bootNext
            ELSE NoRun

Lifecycle == INSTANCE EntryLifecycle WITH state <- [r \in Runs |-> StateOf(r)],
                                          armed <- ArmedRun

\* Windows API mode implements the life cycle.
ImplementsLifecycle == Lifecycle!Spec
=============================================================================
