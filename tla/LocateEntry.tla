---------------------------- MODULE LocateEntry -----------------------------
(***************************************************************************)
(* main_LocateFwBootEntry of WUEFI.py: reads BootOrder, then every listed  *)
(* entry, and gives the one that contains all the hints; and below it the  *)
(* loop of read_efi_variable, which asks again with a larger buffer while  *)
(* the variable does not fit.  Other programs write BootOrder and Boot#### *)
(* at any time, between two tries of one read as well.                     *)
(*                                                                         *)
(* A hint is looked for with bytes.find in the raw variable, wherever it   *)
(* stands, so a variable is a sequence of symbols here and not the cells   *)
(* of LoadOption.                                                          *)
(***************************************************************************)
EXTENDS FwStore

CONSTANTS
    Hints,        \* the arguments of the call, see HintsAssumption
    InitOrders,   \* BootOrder, and what other programs set it to
    Contents,     \* contents of Boot####, and what other programs write
    Block,        \* size_base, in symbols
    Nul, PathHeader,    \* the terminator, the header of a file path node
    None

\* description, filepath and metadata may be None; content: return_content.
ASSUME HintsAssumption ==
    \A h \in Hints : /\ {h.description, h.filepath, h.metadata} \subseteq Seq(STRING) \cup {None}
                     /\ h.content \in BOOLEAN
ASSUME BlockAssumption == Block \in Nat \ {0}
ASSUME OrdersAssumption == InitOrders \subseteq {NoVar} \cup Seq(Names)
\* A variable of no bytes is a deleted one, and some variable is the longest.
ASSUME ContentsAssumption == /\ Contents \subseteq Seq(STRING) \ {<<>>}
                             /\ {Nul, PathHeader} \subseteq STRING
Lengths == {Len(c) : c \in Contents \cup (InitOrders \ {NoVar})}
ASSUME LengthsAssumption == \E n \in Lengths \ {0} : \A m \in Lengths : m <= n

VARIABLES
    hint, pc,
    size,     \* the buffer of the read that is going on
    order,    \* boot_order
    i,        \* the position in it
    found,    \* the (name, data) pairs kept so far
    result,   \* what the call gave: Running, None, Unparsed ({}), Raised,
              \* <<name>>, or <<name, data>>: what the parser is given
    seen,     \* observability: what the read of each position gave
    moved     \* observability: somebody wrote a variable since BootOrder was read

call == <<hint, pc, size, order, i, found, result, seen>>
vars == <<store, call, moved>>

Running == <<"running">>
Raised == <<"raised">>

Init == /\ bootOrder \in InitOrders
        /\ bootNext = NoVar
        /\ entry \in [Names -> Contents \cup {NoVar}]
        /\ hint \in Hints
        /\ pc = "args"
        /\ size = Block
        /\ order = <<>>
        /\ i = 1
        /\ found = <<>>
        /\ result = Running
        /\ seen = <<>>
        /\ moved = FALSE

Given(h) == h # None
MetadataOnly == ~Given(hint.description) /\ ~Given(hint.filepath) /\ Given(hint.metadata)

End(what) == pc' = "ended" /\ result' = what
Goto(label) == pc' = label /\ UNCHANGED result
NotFound == IF hint.content THEN Unparsed ELSE None
-----------------------------------------------------------------------------
\* read_efi_variable: the buffer starts at size_base, and grows by as much each
\* time the call fails with ERROR_INSUFFICIENT_BUFFER.
TooSmallIfFull(len) == len >= size
TooSmall(len) == len > size
NotEnlarged == size
Enlarged == size + Block

GrowBuffer(data) ==
    /\ data # NoVar
    /\ TooSmall(Len(data))
    /\ size' = Enlarged
    /\ UNCHANGED <<store, hint, pc, order, i, found, result, seen, moved>>

\* The end of a read: the data, or None for a variable that is missing.
Fitting(data) == data # NoVar => ~TooSmall(Len(data))
OrNone(data) == IF data = NoVar THEN None ELSE data
-----------------------------------------------------------------------------
\* Check 1
CheckArguments ==
    /\ pc = "args"
    /\ IF Given(hint.description) \/ Given(hint.filepath) \/ Given(hint.metadata)
       THEN Goto("order") ELSE End(NotFound)
    /\ UNCHANGED <<store, hint, size, order, i, found, seen, moved>>

\* Check 2 never fails: get_evar_BootOrder(as_tuple=True) gives [] for a missing
\* or unreadable variable.
OrderRead(names) ==
    /\ order' = names
    /\ Goto("scan")
    /\ size' = Block
    /\ moved' = FALSE
    /\ UNCHANGED <<store, hint, i, found, seen>>

ReadOrder ==
    /\ pc = "order"
    /\ \/ GrowBuffer(bootOrder)
       \/ Fitting(bootOrder) /\ OrderRead(IF bootOrder = NoVar THEN <<>> ELSE bootOrder)

\* An error of another kind.
ReadOrderFails == pc = "order" /\ OrderRead(<<>>)
-----------------------------------------------------------------------------
\* data[from:to] of Python
PyIndex(n, k) == IF k < 0 THEN (IF n + k < 0 THEN 0 ELSE n + k) ELSE IF k > n THEN n ELSE k
PySlice(data, from, to) ==
    SubSeq(data, PyIndex(Len(data), from) + 1, PyIndex(Len(data), to))

\* data.find(part)#-1
Contains(data, part) ==
    \E k \in 0..Len(data) - Len(part) : SubSeq(data, k + 1, k + Len(part)) = part

\* The bytes each hint is turned into.
DescriptionBytes == Append(hint.description, Nul)
PathNode == <<PathHeader>> \o Append(hint.filepath, Nul)

\* Metadata alone must be the end of the entry; but the slice stops before the
\* last byte, so that it is shorter than the hint.
EndsWithMetadata(data) ==
    PySlice(data, Len(data) - Len(hint.metadata), -1) = hint.metadata

\* With another hint, all of them must stand somewhere in the entry.
FitsAny(data) == \/ Given(hint.description) /\ Contains(data, DescriptionBytes)
                 \/ Given(hint.filepath) /\ Contains(data, PathNode)
                 \/ Given(hint.metadata) /\ Contains(data, hint.metadata)
Fits(data) == /\ Given(hint.description) => Contains(data, DescriptionBytes)
              /\ Given(hint.filepath) => Contains(data, PathNode)
              /\ Given(hint.metadata) => Contains(data, hint.metadata)

OnwardByTwo == i + 2
OnwardUnlessFound == IF found = <<>> THEN i + 1 ELSE Len(order) + 1
Onward == i + 1
Scanning == pc = "scan" /\ i <= Len(order)

\* The loop with metadata alone: it stops at the first entry; a listed entry
\* that cannot be read ends it with a TypeError (len(None)).
TryMetadata(got) ==
    /\ MetadataOnly
    /\ \/ got = None /\ End(Raised) /\ UNCHANGED <<i, found>>
       \/ /\ got # None /\ EndsWithMetadata(got)
          /\ found' = Append(found, <<order[i], got>>)
          /\ Goto("check") /\ UNCHANGED i
       \/ /\ got # None /\ ~EndsWithMetadata(got)
          /\ i' = Onward /\ Goto("scan") /\ UNCHANGED found

\* The other loop goes through all of them.
TryHints(got) ==
    /\ ~MetadataOnly
    /\ found' = IF got # None /\ Fits(got) THEN Append(found, <<order[i], got>>) ELSE found
    /\ i' = Onward
    /\ Goto("scan")

EntryRead(got) ==
    /\ TryMetadata(got) \/ TryHints(got)
    /\ size' = Block
    /\ seen' = Append(seen, got)
    /\ UNCHANGED <<store, hint, order, moved>>

ReadListed ==
    /\ Scanning
    /\ \/ GrowBuffer(entry[order[i]])
       \/ Fitting(entry[order[i]]) /\ EntryRead(OrNone(entry[order[i]]))

ReadListedFails == Scanning /\ EntryRead(None)

ScanEnd ==
    /\ pc = "scan" /\ i > Len(order)
    /\ Goto("check")
    /\ UNCHANGED <<store, hint, size, order, i, found, seen, moved>>

\* Checks 3 and 4: exactly one.  Only check 3 gives {} for return_content.
SomeFound == Len(found) > 0
OneFound == Len(found) = 1
CheckFound ==
    /\ pc = "check"
    /\ End(IF OneFound THEN (IF hint.content THEN found[1] ELSE <<found[1][1]>>)
           ELSE IF MetadataOnly THEN NotFound ELSE None)
    /\ UNCHANGED <<store, hint, size, order, i, found, seen, moved>>

Search == CheckArguments \/ ReadOrder \/ ReadListed \/ ScanEnd \/ CheckFound
-----------------------------------------------------------------------------
\* Another program writes a variable.
WriteListed ==
    /\ pc # "ended"
    /\ \E n \in Names, data \in Contents \cup {NoVar} :
         data # entry[n] /\ PutEntry(n, data)
    /\ moved' = TRUE
    /\ UNCHANGED call

WriteOrder ==
    /\ pc # "ended"
    /\ \E o \in InitOrders : o # bootOrder /\ PutOrder(o)
    /\ moved' = TRUE
    /\ UNCHANGED call

Next == Search \/ ReadOrderFails \/ ReadListedFails \/ WriteListed \/ WriteOrder

Spec == Init /\ [][Next]_vars
\* The call is a thread that keeps running; nothing is assumed of the others, nor
\* that a read ever fails.
FairSpec == Spec /\ WF_vars(Search)
-----------------------------------------------------------------------------
\* The variables keep their types.
TypeOK == /\ bootOrder \in InitOrders
          /\ entry \in [Names -> Contents \cup {NoVar}]
          /\ hint \in Hints
          /\ pc \in {"args", "order", "scan", "check", "ended"}
          /\ size \in Nat
          /\ order \in InitOrders \cup {<<>>}
          /\ i \in 1..(Len(order) + 1)
          /\ Len(seen) <= Len(order) /\ Len(found) <= Len(seen)
          /\ moved \in BOOLEAN

\* A name or a content that is given is that of the only listed position whose
\* data, at the moment it was read, contained every hint, whatever the others
\* wrote in the meantime (metadata alone: of the first one).
Stands(data, part, given) == given # None => \E k \in 1..Len(data) :
                                /\ k + Len(part) - 1 <= Len(data)
                                /\ \A j \in 1..Len(part) : data[k + j - 1] = part[j]
HasHints(data) ==
    /\ data # None
    /\ Stands(data, IF Given(hint.description) THEN DescriptionBytes ELSE <<>>, hint.description)
    /\ Stands(data, IF Given(hint.filepath) THEN PathNode ELSE <<>>, hint.filepath)
    /\ Stands(data, IF Given(hint.metadata) THEN hint.metadata ELSE <<>>, hint.metadata)
Answered == pc = "ended" /\ result \notin {None, Unparsed, Raised}
FoundAsRead ==
    Answered => \E k \in 1..Len(seen) :
        /\ result = IF hint.content THEN <<order[k], seen[k]>> ELSE <<order[k]>>
        /\ HasHints(seen[k])
        /\ ~MetadataOnly => \A j \in 1..Len(seen) : HasHints(seen[j]) => j = k

\* When nobody wrote and no read failed, the answer is the abstract one: the
\* entry that has all the hints if it is the only one listed that has them, and
\* no entry otherwise, none of several and none of those that are gone.
NoReadFailed == /\ order = IF bootOrder = NoVar THEN <<>> ELSE bootOrder
                /\ \A k \in 1..Len(seen) : seen[k] = None => ~Exists(order[k])
Matching == {k \in 1..Len(order) : Exists(order[k]) /\ HasHints(entry[order[k]])}
UndisturbedIsExact ==
    (/\ pc = "ended" /\ ~moved /\ NoReadFailed
     /\ Given(hint.description) \/ Given(hint.filepath)) =>
        result = IF \E k \in Matching : Matching = {k}
                 THEN LET n == order[CHOOSE k \in Matching : TRUE]
                      IN  IF hint.content THEN <<n, entry[n]>> ELSE <<n>>
                 ELSE None

\* However the variables grow and shrink during a read, the buffer never gets a
\* whole step larger than the longest of them.
BufferBounded == \E n \in Lengths : \A m \in Lengths : m <= n /\ size < n + Block

\* The call ends, although others may write forever while it reads.
SearchEnds == <>(pc = "ended")
=============================================================================
