------------------------------ MODULE FwStore -------------------------------
(***************************************************************************)
(* The state every part of the program shares: the firmware's variables    *)
(* BootOrder, BootNext and Boot####.  They live outside the program, which *)
(* reaches them by two ways, the Windows API (one variable at a time) and  *)
(* bcdedit (one object at a time, by GUID).  bcdedit keeps one GUID for    *)
(* each Boot#### variable, so the GUID of a boot entry is written here as  *)
(* the name of the entry it stands for.                                    *)
(***************************************************************************)
EXTENDS LoadOption

CONSTANTS Names,    \* the Boot#### names in use
          NoVar     \* an EFI variable that does not exist

VARIABLES bootOrder,   \* NoVar or a sequence of names
          bootNext,    \* NoVar or a name
          entry        \* entry[n]: NoVar or the cells of the variable n

store == <<bootOrder, bootNext, entry>>

Listed(order) == IF order = NoVar THEN {} ELSE {order[i] : i \in 1..Len(order)}

\* A boot order, which lists a name at most once, without one name.
Without(order, n) ==
    IF n \in {order[i] : i \in 1..Len(order)}
    THEN LET i == CHOOSE i \in 1..Len(order) : order[i] = n
         IN  SubSeq(order, 1, i - 1) \o SubSeq(order, i + 1, Len(order))
    ELSE order

\* read_efi_variable / write_efi_variable on a Boot#### variable (None in the
\* value, or no bytes, would delete the variable).
Exists(n) == entry[n] # NoVar
PutEntry(n, data) == /\ entry' = [entry EXCEPT ![n] = data]
                     /\ UNCHANGED <<bootOrder, bootNext>>
PutNext(n) == bootNext' = n /\ UNCHANGED <<bootOrder, entry>>
PutOrder(order) == bootOrder' = order /\ UNCHANGED <<bootNext, entry>>

\* bcdedit /copy {bootmgr} /d description: a new entry under a free name, with
\* the device path of Windows; it is appended to the boot order, unless listed
\* is FALSE.
BcdCopy(n, description, fpl, optdata, listed) ==
    /\ entry' = [entry EXCEPT ![n] =
                    <<Attributes, LengthCell(Len(fpl)), Description(description)>>
                        \o fpl \o optdata]
    /\ bootOrder' = IF ~listed \/ n \in Listed(bootOrder) THEN bootOrder
                    ELSE IF bootOrder = NoVar THEN <<n>>
                    ELSE Append(bootOrder, n)
    /\ UNCHANGED bootNext

\* bcdedit /set {guid} path | description
WithPath(data, path) ==
    [i \in 1..Len(data) |-> IF data[i].kind = "path" THEN FilePath(path) ELSE data[i]]
WithDescription(data, description) ==
    [i \in 1..Len(data) |-> IF data[i].kind = "desc" THEN Description(description)
                            ELSE data[i]]
=============================================================================
