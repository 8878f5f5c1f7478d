----------------------------- MODULE EvarsOrder -----------------------------
(***************************************************************************)
(* The functions of WUEFI_evars.py on BootOrder and BootNext, called by    *)
(* several programs that import the module.  What a program does with the  *)
(* order it read is external: it moves one entry to the first place, as    *)
(* WUEFI.py:390-403 means to, and hands the list back.  Any of them may    *)
(* stop at any time.                                                       *)
(*                                                                         *)
(* The module's own command line does nothing: the import at line 500      *)
(* names a function WUEFI_utils does not have.                             *)
(***************************************************************************)
EXTENDS BootOrderCodec, SequencesExt

CONSTANTS Procs,       \* programs; each makes one change
          Entries,     \* the names they move to the first place
          NextNames,   \* the names they give to set_evar_BootNext
          InitRaws,    \* values of BootOrder at the start: bytes or NoVar
          NoVar        \* the variable does not exist

Strs == {e \in Entry : e.kind = "str"}
ASSUME NamesAssumption == Entries \subseteq Strs /\ NextNames \subseteq Strs
ASSUME InitRawsAssumption == InitRaws \subseteq {NoVar} \cup (Seq(Byte) \ {<<>>})
ASSUME NoVarAssumption == NoVar \notin Seq(Byte)

VARIABLES raw,         \* the bytes of BootOrder, or NoVar
          bootNext,    \* the bytes of BootNext, or NoVar
          asTuple,     \* the argument as_tuple of each program's read
          pc,
          seen,        \* what get_evar_BootOrder gave
          names,       \* the list given to set_evar_BootOrder
          result,      \* how the last call ended
          initial      \* observability: BootOrder at the start

variables == <<raw, bootNext>>
vars == <<variables, asTuple, pc, seen, names, result, initial>>

Init == /\ raw \in InitRaws
        /\ bootNext = NoVar
        /\ asTuple \in [Procs -> BOOLEAN]
        /\ pc = [p \in Procs |-> "start"]
        /\ seen = [p \in Procs |-> None]
        /\ names = [p \in Procs |-> None]
        /\ result = [p \in Procs |-> "none"]
        /\ initial = raw

End(p, how) == /\ pc' = [pc EXCEPT ![p] = "ended"]
               /\ result' = [result EXCEPT ![p] = how]
Goto(p, label) == pc' = [pc EXCEPT ![p] = label] /\ UNCHANGED result
-----------------------------------------------------------------------------
\* python WUEFI_evars.py ...: ImportError, before the arguments are looked at.
Main(p) ==
    /\ pc[p] = "start"
    /\ End(p, "raised")
    /\ UNCHANGED <<variables, asTuple, seen, names, initial>>

\* get_evar_BootOrder: for a variable that is missing, cannot be read or has an
\* odd number of bytes None, or, with as_tuple, a list without names.
GetBootOrderNeverNone(data, as_tuple) ==
    LET order == IF data = NoVar THEN None ELSE ParseBootOrder(data)
    IN  IF order = None THEN <<>> ELSE order
GetBootOrder(data, as_tuple) ==
    LET order == IF data = NoVar THEN None ELSE ParseBootOrder(data)
    IN  IF order = None /\ as_tuple THEN <<>> ELSE order

Get(p) ==
    /\ pc[p] = "start"
    /\ \E data \in {raw, NoVar} : seen' = [seen EXCEPT ![p] = GetBootOrder(data, asTuple[p])]
    /\ Goto(p, "holds")
    /\ UNCHANGED <<variables, asTuple, names, initial>>

\* ... with debug, a variable that cannot be read.
GetRaises(p) ==
    /\ pc[p] = "start"
    /\ End(p, "raised")
    /\ UNCHANGED <<variables, asTuple, seen, names, initial>>

\* The program's own part; it has no list to change when it got None.
InFront(e, order) == <<e>> \o RemoveFirst(order, e)
MoveFirst(p) ==
    /\ pc[p] = "holds" /\ seen[p] # None
    /\ \E e \in Entries : names' = [names EXCEPT ![p] = InFront(e, seen[p])]
    /\ Goto(p, "set")
    /\ UNCHANGED <<variables, asTuple, seen, initial>>

\* set_evar_BootOrder.  A list build_efi_BootOrder refuses is None, and
\* write_efi_variable erases the variable for None (which fails when it is gone).
StoredAsIs(bytes) == bytes
Stored(bytes) == IF bytes \in {None, <<>>} THEN NoVar ELSE bytes

Set(p) ==
    /\ pc[p] = "set"
    /\ raw = NoVar => Stored(BuildBootOrder(names[p])) # NoVar
    /\ raw' = Stored(BuildBootOrder(names[p]))
    /\ End(p, "True")
    /\ UNCHANGED <<bootNext, asTuple, seen, names, initial>>

\* ... refused by the firmware, or, with debug, never asked for: "data" is what
\* was built.
SetFails(p) ==
    /\ pc[p] = "set"
    /\ \E how \in {"False", "data"} : End(p, how)
    /\ UNCHANGED <<variables, asTuple, seen, names, initial>>

\* set_evar_BootNext: eight characters, the first four of them Boot; the others
\* go through int(..., 16), which raises for what is no number.
NextName(evar) == evar.boot /\ Len(evar.rest) = 4
Numeric(rest) == \A k \in 1..Len(rest) : rest[k] # NonHex

SetNext(p) ==
    /\ pc[p] = "start"
    /\ \E evar \in NextNames :
         \/ ~NextName(evar) /\ End(p, "False") /\ UNCHANGED bootNext
         \/ NextName(evar) /\ ~Numeric(evar.rest) /\ End(p, "raised") /\ UNCHANGED bootNext
         \/ /\ NextName(evar) /\ Numeric(evar.rest)
            /\ \/ bootNext' = LittleEndian(HexValue(evar.rest)) /\ End(p, "True")
               \/ \E how \in {"False", "raised"} : End(p, how) /\ UNCHANGED bootNext
    /\ UNCHANGED <<raw, asTuple, seen, names, initial>>

Stop(p) ==
    /\ pc[p] # "ended"
    /\ End(p, "stopped")
    /\ UNCHANGED <<variables, asTuple, seen, names, initial>>

Step(p) == \/ Main(p) \/ SetNext(p)
           \/ Get(p) \/ GetRaises(p) \/ MoveFirst(p) \/ Set(p) \/ SetFails(p)

Next == \E p \in Procs : Step(p) \/ Stop(p)

Spec == Init /\ [][Next]_vars
-----------------------------------------------------------------------------
Bytes == Seq(Byte) \ {<<>>}

\* The variables keep their types; neither variable is ever left without bytes,
\* and set_evar_BootOrder is handed names.
TypeOK == /\ raw = NoVar \/ raw \in Bytes
          /\ initial = NoVar \/ initial \in Bytes
          /\ bootNext = NoVar \/ bootNext \in Bytes
          /\ asTuple \in [Procs -> BOOLEAN]
          /\ pc \in [Procs -> {"start", "holds", "set", "ended"}]
          /\ DOMAIN seen = Procs /\ DOMAIN names = Procs
          /\ \A p \in Procs : seen[p] \in Seq(Entry) \cup {None}
          /\ \A p \in Procs : names[p] \in Seq(Entry) \cup {None}
          /\ result \in [Procs -> {"none", "True", "False", "data", "raised", "stopped"}]

Count(bytes) == Len(bytes) \div 2
AllEncodable(bytes) == /\ bytes # NoVar
                       /\ Len(bytes) % 2 = 0
                       /\ \A i \in 1..Count(bytes) : Encodable(WordAt(bytes, i))

\* The names the programs have moved to the first place.
First == {names[p][1] : p \in {q \in Procs : names[q] # None}}
Moved(n) == \E e \in First : EntryValue(e) = n

\* A program that asked for a list got one for an order it could not read.
Blind == \E p \in Procs : asTuple[p] /\ seen[p] = <<>>

\* However the programs' reads and writes interleave, fail or stop, the boot order
\* keeps every entry it held at the start, and in their order those nobody moved, as
\* long as every name is one build_efi_BootOrder takes and no program took a failed
\* read for an empty order.
EntriesKept ==
    (AllEncodable(initial) /\ (\A e \in First : EntryOk(e)) /\ ~Blind) =>
        /\ raw # NoVar
        /\ \A i \in 1..Count(initial) :
             \E j \in 1..Count(raw) : WordAt(raw, j) = WordAt(initial, i)
        /\ \A i, k \in 1..Count(initial) :
             i < k /\ ~Moved(WordAt(initial, i)) /\ ~Moved(WordAt(initial, k)) =>
               \E j, l \in 1..Count(raw) :
                 j < l /\ WordAt(raw, j) = WordAt(initial, i) /\ WordAt(raw, l) = WordAt(initial, k)

\* No entry is listed twice, although a name is looked for as a string in a list
\* that may be stale: the names parse_efi_BootOrder gives are the full ones.
Distinct(bytes) ==
    \A i, j \in 1..Count(bytes) : WordAt(bytes, i) = WordAt(bytes, j) => i = j
NoRepeats ==
    /\ AllEncodable(initial) /\ Distinct(initial)
    /\ \A e \in First : EntryOk(e) /\ Len(e.rest) = 4
    => Distinct(raw)
-----------------------------------------------------------------------------
\* src/README.md:35 "You can read/write the "BootOrder" EFI variable": a list that
\* set_evar_BootOrder reports as set is there (here with one program, whose list
\* nobody replaces).
SetIsStored ==
    \A p \in Procs : (pc[p] = "ended" /\ result[p] = "True" /\ names[p] # None) =>
        raw # NoVar /\ ParseBootOrder(raw) = names[p]
=============================================================================
