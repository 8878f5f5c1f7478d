--------------------------- MODULE BootOrderLoops ---------------------------
(***************************************************************************)
(* The two loops of BootOrderCodec one iteration at a time, in the order   *)
(* every writer of the program runs them: the bytes of BootOrder are       *)
(* parsed into names, the list of names (the parsed one, or one a caller   *)
(* made) is built into bytes.                                              *)
(***************************************************************************)
EXTENDS BootOrderCodec

CONSTANTS Datas,   \* byte strings parse_efi_BootOrder is called with
          Lists    \* lists build_efi_BootOrder is called with directly

ASSUME DatasAssumption == Datas \subseteq Seq(Byte)
ASSUME ListsAssumption == Lists \subseteq Seq(Entry)

VARIABLES source,    \* "bytes" or "list": where the call started
          data,      \* the argument of parse_efi_BootOrder
          entries,   \* boot_order: the names parsed so far, then built from
          progress,  \* bytes parsed, then entries built
          built,     \* boot_order_ok
          pc, result

vars == <<source, data, entries, progress, built, pc, result>>

Init ==
    /\ progress = 0
    /\ built = <<>>
    /\ result = None
    /\ \/ /\ source = "bytes" /\ pc = "parse"
          /\ data \in Datas /\ entries = <<>>
       \/ /\ source = "list" /\ pc = "build"
          /\ data = <<>> /\ entries \in Lists

\* if not maxlen%2==0: return None
ParseOdd ==
    /\ pc = "parse"
    /\ Len(data) % 2 # 0
    /\ pc' = "done"
    /\ UNCHANGED <<source, data, entries, progress, built, result>>

ParseWord ==
    /\ pc = "parse"
    /\ Len(data) % 2 = 0
    /\ progress # Len(data)
    /\ entries' = Append(entries, BootName(WordAt(data, (progress \div 2) + 1)))
    /\ progress' = progress + 2
    /\ UNCHANGED <<source, data, built, pc, result>>

ParseEnd ==
    /\ pc = "parse"
    /\ Len(data) % 2 = 0
    /\ progress = Len(data)
    /\ pc' = "build"
    /\ progress' = 0
    /\ UNCHANGED <<source, data, entries, built, result>>

BuildEntry ==
    /\ pc = "build"
    /\ progress < Len(entries)
    /\ EntryOk(entries[progress + 1])
    /\ built' = built \o LittleEndian(EntryValue(entries[progress + 1]))
    /\ progress' = progress + 1
    /\ UNCHANGED <<source, data, entries, pc, result>>

\* A slip in the refusal: the entry is skipped.
BuildRefusedSkips ==
    /\ pc = "build"
    /\ progress < Len(entries)
    /\ ~EntryOk(entries[progress + 1])
    /\ progress' = progress + 1
    /\ UNCHANGED <<source, data, entries, built, pc, result>>

\* err_msg set, break, return None
BuildRefused ==
    /\ pc = "build"
    /\ progress < Len(entries)
    /\ ~EntryOk(entries[progress + 1])
    /\ pc' = "done"
    /\ UNCHANGED <<source, data, entries, progress, built, result>>

BuildEnd ==
    /\ pc = "build"
    /\ progress = Len(entries)
    /\ pc' = "done"
    /\ result' = built
    /\ UNCHANGED <<source, data, entries, progress, built>>

Next == \/ ParseOdd \/ ParseWord \/ ParseEnd
        \/ BuildEntry \/ BuildRefused \/ BuildEnd

Spec == Init /\ [][Next]_vars
-----------------------------------------------------------------------------
\* The variables hold bytes, names and a place in the input; what is built are bytes.
TypeOK ==
    /\ source \in {"bytes", "list"}
    /\ data \in Seq(Byte)
    /\ progress \in 0..(Len(data) + Len(entries))
    /\ built \in Seq(Byte)
    /\ pc \in {"parse", "build", "done"}
    /\ result = None \/ result \in Seq(Byte)

\* A BootOrder that went through both loops comes back byte for byte when the
\* names of all its numbers are encodable, and as None otherwise: never as
\* other bytes (the order of the words, their byte order and their number are
\* what a wrong offset, a wrong pad or a truncation would disturb).
RoundTrip ==
    (pc = "done" /\ source = "bytes" /\ Len(data) % 2 = 0) =>
        result = IF \A i \in 1..(Len(data) \div 2) : Encodable(WordAt(data, i))
                 THEN data ELSE None

\* Whatever list is handed in, build_efi_BootOrder answers all or nothing:
\* None, or one word for each entry, which is that entry's number.
AllOrNothing ==
    (pc = "done" /\ result # None) =>
        /\ Len(result) = 2 * Len(entries)
        /\ \A i \in 1..Len(entries) : WordAt(result, i) = EntryValue(entries[i])

\* The loops compute the definitions of BootOrderCodec that the other
\* components are specified with.
LoopsMatchDefinitions ==
    pc = "done" =>
        IF source = "bytes" /\ ParseBootOrder(data) = None
        THEN result = None
        ELSE result = BuildBootOrder(entries)
=============================================================================
