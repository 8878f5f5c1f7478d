---------------------------- MODULE OptionLoops -----------------------------
(***************************************************************************)
(* parse_efi_EFI_LOAD_OPTION as it runs: the fields in front of the device *)
(* path in one step, then the loop of parse_efi_elo_filepathlist, one      *)
(* action per way a round can go.  The input is an option that Windows or  *)
(* the program put together, damaged or not (then cells says of what), one *)
(* of set_evar_BootNNNN (asked says of what), or any other bytes.          *)
(***************************************************************************)
EXTENDS NodeBuilders

CONSTANTS Options,   \* options as cells
          Requests,  \* arguments of the builders
          Raws,      \* variables that hold other bytes
          NoCells    \* the cells, or the arguments, of bytes made in another way

\* Cells of which Whole has the bytes; what stands before the list has no flaw.
OptionCell == [kind : {"len"}, n : Nat]
                \cup [kind : {"attr"}, val : {""}, flaws : {{}}]
                \cup [kind : {"desc"}, val : DOMAIN Units, flaws : {{}}]
                \cup [kind : {"path", "opt"}, val : DOMAIN Units, flaws : SUBSET Flaws]
                \cup [kind : NodeKinds \ {"path", "raw"}, val : DOMAIN Units \cup {""},
                      flaws : SUBSET Flaws]
\* An option has one FilePathListLength.
ASSUME OptionsAssumption ==
    \A option \in Options :
        /\ option \in Seq(OptionCell)
        /\ \A i, j \in DOMAIN option :
             option[i].kind = "len" /\ option[j].kind = "len" => i = j

\* The program's builders are asked for numbers below 2^31.
Number == {n \in Nat : n \div 65536 < 32768}
Eisa == {eisa \in [length : Nat, product : Int, vendor : [1..3 -> 0..26]] :
           eisa.length = 7 => eisa.product < 65536}
AskedNode ==
    [kind : {"acpi"}, uid : Number, eisa : Eisa]
      \cup [kind : {"pci"}, function : Number, device : Number]
      \cup [kind : {"hd"}, partnum : Number, startlba : Number, size : Number,
            guid : Seq(Byte), mbrtype : Number, sigtype : Number]
      \cup [kind : {"path"}, text : Seq(Unit)]
ASSUME RequestsAssumption ==
    Requests \subseteq [attributes : Number, description : Seq(Unit),
                       nodes : Seq(AskedNode), optdata : Seq(Byte)]

ASSUME RawsAssumption == Raws \subseteq Seq(Byte)

\* What the parser gives; the empty dict is none of it.
RoundRecord ==
    [step : {"node"}, kind : Known, size : Nat, bytes : Seq(Nat), text : Seq(Nat)]
      \cup [step : {"end", "raw", "corrupted", "raises"}]
ParsedOption == [description : Seq(Nat), rounds : Seq(RoundRecord),
                 start : Nat, end : Int, optdata : Seq(Nat)]
ASSUME ResultAssumption == Unparsed \notin ParsedOption

VARIABLES cells,     \* observability: what the bytes were made from
          asked,     \* observability: what the builders were asked for
          data,      \* the variable
          pc,
          start,     \* filepath_list_start
          end,       \* filepath_list_end
          offset,    \* in data_fpathlist
          rounds,    \* nodes, and what ended the list
          result

vars == <<cells, asked, data, pc, start, end, offset, rounds, result>>
input == <<cells, asked, data>>

Init ==
    /\ \/ /\ cells \in Options /\ asked = NoCells
          /\ data = Bytes(cells)
       \/ /\ cells = NoCells
          /\ asked \in Requests
          /\ Buildable(asked)
          /\ data = BuiltOption(asked)
       \/ /\ cells = NoCells /\ asked = NoCells
          /\ data \in Raws
    /\ pc = "fields"
    /\ start = 0 /\ end = 0 /\ offset = 0
    /\ rounds = <<>>
    /\ result = Unparsed

Refuse == pc' = "done" /\ UNCHANGED <<input, start, end, offset, rounds, result>>

\* Attributes and FilePathListLength do not fit, or no two zero bytes follow
TooShort ==
    /\ pc = "fields"
    /\ Len(data) < 6 \/ NullTerms(From(data, 6)) = {}
    /\ Refuse

ListStart == 6 + DescriptionSize(From(data, 6)) + 2
ListEnd == ListStart + Value16(data, 4)
ListFits == Value16(data, 4) <= Len(From(data, ListStart))

ReadFields ==
    /\ pc = "fields"
    /\ Len(data) >= 6 /\ NullTerms(From(data, 6)) # {}
    /\ ListFits
    /\ start' = ListStart
    /\ end' = ListEnd
    /\ pc' = "walk"
    /\ UNCHANGED <<input, offset, rounds, result>>

\* data_fpathlen_ok>len(data[offset:])
ListTooLong ==
    /\ pc = "fields"
    /\ Len(data) >= 6 /\ NullTerms(From(data, 6)) # {}
    /\ ~ListFits
    /\ Refuse
-----------------------------------------------------------------------------
List == PySlice(data, start, end)
Walking == pc = "walk" /\ offset < Len(List)

\* nodes.append(cnode.copy()); the next round starts payload_size further, which
\* for a path is more than its text.
SizeOfText(round) == IF round.kind = "path" THEN 4 + 2 * Len(round.text) ELSE round.size
PayloadSize(round) == round.size

TakeNode ==
    /\ Walking
    /\ \E round \in {Round(List, offset)} :
         /\ round.step = "node"
         /\ rounds' = Append(rounds, round)
         /\ offset' = offset + PayloadSize(round)
    /\ UNCHANGED <<input, pc, start, end, result>>

\* A slip: corrupted is not set, so the round is repeated.
LeaveListRepeats ==
    Walking /\ Round(List, offset).step \in {"end", "raw", "corrupted"} /\ UNCHANGED vars

\* The end node, a header nobody knows, or a node its parser refused.
LeaveList ==
    /\ Walking
    /\ \E round \in {Round(List, offset)} :
         /\ round.step \in {"end", "raw", "corrupted"}
         /\ rounds' = Append(rounds, round)
    /\ pc' = "rest"
    /\ UNCHANGED <<input, start, end, offset, result>>

\* An exception of a decode or of known_parsers_vsn[...] leaves the parser.
RaiseInList ==
    /\ Walking
    /\ Round(List, offset).step = "raises"
    /\ rounds' = Append(rounds, Stop("raises"))
    /\ pc' = "raised"
    /\ UNCHANGED <<input, start, end, offset, result>>

\* offset==maxlen or offset>maxlen
ListOver ==
    /\ pc = "walk"
    /\ offset >= Len(List)
    /\ pc' = "rest"
    /\ UNCHANGED <<input, start, end, offset, rounds, result>>

\* OptionalData is what is behind the list.
TakeRest ==
    /\ pc = "rest"
    /\ pc' = "done"
    /\ result' = [description |-> Decode(PySlice(data, 6, start - 2)), rounds |-> rounds,
                  start |-> start, end |-> end, optdata |-> From(data, end)]
    /\ UNCHANGED <<input, start, end, offset, rounds>>

Next == \/ TooShort \/ ReadFields \/ ListTooLong
        \/ TakeNode \/ LeaveList \/ RaiseInList \/ ListOver
        \/ TakeRest

Spec == Init /\ [][Next]_vars
\* One thread, no waits.
FairSpec == Spec /\ WF_vars(Next)
-----------------------------------------------------------------------------
Ended == {"done", "raised"}

\* The nodes taken so far are the list so far: no byte between two nodes is
\* skipped or taken twice, and none behind the list is taken, whatever lengths
\* the nodes give themselves.
NodesTile ==
    LET nodes == {i \in DOMAIN rounds : rounds[i].step = "node"}
    IN  /\ offset <= Len(List)
        /\ PySlice(List, 0, offset) = FlattenSeq([i \in nodes |-> rounds[i].bytes])

Described(option) == option # NoCells /\ HeaderOk(option)
Plain(option) == Described(option) => EarlyPairs(Units[option[3].val]) = {}

\* The other modules reason about cells: an option of any nodes, sound, damaged,
\* cut or shorter than FilePathListLength says, gives what LoadOption says of its
\* cells: the description, the nodes, the place of the list and the rest; and is
\* refused, or raises, when LoadOption says so.
DecodesAsItsCells ==
    (pc \in Ended /\ cells # NoCells /\ Plain(cells)) =>
        IF ParseRaises(cells) THEN pc = "raised"
        ELSE pc = "done" /\ AsCells(result, cells)

\* A description is read back whole unless a character below 256 stands before
\* one whose low byte is 0: there the bytewise search for its end stops, and no
\* later; it never runs into the list behind it.
DescriptionReadsBack ==
    (result # Unparsed /\ Described(cells)) =>
        LET units == Units[cells[3].val]
        IN  result.description = SubSeq(units, 1, WholeUpTo(units))

\* What the builders take, the parsers read back: every node with the fields that
\* were asked for, behind it the end node, and the optional data; a field a
\* builder lets pass is one its parser accepts.  Only a description that is not
\* read back whole moves the rest.
BuiltReadsBack ==
    (pc \in Ended /\ asked # NoCells /\ EarlyPairs(asked.description) = {}) =>
        /\ pc = "done" /\ result # Unparsed
        /\ result.description = asked.description
        /\ result.optdata = asked.optdata
        /\ Len(result.rounds) = Len(asked.nodes) + 1
        /\ Last(result.rounds) = Stop("end")
        /\ \A i \in 1..Len(asked.nodes) :
             result.rounds[i].step = "node" /\ Read(result.rounds[i]) = asked.nodes[i]

\* Every call ends, whatever bytes the variable holds: each round takes at least
\* a byte.
ParserEnds == <>(pc \in Ended)
=============================================================================
