# Verification of WUEFI

TLA+ models, TLC configurations and TLAPS proofs for the UEFI boot-entry tools of this
repository (`src/WUEFI*.py`). `PROJECT.json` maps each definition to the lines it
translates and lists the runs, the mutants, the hazards and the theorems.

## 1. The system

The program runs on Windows as an administrator and changes the firmware's boot variables:
`BootOrder` (an array of 16-bit numbers), `BootNext` (one number) and `Boot####` (one
`EFI_LOAD_OPTION` per boot entry). They live in NVRAM, outside every process, and outlive it.
The program reaches them by two ways that see the same state: the Windows functions
`Get/SetFirmwareEnvironmentVariable(Ex)W`, one variable at a time, and `bcdedit.exe`, one object
at a time under a GUID. There is no lock and no transaction; any number of invocations, other
programs and the firmware write the same variables.

| component | source | state | operations | what makes it correct |
|---|---|---|---|---|
| BootOrder codec | `WUEFI_serde.py` `parse_efi_BootOrder`, `build_efi_BootOrder` | loop position, list, bytes | bytes to names, names to bytes or None | the way back gives the same bytes or None; never a part of a list |
| `EFI_LOAD_OPTION` parser and builders | `WUEFI_serde.py` | none | node parsers, node list, option, builders | a built option decodes to what it was built from; a damaged one is refused |
| Variable access | `WUEFI_evars.py` `read_/write_efi_variable`, `get_/set_evar_*` | the NVRAM | read, write, erase (None) | a refused value is never an erased variable |
| Variable command line | `WUEFI_evars.py` `__main__` | none: every start ends with an ImportError (section 3) | the functions on BootOrder and BootNext remain for programs that import the module | no entry that was listed is lost, repeated or reordered by a list that was read earlier |
| Create | `WUEFI.py` `main_CreateFwBootEntry` | GUID, name, payload; fifteen steps | copy {bootmgr}, find it, rewrite it, arm it | touches its own entry only; what is armed is complete |
| Edit | `WUEFI.py` `main_EditFwBootEntry` | payload between read and write | description, path, metadata of one entry | changes path entries only; keeps what it was not asked to change |
| Locate | `WUEFI.py` `main_LocateFwBootEntry` | candidates, position in BootOrder, buffer size | search by description, path, metadata | gives the only entry that had all the hints when it was read; ends |
| bcdedit | `WUEFI_bcdedit.py` | none | enum, copy, set, delete, bootsequence, displayorder, filters of identifiers, parser of the enumeration | a list is taken whole or not at all; what is printed reads back; nothing is listed twice, the boot manager stays |
| Utilities | `WUEFI_utils.py` | none | `return_result`, range checks, `is_guid`, `fix_path_out`, strings | |
| Windows helpers | `WUEFI_utils_windows.py`, `WUEFI_ctypes.py`, `WPrivilege.py` | process privileges | privilege, firmware type, function pointers | |
| Keys and certificates | `WUEFI_crypto.py` | files | key pairs and certificates by openssl or not, conversions, EFI signature list, TLV reader | no result stands for another one's; the reader gives back what the writer wrote |
| Signer | `WUEFI_crypto_sbsign.py`, `sign_image` | image bytes; key and certificate read twice | PE layout, Authenticode hash, DER, PKCS#7 | what is hashed is what the firmware hashes; key and certificate match |

Interactions. Create, Edit and Locate call variable access for raw bytes, and Create and Edit the
parser for their meaning; Create also calls bcdedit, as a subprocess, for the copy and (by two
`cfg_` arguments) for path, description, BootNext and BootOrder. `get_evar_BootOrder`,
`set_evar_BootOrder` and `set_evar_BootNext` use variable access and the BootOrder codec. These share
only the variables. The key tools and the signer share
the files of a directory: each function reads the files an earlier one wrote, most of them under a
default name beside their input. No component calls back into another, there are no threads and no
asyncio, and no retries but the growing buffer of `read_efi_variable`. What is hard is what the
variables and the files go through between two calls: another invocation, another program, a failed
call, the end of the process; and the bytes, which WUEFI, bcdedit, openssl and the firmware take
apart and put together.

The hazards are listed, each at its line, in `PROJECT.json`, with the properties that
would catch them or the reason why none does yet.

## 2. The modules

A module extends the one it is indented under.

    BootOrderCodec                          LoadOption
      BootOrderLoops                          OptionBytes
        BootOrderProofs                         NodeBuilders
        MCBootOrderLoops                          OptionLoops
      EvarsOrder                                    OptionProofs
        EvarsOrderProofs                            MCOptionLoops
        MCEvarsOrder                          FwStore
                                                CreateEntry (implements EntryLifecycle)
                                                  CreateEntryProofs
                                                  MCCreateEntry (also OptionBytes)
    BcdEnum                                     EditEntry
      BcdOrder                                    EditEntryProofs
        BcdOrderProofs                            MCEditEntry
        MCBcdOrder                              LocateEntry
                                                  LocateEntryProofs
    Outcomes                                      MCLocateEntry
      PeImage
      Der
        Credentials (also PeImage)
          CredentialsProofs
          MCCredentials

**BootOrderCodec** has the two conversions as operators, on bytes. A character of a name is kept
as what the code tells apart: a hexadecimal digit or no digit. `EntryOk` is one round's
acceptance: `str.isdigit` (so a name with a digit A..F is refused) and `is_uint16` with its
default `inc_zero=False` (so 0 is refused).

**BootOrderLoops** is the same code one iteration at a time, with its early returns:
`ParseOdd`, `ParseWord`, `ParseEnd`, `BuildEntry`, `BuildRefused`, `BuildEnd`.

**LoadOption** models parser and builders of `EFI_LOAD_OPTION` for the modules below. A variable is
a sequence of cells, one for each field or device-path node; offsets and lengths are counted in
cells, a slice `data[a:b]` of the code is `Slice(data, a, b)`. A node carries its flaws: the zero
fields that its parser refuses, `cut`, and `odd` (a path that cannot be decoded, which raises). An
entry whose Attributes stand twice decodes as the bytes do: length 1, no description, one byte of
list.

**OptionBytes** has the same parser on bytes: the bytewise search for the end of the description and
its correction at an odd place, the length of the list, and the walk over a device path, one `Round`
per header. Its last part says which bytes a sequence of cells stands for (`Bytes`) and what it is
for both to decode alike (`DecodesAlike`), so what the other modules take for granted about cells
is itself checked. **NodeBuilders** has the node builders with what they accept (`Taken`), the EISA
ids and GUIDs, and the fields the node parsers give back (`Read`). **OptionLoops** is the parser as
it runs, one action per way a round can go (`TakeNode`, `LeaveList`, `RaiseInList`, `ListOver`), on
options of cells, options of the builders, and any other bytes.

**FwStore** is the shared state `bootOrder`, `bootNext`, `entry`, with the write of each and the
four bcdedit commands used (external, as the calls and the parsing of their output in
`WUEFI_bcdedit.py` show them). The GUID of an entry stands for its variable, as bcdedit keeps
one for the other.

**CreateEntry** is `main_CreateFwBootEntry`. Each call that leaves the process is one action;
local work between two calls belongs to an action. `pc[r]` names the step that run `r` takes next:

| steps of the source | actions |
|---|---|
| 1 copy | `CopyEntry` (with or without a readable GUID), `CopyFails` |
| 2 BootOrder | `ReadOrder`, `ReadOrderFails` (raises: `len(None)`) |
| 3 scan | `ScanName`, `ScanRaises` (WinError of an entry that is gone), `ScanEnd` |
| 4, 5 bcdedit path, description | `SetPath`, `SetDescription` |
| 6 read | `ReadEntry`, `ReadEntryRaises` |
| 7 to 12 decode, check, build | `CheckEntry`, `NewData` |
| 13 write | `WriteEntry`, `WriteEntryFails` |
| 14 BootNext | `SkipNext`, `SetNext`, `SetNextFails` |
| 15 BootOrder | `SkipFirst`, `AddFirstRaises` (either way of it raises, see section 3) |
| result | `Finish`; every failure through `Fail` (`return_result`: payload, None or an exception) |

Beside the runs there are `Kill` (the process ends), `DeleteForeign` and `Reorder` (other
programs). `own[r]`, the entry bcdedit made for the run, is there for the properties only.

**EntryLifecycle** is the abstract promise of a creation: no entry, then a draft, then a ready
one that stays ready, and only a ready entry is ever the next to boot.

**EvarsOrder** has the functions of `WUEFI_evars.py` on BootOrder and BootNext, on the bytes of the
variables, called by programs that import the module: `Get` and `GetRaises` (`get_evar_BootOrder`),
`Set` and `SetFails` (`set_evar_BootOrder`), `SetNext` (`set_evar_BootNext`). What a program does
between its read and its write is external: `MoveFirst` puts one entry in front, which is what
`WUEFI.py:390` to 403 means to do. `Main` is the module's own command line, which raises; `Stop` ends a
program anywhere. `Stored` is `write_efi_variable`: None erases the variable. Both values of
`as_tuple` are there: with it, a read that failed gives a list without names.

**EditEntry** is `main_EditFwBootEntry`: arguments, BootOrder, read, check, write; two calls on
one entry may overlap.

**LocateEntry** is `main_LocateFwBootEntry` and, below it, the loop of `read_efi_variable`: every
attempt of a read is an action (`GrowBuffer`, or the one that fits), so another program can make
the variable longer, shorter or delete it before the next attempt. Hints are searched as
substrings of the raw variable, wherever they stand; a variable is a sequence of symbols here and
not the cells of LoadOption. The metadata-only branch is the code's: it stops at the first entry,
raises for a listed entry that cannot be read, and compares with Python's `[-n:-1]`.

**BcdEnum** has the functions of `WUEFI_bcdedit.py` on identifiers (`util_filter_identifier`,
`util_filter_identifier_list`, `is_guid`) and on the lines that `bcdedit /enum` prints
(`parse_enum_entry_listfield`, `parse_enum_entry`, `parse_enum`). An identifier is what its checks
look at: length, braces, hyphens and digits, the object it names, and in which spelling.
**BcdOrder** has one action per command; bcdedit itself (objects, display order, boot sequence,
what it prints and when it fails) is external. `AddFirstForce` and `List` stand for
`cmd_fw_do_modify_addfirst_force` and `cmd_fw_do_list`, which raise before their first command.

**Outcomes** names what a Python function gives when it gives no value. **Der** is the encoder of the signer (`tlv`, `seq`, `der_set`, `der_integer`, `der_oid`) and the
reader of the key tools (`read_tlv`, and the way from there to the public key), on bytes. **PeImage**
is `pe_layout` and `authenticode_sha256`: an image is its length and the header fields the code
reads, a hash is the sequence of file ranges it is given. **Credentials** composes them into the
programs of `WUEFI_crypto.py`: each function one or more actions, divided where it reads or writes
a file or calls openssl, on a shared directory. `sign_image` reads key and certificate, compares
them, and then gives the paths to the signer, which reads both again: `SignKey`, `SignCert`,
`SbsignImage`, `SbsignCert`, `SbsignKey`, `Write`.

## 3. What the runs check

Passing runs:

| run | instance | what it shows |
|---|---|---|
| `boot_order_codec` | all byte strings of up to 4 bytes over 7 bytes, all lists of up to 3 of 15 entries | both loops give what the definitions say (`LoopsMatchDefinitions`), so never a part of a list, and the same bytes again if and only if all names are encodable (`RoundTrip`) |
| `option_bytes` | device paths of up to 3 of 17 nodes, sound or damaged, the last one also cut, with a length that is right or one cell too long; 12 descriptions; of the builders, every kind of node at both ends of what is taken, and all lists of up to 3; all short lists over 4 bytes behind a file-path header | the parser ends on all of them (`ParserEnds`), takes no byte of a list twice or beyond its end (`NodesTile`), gives what LoadOption says of the cells (`DecodesAsItsCells`), what the builders were asked for if the description is read back whole (`BuiltReadsBack`), and the description up to the first character below 256 before one whose low byte is 0 (`DescriptionReadsBack`) |
| `create_two_runs` | 2 concurrent Windows-API calls, 3 names, 1 step of another program | each run finds and rewrites its own entry (`NameIsOwn`, `OthersUntouched`), BootNext is never half-made, also after a failure or a kill (`ArmedIsComplete`); the whole implements `EntryLifecycle` (`ImplementsLifecycle`) |
| `create_modes` | 1 call under all 128 combinations of flags and path length, 7 device paths, BootOrder missing, sound or with a name that is gone, 1 step of another program | the call ends (`RunsEnd`), a success is as requested (`SuccessIsAsRequested`) and its entry is in BootOrder (`ListedAtEnd`); what the run reads and what it writes decodes on bytes as on cells (`DecodesAsItsBytes`) |
| `evars_order` | 2 programs that move one of 5 names to the front or write BootNext, 8 values of BootOrder | with encodable names and no failed read taken for an empty list: every entry of the start stays listed, those nobody moved in their order (`EntriesKept`); nothing is listed twice (`NoRepeats`) |
| `edit_two_calls` | 2 overlapping calls of 9 edits on 12 Windows-like and 6 refused entries | only entries that end with a file path change (`OnlyPathEntriesChange`); OptionalData is the original or the last writer's (`OptDataKept`) |
| `locate` | 1 call with 9 hints, 2 names, contents of 5, 7 and 8 symbols with a buffer that grows by 2, BootOrder missing, of 1, 2 and 3 entries (one repeated); another program writes any of it at any time | an answer is the only entry that had all hints when it was read (`FoundAsRead`), the exact one if nobody wrote (`UndisturbedIsExact`), the buffer never exceeds the longest variable by a step (`BufferBounded`), the call ends (`SearchEnds`) |
| `bcd_order` | 2 programs, 3 calls of 22 commands, 2 entries and the boot manager, identifiers in every spelling | lists of identifiers are taken whole or not at all (`FilterIsAllOrNothing`); the display order repeats an object, or the boot manager goes, only after it was named in a spelling the filters do not compare (`NoRepeats`, `BootmgrStays`); the parser gives back what is printed but for the head of a list (`EnumReadsBack`) |
| `credentials` | 2 programs, 2 calls of 25, 3 key pairs, certificates with parts of 125 to 256 bytes, v1 and v3, 8 images that pass and 12 that fail each check of `pe_layout` | the hash covers an image in file order, once, but for checksum and security entry (`HashedInOrderOnce`); it is what the firmware hashes of the signed image (`SignedVerifies`); certificates and signatures read back (`ReadsBack`); an image is signed by the key of its certificate unless another program wrote the key, the certificate or the result since the call began (`SignedAsChecked`); a conversion from PEM to DER by openssl that fails leaves no old certificate (`NoStaleDer`) |

The bounds. Two runs are the smallest number that can interfere; the code has nothing that counts
runs (the proofs of section 4 have any number). Three names hold an entry of Windows and one for
each run. A BootOrder of two entries has a first and a later one; four bytes are two words, which
tells order, stride and byte order apart. `EnvBudget` bounds what other programs do; one step
suffices to make a list stale or an entry vanish. In `locate` nothing bounds the other programs:
contents need three, four and four buffers, so a variable can outgrow the buffer more than once.
`MaxCalls` is 3 in `bcd_order` (an entry goes, a copy takes its place at the end, a third call moves
it or repeats it) and 2 in `credentials`, where the initial files stand for all earlier calls. Byte
values and names are chosen for each kind of digit, 0, and the two ends of 16 bits; lengths on both
sides of 128 and 256. An entry whose Attributes stand twice
leaves one byte as its list, the low byte of the true length: the model takes one that is no header
(any but 4, modulo 256, for which the parser would raise). Three nodes of a device path are one before, one that stops the walk or not,
and one behind. Deadlock is not checked
(`CHECK_DEADLOCK FALSE`) because every process ends.

Each property of a passing run has a mutant, a plausible slip in the modelled code under which TLC
finds it violated (for instance matching the common prefix of the temporary descriptions, or going
on after a refused write).

Runs that show a disagreement between code and documentation:

| run | what happens |
|---|---|
| `create_bcd_path` | when bcdedit sets path and description, the new payload has its Attributes twice (`WUEFI.py:276`) and decodes to nothing, though the call reports success |
| `evars_refused` | for a list with Boot0000 or a name like Boot000A, `set_evar_BootOrder` erases BootOrder and reports success |
| `edit_path` | the FilePathList is not in the payload of an edit: the expression at `WUEFI.py:837` is not an assignment |

The models show more of this kind; each is in the actions as the code has it, none has a run of its
own:

- Step 15 of `main_CreateFwBootEntry` cannot succeed. Without bcdedit BootOrder is a tuple and has no
  `remove` (`WUEFI.py:392`); with it, `cmd_fw_do_modify_addfirst_force` calls `wsubproc` without its
  argument `verbose` (`WUEFI_bcdedit.py:667`, `WUEFI_utils_windows.py:11`). Both raise, and BootNext, if asked for, is
  set by then. `cmd_fw_do_list` raises for the same reason (`WUEFI_bcdedit.py:541`). What stands behind
  these calls (`:549` to `:582`, `:674` to `:716`) is never run and not modelled.
- `WUEFI_evars.py` "can be used as a command line utility" (`src/README.md:43`): it imports
  `is_fwtype_uefi` from `WUEFI_utils`, which has no such name (`WUEFI_evars.py:500`; it is in
  `WUEFI_utils_windows.py:46`), so every command ends before its arguments are read. The commands behind
  it are not modelled.
- `openssl_x509_convert_certder_to_pem` and `from_x509_pem_make_certder` leave an old result where it is
  when they fail (`WUEFI_crypto.py:363`, `:391`); only the conversion from PEM to DER by openssl deletes it first.
- A command that succeeds and prints nothing gives None for its output, and `cmd_entry_copy` and the
  parser of the enumeration raise (`WUEFI_bcdedit.py:430`, `:302`).
- A description with a character below 256 before one whose low byte is 0, as `N` before U+0100, is
  written by every builder and read back cut (`WUEFI_serde.py:1195`); the rest of it is taken for
  the device path, so the entry can no longer be edited.
- `build_efi_elo_fpl_node_ACPI_HID` refuses the UID 0 (`WUEFI_serde.py:1439`), which the parser reads
  and which most nodes of this kind have; in the same way function and device 0 of a PCI node are
  refused by builder and parser, so a device path through one is "corrupted".
- `return_result` builds a tuple with the step code and returns the payload without it
  (`WUEFI_utils.py:73`).
- `parse_enum_entry_listfield` drops the item on the name's own line (`WUEFI_bcdedit.py:156`), so
  `cmd_entry_enum` gives a display order without its first entry.
- The metadata-only search compares a slice that is one byte short (`WUEFI.py:523`), so it finds
  only empty metadata.
- An image that cannot be laid out ends in an exception of `authenticode_sha256`, so the branch of
  `sign_image` that reports a failed signature is never reached.
- `openssl_pkey_extract_public_key` always fails (`WUEFI_crypto.py:224`, a missing comma makes one
  word of two); were it repaired, its default result would be written over the private key.
- `openssl_x509_convert_certder_to_pem` gives False where its siblings give None.
- `from_x509_keypair_make_certder` with a path and a result type of `asn1` or `raw` writes nothing.
- `pe_layout` reads NumberOfRvaAndSizes before it knows the header is long enough, and raises; the
  padding to 8 bytes comes first, so a file short of its last section by a few bytes is accepted.
- `is_guid` takes 38 characters as a GUID without looking at the braces.

Fairness. `create_modes` assumes weak fairness of each run's next step: the function is
straight-line code without waits, locks or retries, so a process that is not killed takes its
next step. Nothing is assumed of other programs, nor that a call succeeds. `option_bytes`
assumes the same of the parser's loop, and `locate` of the searching call: the other programs may write
forever, and no read has to fail.

## 4. What is proved

By TLAPS, for all values of the constants under the named assumptions of the modules: any number of
runs, calls, invocations or programs, names and texts, boot orders and variables of any length.

**BootOrderProofs** starts from what a word is: it has two bytes and is made of them. `LoopInvariant`: in the parse phase, the names so far are those of the words
read so far; in the build phase, the bytes so far are the words of the entries accepted so far;
at the end the result is that of the definition. The loops' own properties are not inductive: they
speak of the end only, and the invariant of the middle is what connects each iteration with
the definition. From it follow `LoopsTyped` (`TypeOK`), `ReadThenWritten` (`RoundTrip`),
`LoopsComputeDefinitions` (`LoopsMatchDefinitions`) and `BuildsAllOrNothing` (a result is None or one
word for each entry).

**CreateEntryProofs.** `Typed` (`TypeOK`), `FindsItsOwn` (`NameIsOwn`), `TouchesItsOwn`
(`OthersUntouched`). `NameIsOwn` alone is not inductive: the name comes from a scan over a boot
order that may be stale, of entries that may have changed since. The invariant `IInv` says where a
temporary description can be: in no entry but that of the run that drew it (`EntriesMarked`), and
in nothing another run has read and may write back (`DataMarked`). It also says that the entries of
two runs differ (`OwnDistinct`) and are there (`OwnExists`), and that what the scan has found is the
run's own (`FoundIsOwn`). The copy preserves it because the name is free and the token new; the
writes because they are made of cells of the old entry and of texts that are no token.
`SuccessIsListed` (`ListedAtEnd`): what the scan found was listed when BootOrder was read, and stays
listed when others move entries or delete theirs (`StillListed`); a call that succeeds has found
something (`SuccessIsNamed`).

On the same invariant, and while path and description are set by the Windows API: until its run writes it, an own entry is bcdedit's
draft (`CInv`). The conditions of steps 7 to 11 accept a draft only when all nodes before its end
node are good, the last one a file path; so the payload put together from its slices parses back
node by node, and the entry is what was asked for. From it `NeverArmsHalfMade` (`ArmedIsComplete`)
and `SuccessKeepsItsWord` (`SuccessIsAsRequested`). `ImplementsTheLifecycle`: if every request lets
the Windows API set path and description (`AllByApi`, without which `create_bcd_path` refutes it),
each step of `CreateEntry` is one of `EntryLifecycle` or is not seen by it.

**EvarsOrderProofs**: `EvarsTyped` (`TypeOK`), `KeepsEntries` (`EntriesKept`), `NeverRepeats`
(`NoRepeats`). `EntriesKept` is not inductive, as a program writes a list it read long before: the
invariant (`EvarsInvariant`) says the same of every list that is held, in numbers. A name that
`parse_efi_BootOrder` gives spells the number it stands for and is the only full name that does, so
removing a name from a list and putting one in front keeps all other numbers in their order.

**EditEntryProofs**: `ChangesPathEntriesOnly` (`OnlyPathEntriesChange`) and `KeepsOptData`
(`OptDataKept`). What a call writes has lost its list (see `edit_path`), so it is never accepted
again; a call that writes has therefore read the entry of the start, or one whose optional data is that
of its last writer.

**LocateEntryProofs**: `LocateTyped`, `GivesWhatItRead` (`FoundAsRead`), `IsExactUndisturbed`
(`UndisturbedIsExact`), `BoundsItsBuffer` (`BufferBounded`). The invariant counts the positions seen so
far that had all hints: none, exactly the one kept, or more; and what was seen is stored still unless
somebody wrote.

**BcdOrderProofs**: `OrderHasNoRepeats` (`NoRepeats`), `BootmgrIsKept` (`BootmgrStays`),
`FilterAllOrNothing` (`FilterIsAllOrNothing`), for lists of strings of any length. The
invariant `IInv` adds to the two about the order that what is listed is an object (`Firmware`), so that
what bcdedit appends was not there, and that a call has given its strings (`Programs`), so that a
repeated object has a spelling to blame. What the loops of the filters and
of bcdedit compute is proved along the list (`LoopExists`): a filter's result is what each string stands
for, once, in the order of the strings. `EnumIsReadBack` (`EnumReadsBack`): the lines of each entry stand
at places counted from the length of the first group (`FirmwareLinesAre`), the parser ends each entry where
the next one starts (`EntriesEnd`), so its walk from the last entry back gives one record for each, with
that entry's identifier (`EnumIsRead`), and the first group without the head of the order.

**CredentialsProofs** begins with the bytes. `WrittenTlvIsRead`: for every tag and every content of at
most `MaxContent` bytes (65535, the longest length that is written with two bytes), what the signer's
`tlv` writes, the key tools' `read_tlv` reads back, in any of the three forms of the length and with
anything behind it. `KeyIsFound`: so the fields of any number of values are found one behind the other,
and in a certificate, with or without a version, the key. Then the files. `StoreInvariant`: the
invariant `IInv` says what each file can hold (`Store`), what a call holds at each of its steps
(`Programs`), and that key and certificate of a signer still match, or the old result of a conversion is
still gone, unless another program wrote one of them (`Undisturbed`). `SignedAsChecked` says nothing of a
call before its last step, so it is not inductive: the second read of each file must be known to give what
the first one gave. From it `KeysStayWhereTheyAre` (`TypeOK`), `SignsWithTheKeyOfItsCertificate`
(`SignedAsChecked`), `NoStaleResult` (`NoStaleDer`) and `SignaturesReadBack` (`ReadsBack`). The last one
rests on the size of everything a signature is made of: each part is bounded (`FitsSix`, `RoomForSix`), so
that the whole stays below `MaxContent` for names of up to `MaxName` bytes, each `tlv` is read back and
each field found behind the one before it.
`FirmwareHashesTheSame` (`SignedVerifies`) and `EveryByteIsHashedOnce` (`HashedInOrderOnce`) are about
`authenticode_sha256`, for section tables of any length and in any order. Sorting is insertion: a list in
order falls into what starts before an offset and what starts behind it (`SplitAt`), so the result is in
order and has the same sections (`OrderKept`). Without gaps each section then starts where
the one before it ends, and the sum of the sizes is where the last one ends; so the spans follow each other
but for the checksum and the security entry, and the rest begins where the sections end (`Covers`). For
this the invariant says of a signed image in a file that it was made from one that could be signed
(`SignedImage`): the image before, filled up to a multiple of 8, and the table behind it. Firmware's side of
`SignedVerifies` is written with the signer's operators for the order and the spans of the sections: it
shows that table and entry lie outside of what was hashed, and `HashedInOrderOnce` that the order is right.

**OptionProofs**, for any bytes, cells and requests. `NodesAreTheList` (`NodesTile`): what is taken so far is a
beginning of the list. With it the invariant `TilingInv` says that only the last round is no node; each round gives a
slice that starts at the offset and is as long as the offset moves (`RoundTakes`), whichever of the headers it
matches (`HeadersDiffer`). `DescriptionIsReadBack` (`DescriptionReadsBack`): of the places that are tried, an
even one inside the text is a character and never 0, an odd one takes the high byte of a character and the
low byte of the next (`NullsOf`), so the first that is 0 is where `WholeUpTo` says (`EndFound`).
`BuiltIsReadBack` (`BuiltReadsBack`): a number, a GUID and an EISA id are read back from their bytes (`NumberReadBack`,
`BytesLeTwice`, `EisaReadBack`), so a round at the place of a node that its builder took gives the node with all its
fields (`NodeReadBack`). The nodes stand where the ones before them end, the end node behind the last
(`PlacesExist`); the invariant `BuiltInv` says that the walk stands at such a place and has given back what is before
it. What it assumes of a request is what the code does with it: the builders have taken the nodes, the list is
shorter than 64K (`Buildable`, without which `to_bytes` raises and there is no option) and the description is one
that is read back whole.

Induction along data is possible where a property can be written as a set of positions: a set of naturals
has a least element (`HasLeast`, from the library's `WFMin`), so a set that has 0 and with k - 1 has k
has them all (`Along`).

The assumptions on the environment, apart from types: a random token (16 random bytes) is nobody's
text and no two runs draw the same one (`TextsAssumption`, `TmpDescription`); bcdedit copies to a free
name; device paths and optional data of Windows are nodes and optional data (`BcdAssumption`), with
no end node before the end (`TemplatesAssumption`); other programs do not delete the entry of a run
that is under way (`DeleteForeign`); behind the list of an entry that can be edited stands nothing that
looks like a node (`EntriesAssumption` of EditEntry); a variable of no bytes is a deleted one
(`ContentsAssumption`, `InitRawsAssumption`). bcdedit
lists objects only, and the firmware nothing twice (`InitOrdersAssumption` of BcdOrder); a private key is
in a file named `*.pvt.pem` and a call is given no such name for its result
(`InitFilesAssumption`, `CommandsAssumption` of Credentials); a name in a certificate has at most
`MaxName` bytes, a serial number 1 to 20 (`ShapesAssumption`); a text of Windows has no U+0000
(`UnitsAssumption`), an option has one FilePathListLength and nothing flawed before its list
(`OptionsAssumption`), and the builders are asked for numbers below 2^31, which stand for all that are not 0,
and for bytes and texts (`RequestsAssumption`); a variable holds bytes (`RawsAssumption`); a key is told from another by one byte
(`KeysAssumption`), and the numbers in a PE header have no sign (`ImagesAssumption`). Sentinels (None, Raises, NoVar, Unparsed) are no values (`SentinelAssumption`,
`ResultAssumption`, `OutcomesAssumption`, `PathsAssumption`, `NamesAssumption`, `NoVarAssumption`, `ParserAssumption`).

Only model-checked: liveness (`RunsEnd`, `SearchEnds`, `ParserEnds`), which is out of the prover's
reach; and that bytes decode as their cells do (`DecodesAsItsCells`, `DecodesAsItsBytes`): both sides walk
their own list, one of bytes and one of cells, and any cell may be flawed or cut, so a proof would go through
every kind of cell with every flaw.

## 5. What is left out

- Windows helpers (privileges, function pointers, firmware type) and `WPrivilege.py`: calls of the
  Windows API without state of their own, and nothing to model but their success.
- The test scripts, which call the key tools on real files; `WUEFI_symbols.py`, constants that the
  modules use.
- `gen_str_BootNNNN` (it compares an unpadded lower-case name with padded upper-case ones) and the
  string helpers: nothing in the repository calls the first, the others only cut text.
- Bytes: lone surrogates in a text; 64-bit fields with all bits set are in OptionBytes and in none of
  its instances. The modules above it have cells, and their texts no description that ends early.
- Attributes other than `01 00 00 00`, except in `option_bytes`. Names with more than five digits
  after `Boot`, and lower-case names.
- Contents of DER fields longer than `MaxContent`; the cryptography itself: a signature is who made
  it, a hash what it covers.
- Other programs that delete the entry of a call under way: between the scan and the write of Create
  its number may then belong to a stranger's entry, and the code has no defence.
- The debug prints, the parse of the new entry that is done only to print it; the code behind a call
  that always raises: the commands of `WUEFI_evars.py` below line 500, and what follows the calls of
  `wsubproc` without `verbose` in `WUEFI_bcdedit.py`.
- Python before 3.14. The annotation `Optional[Union[tuple,list],bytes]` (`WUEFI_evars.py:293`) raises
  where annotations are evaluated with the function they stand at, so there no program can import
  the module; the models are of versions that do not evaluate it.

## 6. Plan

Done, in the order of importance: the codec; Create; the functions on BootOrder and
BootNext; Edit; Locate with the growing
buffer; the commands of bcdedit; DER, PE layout and the key tools; the option on bytes with its
builders. What remains:

1. A proof that the parser on bytes decodes as LoadOption does on cells (`DecodesAsItsCells`), which would carry
   the theorems of Create and Edit down to the bytes.
2. A composition of Create, Edit and programs that set BootOrder on one store with a reboot that consumes
   BootNext. So far each of them meets the others as an environment: `DeleteForeign` and `Reorder` in
   Create, any writes in Locate, other programs of the same kind in EvarsOrder and Edit.
