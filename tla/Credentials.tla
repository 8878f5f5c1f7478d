---------------------------- MODULE Credentials ----------------------------
(***************************************************************************)
(* WUEFI_crypto.py: the steps from a key pair to a signed EFI image, each a*)
(* function that reads files, runs openssl or not, and writes a file.      *)
(* Several programs run them on the same directory.  sign_image compares   *)
(* the key with the certificate and then calls main of                     *)
(* WUEFI_crypto_sbsign.py, which reads both files again.                   *)
(***************************************************************************)
EXTENDS PeImage, Der

CONSTANTS
    Procs,         \* programs
    Keys,          \* bound: the key pairs openssl can generate, bytes
    Shapes,        \* what certificates differ in besides the key
    Dirs,          \* the directories there are
    Images,        \* the EFI images there are, records of PeImage
    InitFiles,     \* what the files may hold at the start
    Commands,      \* the calls, see CommandsAssumption
    MaxCalls       \* bound: the calls they make, all together

Names == {"pvt.pem", "pem", "der", "pvt.der", "from_certder.pem", "esl", "image", "signed"}
Path(dir, name) == [dir |-> dir, name |-> name]
Paths == {Path(d, n) : d \in Dirs, n \in Names}

\* What certificates differ in, besides the key: whether there is a version (and
\* extensions), the length of the names, the bytes of the serial number.  Bound: the
\* longest name, MaxName bytes, keeps a certificate below MaxContent.
MaxName == 16384
MaxSerial == 20
ASSUME ShapesAssumption ==
    \A shape \in Shapes : /\ shape.v3 \in BOOLEAN /\ shape.name \in 0..MaxName
                          /\ shape.serial \in Seq(Byte) /\ Len(shape.serial) \in 1..MaxSerial

\* Numbers in a PE header have no sign.
ImageRecords ==
    [len : Nat, mz : BOOLEAN, peoff : Nat, pe : BOOLEAN, opt_size : Nat,
     magic : STRING, num_dirs : Nat, cert_off : Nat, cert_size : Nat,
     size_of_headers : Nat, sections : Seq([ptr : Nat, size : Nat])]
ASSUME ImagesAssumption == Images \subseteq ImageRecords

ASSUME KeysAssumption == Keys \subseteq Byte

\* key, src (a certificate) and image are the paths given, out that of the result
\* or None; rtype of from_x509_keypair_make_certder; guid: the owner of a list is
\* a GUID.  The code itself names the key it generates; a caller names no key as a
\* result.
Ops == {"request", "pkey", "pem_to_der", "read_certder", "der_to_pem", "pem_make",
        "keypair_make", "make_esl", "get_pubkey", "sign"}
OutPaths == {Path(d, n) : d \in Dirs, n \in (Names \ {"pvt.pem"}) \cup {"directory"}}
ASSUME CommandsAssumption ==
    \A c \in Commands :
      /\ c.op \in Ops /\ c.guid \in BOOLEAN /\ c.rtype \in {"asn1", "raw", "path", "other"}
      /\ c.key \in Paths \cup {None} /\ c.src \in Paths \cup {None} /\ c.image \in Paths \cup {None}
      /\ c.out = None \/ c.out.dir \notin Dirs \/ c.out \in OutPaths
      /\ c.op \in {"request", "pkey", "keypair_make", "sign"} => c.key # None
      /\ c.op \notin {"request", "pkey", "keypair_make"} => c.src # None
      /\ c.op = "sign" => c.image # None
      /\ c.op = "request" => c.key.name = "pvt.pem"
ASSUME PathsAssumption == None \notin Paths
ASSUME MaxCallsAssumption == MaxCalls \in Nat

\* What a file holds.
Absent == [kind |-> "absent"]
KeyFile(k) == [kind |-> "key", key |-> k]
CertFile(k, shape, form) == [kind |-> "cert", key |-> k, shape |-> shape, form |-> form]
ImageFile(im) == [kind |-> "image", image |-> im]
Certs(form) == {CertFile(k, shape, form) : k \in Keys, shape \in Shapes}

\* At the start a private key is in no file but those named so.
ASSUME InitFilesAssumption ==
    /\ InitFiles \subseteq [Paths -> {Absent} \cup {KeyFile(k) : k \in Keys} \cup Certs("pem")
                                     \cup Certs("der") \cup {ImageFile(im) : im \in Images}]
    /\ \A f \in InitFiles : \A path \in Paths :
         IF path.name = "pvt.pem" THEN f[path].kind \in {"absent", "key"} ELSE f[path].kind # "key"

VARIABLES
    files, used,   \* used: the key pairs generated so far
    pc, cmd,
    held,          \* what a call holds between two steps
    result, calls,
    disturbed      \* observability: another one wrote a file this call uses

vars == <<files, used, pc, cmd, held, result, calls, disturbed>>

NoCommand == [op |-> "none", key |-> None, src |-> None, image |-> None, out |-> None,
              rtype |-> "asn1", guid |-> TRUE]

Init == /\ files \in InitFiles
        /\ used = {files[path].key : path \in {q \in Paths : files[q].kind = "key"}}
        /\ pc = [p \in Procs |-> "idle"]
        /\ cmd = [p \in Procs |-> NoCommand]
        /\ held = [p \in Procs |-> Absent]
        /\ result = [p \in Procs |-> "none"]
        /\ calls = 0
        /\ disturbed = [p \in Procs |-> FALSE]

Finish(p, what) == /\ pc' = [pc EXCEPT ![p] = "idle"]
                   /\ held' = [held EXCEPT ![p] = Absent]
                   /\ result' = [result EXCEPT ![p] = what]
                   /\ UNCHANGED <<cmd, calls>>
Hold(p, label, content) == /\ pc' = [pc EXCEPT ![p] = label]
                           /\ held' = [held EXCEPT ![p] = content]
                           /\ UNCHANGED <<cmd, calls, result>>
NoFile == UNCHANGED <<files, used, disturbed>>

\* fix_path_out: the path itself, a directory's file, or the default beside the
\* input; None when there is no such directory.
FixPathOutOver(path, out, backup) ==
    IF out = None THEN path
    ELSE IF out.dir \notin Dirs THEN None
    ELSE IF out.name = "directory" THEN Path(out.dir, backup) ELSE out
FixPathOut(path, out, backup) ==
    IF out = None THEN Path(path.dir, backup)
    ELSE IF out.dir \notin Dirs THEN None
    ELSE IF out.name = "directory" THEN Path(out.dir, backup) ELSE out

\* The default of openssl pkey is the key itself: the stem of k.pvt.pem is k.pvt.
OutOf(c) ==
    CASE c.op = "pkey" -> FixPathOut(c.key, c.out, "pvt.pem")
      [] c.op \in {"pem_to_der", "pem_make"} -> FixPathOut(c.src, c.out, "der")
      [] c.op = "der_to_pem" -> FixPathOut(c.src, c.out, "from_certder.pem")
      [] c.op = "keypair_make" /\ c.src # None -> FixPathOut(c.src, c.out, "der")
      [] c.op = "keypair_make" /\ c.src = None -> FixPathOut(c.key, c.out, "pvt.der")
      [] c.op = "make_esl" -> FixPathOut(c.src, c.out, "esl")
      [] c.op = "sign" -> FixPathOut(c.image, c.out, "signed")
      [] OTHER -> None

WriteFile(p, path, content) ==
    /\ files' = [files EXCEPT ![path] = content]
    /\ disturbed' = [q \in Procs |-> disturbed[q] \/
                       (q # p /\ path \in {cmd[q].key, cmd[q].src, OutOf(cmd[q])})]

Call(p) ==
    /\ pc[p] = "idle" /\ calls < MaxCalls
    /\ calls' = calls + 1
    /\ \E c \in Commands : cmd' = [cmd EXCEPT ![p] = c]
    /\ pc' = [pc EXCEPT ![p] = "called"]
    /\ result' = [result EXCEPT ![p] = "none"]
    /\ disturbed' = [disturbed EXCEPT ![p] = FALSE]
    /\ UNCHANGED <<files, used, held>>
Called(p, op) == pc[p] = "called" /\ cmd[p].op = op
-----------------------------------------------------------------------------
\* openssl_request_rsa_keypair_with_x509_csr: openssl writes the key first, and the
\* certificate after it.  Either can fail.
RequestKey(p) ==
    /\ Called(p, "request")
    /\ \/ \E k \in Keys \ used : /\ WriteFile(p, cmd[p].key, KeyFile(k))
                                /\ used' = used \cup {k}
                                /\ Hold(p, "request", KeyFile(k))
       \/ Finish(p, "failed") /\ NoFile
RequestCert(p) ==
    /\ pc[p] = "request"
    /\ \/ /\ \E shape \in Shapes :
               WriteFile(p, Path(cmd[p].key.dir, "pem"), CertFile(held[p].key, shape, "pem"))
          /\ Finish(p, "ok")
          /\ UNCHANGED used
       \/ Finish(p, "failed") /\ NoFile

\* openssl_pkey_extract_public_key: "pkey" and "-in" make one word (a comma is
\* missing), which openssl does not know.
PkeyExtract(p) ==
    /\ Called(p, "pkey")
    /\ Finish(p, "None")
    /\ NoFile

\* openssl_x509_convert_pem_to_der: an old result goes first.
KeepOld(p, out) == UNCHANGED <<files, disturbed>>
UnlinkOld(p, out) == IF files[out].kind # "absent" THEN WriteFile(p, out, Absent)
                     ELSE UNCHANGED <<files, disturbed>>
PemToDer(p) ==
    /\ Called(p, "pem_to_der")
    /\ IF OutOf(cmd[p]) = None THEN Finish(p, "None") /\ UNCHANGED <<files, disturbed>>
       ELSE Hold(p, "openssl", Absent) /\ UnlinkOld(p, OutOf(cmd[p]))
    /\ UNCHANGED used
Converted(p, form, other) ==
    /\ files[cmd[p].src].kind = "cert" /\ files[cmd[p].src].form = form
    /\ WriteFile(p, OutOf(cmd[p]), [files[cmd[p].src] EXCEPT !.form = other])
    /\ Finish(p, "path")
    /\ UNCHANGED used
OpensslToDer(p) ==
    /\ pc[p] = "openssl"
    /\ \/ Converted(p, "pem", "der")
       \/ Finish(p, "None") /\ NoFile

\* openssl_x509_convert_certder_to_pem: False, not None, when openssl fails; an old
\* result stays.
DerToPem(p) ==
    /\ Called(p, "der_to_pem")
    /\ \/ OutOf(cmd[p]) # None /\ Converted(p, "der", "pem")
       \/ Finish(p, IF OutOf(cmd[p]) = None THEN "None" ELSE "False") /\ NoFile

\* openssl_x509_read_certder
IsDer(content) == content.kind = "cert" /\ content.form = "der"
ReadCertder(p) ==
    /\ Called(p, "read_certder")
    /\ Finish(p, IF IsDer(files[cmd[p].src]) THEN "ok" ELSE "failed")
    /\ NoFile
-----------------------------------------------------------------------------
\* from_x509_pem_make_certder: what is no PEM raises, another PEM is refused.
PemMake(p) ==
    /\ Called(p, "pem_make")
    /\ LET pem == files[cmd[p].src]
       IN  IF OutOf(cmd[p]) = None \/ pem.kind = "key" THEN Finish(p, "None")
           ELSE IF pem.kind # "cert" THEN Finish(p, "raised")
           ELSE IF pem.form # "pem" THEN Finish(p, "raised")
           ELSE Hold(p, "write", [pem EXCEPT !.form = "der"])
    /\ NoFile

\* from_x509_keypair_make_certder: the certificate is written only for a result of
\* type path, also when a path is given.  A public key in place of the private one
\* is missed only when it has to sign.
Imports(content) == content.kind \in {"key", "cert"}
KeypairMake(p) ==
    /\ Called(p, "keypair_make")
    /\ LET c == cmd[p]
           pair == files[c.key]
           to_path == c.rtype = "path" \/ c.out # None
       IN  IF ~Imports(pair) THEN Finish(p, "raised")
           ELSE IF c.src # None /\ ~Imports(files[c.src]) THEN Finish(p, "raised")
           ELSE IF c.src # None /\ files[c.src].key # pair.key THEN Finish(p, "None")
           ELSE IF to_path /\ OutOf(c) = None THEN Finish(p, "None")
           ELSE IF pair.kind # "key" THEN Finish(p, "raised")
           ELSE IF c.rtype \in {"asn1", "raw"} THEN Finish(p, "certificate")
           ELSE IF c.rtype = "other" THEN Finish(p, "True")
           ELSE \E shape \in {s \in Shapes : s.v3} :
                  Hold(p, "write", CertFile(pair.key, shape, "der"))
    /\ NoFile

\* from_x509_certder_make_esl: the file is not looked at.
MakeEsl(p) ==
    /\ Called(p, "make_esl")
    /\ IF OutOf(cmd[p]) = None \/ ~cmd[p].guid THEN Finish(p, "None")
       ELSE IF files[cmd[p].src] = Absent THEN Finish(p, "raised")
       ELSE Hold(p, "write", [kind |-> "esl", of |-> files[cmd[p].src]])
    /\ NoFile

Write(p) ==
    /\ pc[p] = "write"
    /\ WriteFile(p, OutOf(cmd[p]), held[p])
    /\ Finish(p, "path")
    /\ UNCHANGED used
-----------------------------------------------------------------------------
\* The bytes of a certificate: version unless v1, serial number, algorithm, issuer,
\* validity, subject, key, extensions (external: openssl and asn1crypto).
Filler(n, byte) == [k \in 1..n |-> byte]
KeyBytes(k) == Filler(270, k)
NameDer(shape) == DerSeq(<<Filler(shape.name, 65)>>)
KeyInfoDer(k) == DerSeq(<<AlgorithmIdentifier(1), Tlv(3, <<0>> \o KeyBytes(k))>>)
TbsItems(k, shape) ==
    (IF shape.v3 THEN <<Tlv(160, DerInteger(<<2>>))>> ELSE <<>>)
      \o <<DerInteger(shape.serial), AlgorithmIdentifier(1), NameDer(shape), DerSeq(<<Filler(30, 48)>>),
           NameDer(shape), KeyInfoDer(k)>>
      \o IF shape.v3 THEN <<Tlv(163, Filler(60, 48))>> ELSE <<>>
CertBytes(k, shape) ==
    DerSeq(<<DerSeq(TbsItems(k, shape)), AlgorithmIdentifier(1), Tlv(3, <<0>> \o Filler(256, 1))>>)
CertDer == [k \in Keys |-> [shape \in Shapes |-> CertBytes(k, shape)]]

\* from_x509_certder_get_pubkey on a file: the key, None (there is another tag than
\* that of a certificate) or an exception.
NoDer == Filler(60, 45)
KeyIn(k, shape) ==
    LET bytes == GetPubkey(CertDer[k][shape])
    IN  IF Failed(bytes) THEN bytes
        ELSE IF bytes \in {KeyBytes(j) : j \in Keys} THEN bytes[1] ELSE Raises
KeyOf == [k \in Keys |-> [shape \in Shapes |-> KeyIn(k, shape)]]
PubkeyOf(content) ==
    IF content.kind = "absent" THEN Raises
    ELSE IF IsDer(content) THEN KeyOf[content.key][content.shape]
    ELSE GetPubkey(NoDer)

CertderGetPubkey(p) ==
    /\ Called(p, "get_pubkey")
    /\ LET key == PubkeyOf(files[cmd[p].src])
           other == IF cmd[p].key = None THEN Absent ELSE files[cmd[p].key]
       IN  Finish(p, IF key = Raises THEN "raised"
                     ELSE IF other.kind = "absent" THEN IF key = None THEN "None" ELSE "key"
                     ELSE IF key = None THEN "False"
                     ELSE IF ~Imports(other) THEN "raised"
                     ELSE IF key = other.key THEN "True" ELSE "False")
    /\ NoFile
-----------------------------------------------------------------------------
\* make_indirect_data and make_pkcs7, for a digest and a signature.
Indirect(digest) ==
    <<DerSeq(<<DerOid(5), DerSeq(<<Tlv(3, <<0>>),
        Tlv(160, Tlv(162, Tlv(128, Filler(28, 60))))>>)>>),
      DerSeq(<<AlgorithmIdentifier(6), Tlv(4, digest)>>)>>
SignedAttributes(digest) ==
    DerSet(<<DerSeq(<<DerOid(3), DerSet(<<DerOid(4)>>)>>),
               DerSeq(<<DerOid(2), DerSet(<<Tlv(4, digest)>>)>>)>>)
WithoutHeader(set) ==
    LET hdr == IF set[2] < 128 THEN 2 ELSE 2 + (set[2] - 128)
    IN  SubSeq(set, hdr + 1, Len(set))
Digest == Filler(32, 9)
Pkcs7(k, shape, signature) ==
    LET signer == DerSeq(<<DerInteger(<<1>>),
                             DerSeq(<<NameDer(shape), DerInteger(shape.serial)>>),
                             AlgorithmIdentifier(6),
                             Tlv(160, WithoutHeader(SignedAttributes(Digest))),
                             AlgorithmIdentifier(7),
                             Tlv(4, signature)>>)
        content == DerSeq(<<DerOid(4), Tlv(160, DerSeq(Indirect(Digest)))>>)
        data == DerSeq(<<DerInteger(<<1>>), DerSet(<<AlgorithmIdentifier(6)>>), content,
                           Tlv(160, CertDer[k][shape]), DerSet(<<signer>>)>>)
    IN  DerSeq(<<DerOid(8), Tlv(160, data)>>)
SignedDer == [k \in Keys |-> [shape \in Shapes |-> [by \in Keys |-> Pkcs7(k, shape, Filler(256, by))]]]

\* sign_image: the key, then the certificate, must be there and match.
SignKey(p) ==
    /\ Called(p, "sign")
    /\ LET key == files[cmd[p].key]
       IN  IF OutOf(cmd[p]) = None THEN Finish(p, "None")
           ELSE IF ~Imports(key) THEN Finish(p, "raised")
           ELSE Hold(p, "sign_cert", KeyFile(key.key))
    /\ NoFile
AnyKey(certified, key) == certified \in Keys
SameKey(certified, key) == certified = key
SignCert(p) ==
    /\ pc[p] = "sign_cert"
    /\ LET certified == PubkeyOf(files[cmd[p].src])
       IN  IF certified \in {None, Raises} THEN Finish(p, "raised")
           ELSE IF ~SameKey(certified, held[p].key) THEN Finish(p, "None")
           ELSE Hold(p, "sbsign", Absent)
    /\ NoFile

\* main of WUEFI_crypto_sbsign: the image is filled up to 8 bytes and hashed (one
\* that cannot be ends in an exception, never in False), ...
PadTo8(n) == n + (-n % 8)
SbsignImage(p) ==
    /\ pc[p] = "sbsign"
    /\ LET input == files[cmd[p].image]
       IN  IF input.kind \notin {"image", "signed"} THEN Finish(p, "raised")
           ELSE LET im == [input.image EXCEPT !.len = PadTo8(@)]
                IN  IF PeLayout(im) \in {None, Raises} THEN Finish(p, "raised")
                    ELSE IF Authenticode(im) = None THEN Finish(p, "raised")
                    ELSE Hold(p, "sbsign_cert", ImageFile(im))
    /\ NoFile
\* ... the certificate is read again, ...
SbsignCert(p) ==
    /\ pc[p] = "sbsign_cert"
    /\ IF ~IsDer(files[cmd[p].src]) THEN Finish(p, "raised")
       ELSE Hold(p, "sbsign_key", [image |-> held[p].image, cert |-> files[cmd[p].src]])
    /\ NoFile
\* ... and the key; the signature goes behind the image, filled up to 8 bytes, and
\* its place into the security directory.
SbsignKey(p) ==
    /\ pc[p] = "sbsign_key"
    /\ LET im == held[p].image
           cert == held[p].cert
           key == files[cmd[p].key]
           size == PadTo8(8 + Len(SignedDer[cert.key][cert.shape][key.key]))
       IN  IF key.kind # "key" THEN Finish(p, "raised")
           ELSE Hold(p, "write",
                  [kind |-> "signed", cert |-> cert, by |-> key.key,
                   digest |-> Authenticode(im), layout |-> PeLayout(im),
                   image |-> [im EXCEPT !.len = @ + size, !.cert_off = im.len, !.cert_size = size]])
    /\ NoFile

Step(p) == \/ Call(p)
           \/ RequestKey(p) \/ RequestCert(p) \/ PkeyExtract(p)
           \/ PemToDer(p) \/ OpensslToDer(p) \/ DerToPem(p) \/ ReadCertder(p)
           \/ PemMake(p) \/ KeypairMake(p) \/ MakeEsl(p) \/ CertderGetPubkey(p)
           \/ SignKey(p) \/ SignCert(p)
           \/ SbsignImage(p) \/ SbsignCert(p) \/ SbsignKey(p) \/ Write(p)

Next == \E p \in Procs : Step(p)

Spec == Init /\ [][Next]_vars
-----------------------------------------------------------------------------
\* Types, and: no function writes anything else over a private key, or a key
\* anywhere else.
TypeOK ==
    /\ \A path \in Paths : files[path].kind \in {"absent", "key", "cert", "esl", "image", "signed"}
    /\ \A path \in Paths :
         IF path.name = "pvt.pem" THEN files[path].kind \in {"absent", "key"}
         ELSE files[path].kind # "key"
    /\ used \subseteq Keys
    /\ cmd \in [Procs -> Commands \cup {NoCommand}]
    /\ calls \in 0..MaxCalls
    /\ disturbed \in [Procs -> BOOLEAN]

Signed == {files[path] : path \in {path \in Paths : files[path].kind = "signed"}}

\* authenticode_sha256 hashes an image whose sections follow its header without a
\* gap, in whatever order they are listed, from its first to its last byte, once
\* each but for the checksum and the security entry.
Contiguous(im) ==
    LET full == {k \in DOMAIN im.sections : im.sections[k].size > 0}
        ends == {im.size_of_headers} \cup {im.sections[k].ptr + im.sections[k].size : k \in full}
    IN  /\ \A k \in full : im.sections[k].ptr \in ends
        /\ \A j, k \in full : im.sections[j].ptr = im.sections[k].ptr => j = k
GoesOnAt(end, layout) == CASE end = layout.checksum -> end + 4
                         [] end = layout.security -> end + 8
                         [] OTHER -> end
HashedOnce(signed) ==
    Contiguous(signed.image) =>
      LET spans == NonEmpty(signed.digest)
      IN  /\ spans # <<>> /\ spans[1][1] = 0
          /\ GoesOnAt(Last(spans)[2], signed.layout) = signed.image.cert_off
          /\ \A k \in 1..Len(spans) - 1 : spans[k + 1][1] = GoesOnAt(spans[k][2], signed.layout)
HashedInOrderOnce == \A signed \in Signed : HashedOnce(signed)

\* What the firmware hashes of a signed image, up to the certificate table, is what
\* was hashed when it was signed, and the bytes the signer changes are no part of
\* it; the table starts at a multiple of 8.  (A section inside the header could
\* hold the security entry, gaps between sections shift the trailing bytes.)  The
\* firmware's side shares the order and the spans of sections with the signer's: an
\* error in those shows in HashedInOrderOnce, not here.
Verifies(signed) ==
    LET entry == signed.layout.security
    IN  /\ signed.image.cert_off % 8 = 0
        /\ (\A k \in DOMAIN signed.image.sections :
              signed.image.sections[k].ptr >= signed.image.size_of_headers) =>
             /\ NonEmpty(signed.digest) = NonEmpty(Verified(signed.image, signed.layout))
             /\ \A k \in DOMAIN signed.digest :
                  signed.digest[k][2] <= entry \/ signed.digest[k][1] >= entry + 8
SignedVerifies == \A signed \in Signed : Verifies(signed)

\* Read with read_tlv, the signature of an image holds the certificate, its issuer
\* and number, the attributes that were signed and their signature; and
\* from_x509_certder_get_pubkey finds the key of every certificate.
ReadsBack ==
    /\ \A path \in Paths : IsDer(files[path]) => PubkeyOf(files[path]) = files[path].key
    /\ \A signed \in Signed :
         LET cert == signed.cert
             parts(field) == Fields(field.value, 0)
             all == ReadTlv(SignedDer[cert.key][cert.shape][signed.by], 0)
             data == parts(parts(parts(all)[2])[1])
             signer == parts(parts(data[5])[1])
         IN  /\ data[4].value = CertDer[cert.key][cert.shape]
             /\ NameDer(cert.shape) \o DerInteger(cert.shape.serial) = signer[2].value
             /\ signer[4].value = ReadTlv(SignedAttributes(Digest), 0).value
             /\ signer[6].value = Filler(256, signed.by)

\* sign_image compares the key with the certificate, but signs with what it reads of
\* both later: the key is still that of the certificate, unless another program wrote
\* the key, the certificate or the result since the call began.
SignedAsChecked ==
    \A p \in Procs :
      pc[p] = "write" /\ cmd[p].op = "sign" /\ ~disturbed[p] => held[p].by = held[p].cert.key

\* openssl_x509_convert_pem_to_der removes an old result before it runs openssl: when
\* that fails, no certificate an earlier call wrote is left to be taken for the result
\* (unless another program has written one meanwhile).  This is said of that function
\* only: openssl_x509_convert_certder_to_pem (WUEFI_crypto.py:363-366) and
\* from_x509_pem_make_certder (:391-397) leave an old result when they fail.
NoStaleDer ==
    [][\A p \in Procs :
         pc[p] = "openssl" /\ pc'[p] = "idle" /\ result'[p] = "None" /\ ~disturbed[p] =>
           files'[OutOf(cmd[p])] = Absent]_vars
=============================================================================
