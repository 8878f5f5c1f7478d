--------------------------- MODULE MCCredentials ---------------------------
(* Instances of Credentials for TLC: two programs in one directory,         *)
(* certificates whose parts have lengths around 128 and 256, and images on  *)
(* both sides of every check of pe_layout.                                  *)
EXTENDS Credentials

CONSTANTS p, q

Here(name) == Path("here", name)
Shape(v3, name, serial) == [v3 |-> v3, name |-> name, serial |-> serial]
MCShapes == {Shape(TRUE, 125, <<127>>), Shape(FALSE, 128, <<128, 0>>),
             Shape(TRUE, 256, <<1, 2, 3>>)}

\* PE32+ with two sections listed in file order, and 5 bytes behind them.
Section(ptr, size) == [ptr |-> ptr, size |-> size]
Good == [len |-> 1029, mz |-> TRUE, peoff |-> 64, pe |-> TRUE, opt_size |-> 240,
         magic |-> "PE32+", num_dirs |-> 16, cert_off |-> 0, cert_size |-> 0,
         size_of_headers |-> 512, sections |-> <<Section(512, 256), Section(768, 256)>>]
Good32 == [Good EXCEPT !.magic = "PE32", !.opt_size = 224, !.len = 1024]
Fine == {Good, Good32,
         [Good EXCEPT !.sections = <<Section(768, 256), Section(0, 0), Section(512, 256)>>],
         [Good EXCEPT !.sections = <<Section(512, 128), Section(768, 256)>>],
         [Good EXCEPT !.sections = <<>>, !.len = 512],
         [Good EXCEPT !.sections = <<Section(768, 256), Section(512, 256)>>],
         [Good EXCEPT !.sections = <<Section(128, 400)>>],
         [Good EXCEPT !.sections = <<Section(512, 519)>>]}
Bad == {[Good EXCEPT !.len = 48], [Good EXCEPT !.mz = FALSE], [Good EXCEPT !.pe = FALSE],
        [Good EXCEPT !.opt_size = 64], [Good EXCEPT !.magic = "rom"],
        [Good EXCEPT !.opt_size = 68, !.len = 156, !.size_of_headers = 156],
        [Good EXCEPT !.num_dirs = 4], [Good EXCEPT !.opt_size = 150],
        [Good EXCEPT !.size_of_headers = 1033], [Good EXCEPT !.size_of_headers = 224],
        [Good EXCEPT !.opt_size = 240 + 640], [Good EXCEPT !.sections = <<Section(512, 521)>>]}
MCImages == Fine \cup Bad

Files(im, key, pem, der) ==
    [path \in Paths |-> CASE path = Here("image") -> ImageFile(im)
                          [] path = Here("pvt.pem") -> key
                          [] path = Here("pem") -> pem
                          [] path = Here("der") -> der
                          [] OTHER -> Absent]
AShape == Shape(TRUE, 125, <<127>>)
Pem(k) == CertFile(k, AShape, "pem")
Der1(k) == CertFile(k, AShape, "der")
MCInitFiles ==
    {Files(im, KeyFile(1), Pem(1), Der1(1)) : im \in MCImages}
      \cup {Files(Good, Absent, Absent, Absent), Files(Good, KeyFile(1), Pem(2), Pem(1)),
            Files(Good, KeyFile(1), Der1(2), Absent)}

C(op) == [NoCommand EXCEPT !.op = op, !.key = Here("pvt.pem"), !.src = Here("der"),
                           !.image = Here("image")]
FromPem(op) == [C(op) EXCEPT !.src = Here("pem")]
NoDirectory == Path("nowhere", "directory")

SignCommands == {C("sign"), [C("sign") EXCEPT !.out = Here("directory")],
                 [C("sign") EXCEPT !.image = Here("signed"), !.out = Here("image")]}
KeyCommands == {C("request"), FromPem("pem_to_der"), FromPem("pem_make")}
MCCommands == SignCommands \cup KeyCommands
AllCommands ==
    MCCommands
      \cup {[c EXCEPT !.out = NoDirectory] : c \in {C("sign"), FromPem("pem_to_der"),
              C("der_to_pem"), FromPem("pem_make"), C("make_esl")}}
      \cup {C("pkey"), C("der_to_pem"), C("read_certder"), C("make_esl"),
            [C("make_esl") EXCEPT !.guid = FALSE], [C("pem_make") EXCEPT !.src = Here("pvt.pem")],
            C("get_pubkey"), [C("get_pubkey") EXCEPT !.key = Here("pem")],
            [C("get_pubkey") EXCEPT !.key = None]}
      \cup {[FromPem("keypair_make") EXCEPT !.rtype = t] : t \in {"asn1", "raw", "path", "other"}}
      \cup {[C("keypair_make") EXCEPT !.src = None, !.rtype = "path", !.out = o] :
              o \in {None, NoDirectory}}
=============================================================================
