------------------------------ MODULE PeImage ------------------------------
(***************************************************************************)
(* pe_layout and authenticode_sha256 of WUEFI_crypto_sbsign.py.  An image  *)
(* is its length with the header fields the code reads; what SHA-256 is    *)
(* given is the sequence of ranges <<from, to>> of the file, to excluded.  *)
(***************************************************************************)
EXTENDS Outcomes, Integers, Sequences, SequencesExt

Span(from, to) == <<from, to>>

\* pe_layout: offsets and ranges, None, or the exception of a read behind the end
\* (NumberOfRvaAndSizes is read before the size of the header is known to hold it).
PeLayout(im) ==
    LET opt == im.peoff + 24
        dirs == opt + (IF im.magic = "PE32" THEN 96 ELSE 112)
        table == opt + im.opt_size
    IN  IF \/ im.len < 64 \/ ~im.mz
           \/ opt > im.len \/ ~im.pe
           \/ table > im.len \/ im.opt_size < 68
           \/ im.magic \notin {"PE32", "PE32+"} THEN None
        ELSE IF dirs > im.len THEN Raises
        ELSE IF \/ im.num_dirs < 5 \/ dirs + 40 > table
                \/ im.cert_off # 0 \/ im.cert_size # 0
                \/ im.size_of_headers > im.len
                \/ table + 40 * Len(im.sections) > im.len
                \/ \E k \in DOMAIN im.sections :
                     im.sections[k].ptr + im.sections[k].size > im.len THEN None
        ELSE [checksum |-> opt + 64, security |-> dirs + 32,
              headers |-> im.size_of_headers, sections |-> im.sections]

\* authenticode_sha256: what is hashed, or None.
HeaderSpans(checksum, security, headers) ==
    <<Span(0, checksum), Span(checksum + 4, security), Span(security + 8, headers)>>
SectionSpans(sections) ==
    [k \in DOMAIN sections |-> Span(sections[k].ptr, sections[k].ptr + sections[k].size)]
AsListed(sections) == sections
\* list.sort is stable: an item goes behind the last one that is not greater.
Inserted(s, sorted) ==
    InsertAt(sorted, Max({0} \cup {k \in DOMAIN sorted : sorted[k].ptr <= s.ptr}) + 1, s)
InFileOrder(sections) ==
    LET sorted[k \in 0..Len(sections)] ==
          IF k = 0 THEN <<>> ELSE Inserted(sections[k], sorted[k - 1])
    IN  sorted[Len(sections)]
SizeOf(sections) ==
    LET sum[k \in 0..Len(sections)] == IF k = 0 THEN 0 ELSE sum[k - 1] + sections[k].size
    IN  sum[Len(sections)]
BehindTheLast(im, layout) ==
    LET end == Max({layout.headers} \cup {s.ptr + s.size : s \in ToSet(layout.sections)})
    IN  IF end < im.len THEN <<Span(end, im.len)>> ELSE <<>>
TrailingSpan(im, layout) ==
    LET hashed == layout.headers + SizeOf(layout.sections)
    IN  IF hashed < im.len THEN <<Span(hashed, im.len)>> ELSE <<>>
Authenticode(im) ==
    LET layout == PeLayout(im)
    IN  IF layout.checksum + 4 > layout.headers \/ layout.security + 8 > layout.headers THEN None
        ELSE HeaderSpans(layout.checksum, layout.security, layout.headers)
               \o SectionSpans(InFileOrder(layout.sections))
               \o TrailingSpan(im, layout)
-----------------------------------------------------------------------------
\* A sequence without the elements that are gone: sections that hold anything, and
\* ranges that do.
Without(s, gone) ==
    LET kept[k \in 0..Len(s)] ==
          IF k = 0 THEN <<>>
          ELSE IF s[k] \in gone THEN kept[k - 1] ELSE Append(kept[k - 1], s[k])
    IN  kept[Len(s)]
Filled(sections) == Without(sections, {s \in ToSet(sections) : s.size = 0})
NonEmpty(spans) == Without(spans, {r \in ToSet(spans) : r[1] >= r[2]})

\* The firmware's side, modelled from what the code says of it: "Omit CheckSum and
\* the security-directory entry, hash headers, then sections in file-offset order,
\* followed by any trailing bytes", here up to the certificate table at the end.
Verified(im, layout) ==
    LET sections == InFileOrder(Filled(im.sections))
        hashed == im.size_of_headers + SizeOf(sections)
    IN  HeaderSpans(layout.checksum, layout.security, im.size_of_headers)
          \o SectionSpans(sections)
          \o IF hashed + im.cert_size < im.len
             THEN <<Span(hashed, im.len - im.cert_size)>> ELSE <<>>
=============================================================================
