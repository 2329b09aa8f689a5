----------------------------- MODULE NdefEncode -----------------------------
(***************************************************************************)
(* The image ndef_encode.c builds of a URI: a URI record in an NDEF block, *)
(* a terminator, and zeros to the end of a page.  A URI is a sequence of   *)
(* bytes, with none for NULL and for "".                                   *)
(***************************************************************************)
EXTENDS Naturals, Sequences, SequencesExt

CONSTANTS
  TLV_NDEF, TLV_TERMINATOR,
  RecordHeader, TypeUri,      \* NDEF_RECORD_HEADER, NDEF_TYPE_URI
  ShortRecordMax,             \* NDEF_SHORT_RECORD_MAX
  LongLength,                 \* the TLV length that marks the long form
  PageSize,                   \* NDEF_PAGE_SIZE
  Control,                    \* bytes that are not text
  PrefixCount, UriPrefixes       \* URI_PREFIXES, by their codes

\* Mutant: the last match is taken.
AbbreviateLast(uri) ==
  LET best[code \in 0..(PrefixCount - 1)] ==
        IF code # 0 /\ ~IsPrefix(UriPrefixes[code], uri) THEN best[code - 1] ELSE code
  IN  best[PrefixCount - 1]

\* abbreviate_prefix: the loop over the table from its second entry, and the best
\* code when it has looked at each.
Abbreviate(uri) ==
  LET best[code \in 0..(PrefixCount - 1)] ==
        IF \/ code = 0
           \/ /\ Len(UriPrefixes[code]) > Len(UriPrefixes[best[code - 1]])
              /\ IsPrefix(UriPrefixes[code], uri)
        THEN code
        ELSE best[code - 1]
  IN  best[PrefixCount - 1]

PayloadLength(uri) == 1 + (Len(uri) - Len(UriPrefixes[Abbreviate(uri)]))
RecordLength(uri)  == 4 + PayloadLength(uri)

IsPrintable(uri) == \A i \in DOMAIN uri : uri[i] \notin Control

\* The image without its padding; 0 if it cannot be built.
ImageSize(uri) ==
  IF \/ uri = <<>>
     \/ ~IsPrintable(uri)
     \/ PayloadLength(uri) > ShortRecordMax
     \/ RecordLength(uri) >= LongLength
  THEN 0
  ELSE 2 + RecordLength(uri) + 1

Padding(body) == (PageSize - (body % PageSize)) % PageSize

\* Mutant: the message is taken to be its payload.
ImageOfPayloadLength(uri) ==
  LET code == Abbreviate(uri)
  IN  <<TLV_NDEF, PayloadLength(uri), RecordHeader, 1, PayloadLength(uri),
        TypeUri, code>>
      \o SubSeq(uri, Len(UriPrefixes[code]) + 1, Len(uri))
      \o <<TLV_TERMINATOR>>
      \o [i \in 1..Padding(ImageSize(uri)) |-> 0]

\* ndef_build_uri_image, for a URI that has an image.
Image(uri) ==
  LET code == Abbreviate(uri)
  IN  <<TLV_NDEF, RecordLength(uri), RecordHeader, 1, PayloadLength(uri),
        TypeUri, code>>
      \o SubSeq(uri, Len(UriPrefixes[code]) + 1, Len(uri))
      \o <<TLV_TERMINATOR>>
      \o [i \in 1..Padding(ImageSize(uri)) |-> 0]

\* Mutant: the padding is not counted.
PageCountOfBody(uri) == ImageSize(uri) \div PageSize

\* ndef_uri_page_count: the pages a writer must put down.
PageCount(uri) == (ImageSize(uri) + Padding(ImageSize(uri))) \div PageSize
=============================================================================
