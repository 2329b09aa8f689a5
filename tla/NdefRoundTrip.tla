--------------------------- MODULE NdefRoundTrip ---------------------------
(***************************************************************************)
(* The two halves of the codec together: a tag that holds anything, the    *)
(* image of a URI put over its beginning, and the walk over the result.    *)
(***************************************************************************)
EXTENDS NdefWalk, SequencesExt

CONSTANTS
  RecordHeader, ShortRecordMax, PageSize,     \* as in NdefEncode
  UriPrefixes,
  Uris, Before,           \* what is to be written; what the tag held before
  ImageMax                                    \* NDEF_ENCODE_MAX

INSTANCE NdefEncode

\* The two tables are one, it begins with no prefix, and a payload that a short
\* record can carry fits the decoder's buffer with its prefix.
ASSUME TableAssumption ==
  /\ PrefixCount # 0 /\ Len(UriPrefixes[0]) = 0
  /\ \A code \in 0..(PrefixCount - 1) :
       /\ UriPrefixes[code] \in Seq(Byte)
       /\ PrefixLength[code] = Len(UriPrefixes[code])
       /\ PrefixLength[code] + ShortRecordMax <= OutSize
\* The header the encoder writes is one the decoder takes for a URI's.
ASSUME HeaderAssumption ==
  RecordHeader \in (Byte \cap Short \cap WellKnown) \ HasId
ASSUME CodecAssumption ==
  /\ ShortRecordMax \in Nat /\ PageSize \in Nat \ {0} /\ ImageMax \in Nat
  /\ Uris \subseteq Seq(Byte) /\ Before \subseteq Memories

VARIABLES
  uri,        \* the URI that is written
  written     \* size of its image; 0 when it was refused

codecVars == <<uri, written>>

\* The image is built for the pages the tag has, or refused; what follows it on
\* the tag stays.
Build ==
  /\ pc = "build"
  /\ UNCHANGED <<uri, tlv, start, message_size, at, found>>
  /\ IF ImageSize(uri) = 0 \/ Len(Image(uri)) > ImageMax \/ Len(Image(uri)) > size
     THEN pc' = "refused" /\ UNCHANGED <<data, written>>
     ELSE /\ pc' = "tlv"
          /\ written' = Len(Image(uri))
          /\ data' = Image(uri) \o SubSeq(data, written' + 1, size)

CodecInit ==
  /\ data \in Before
  /\ pc = "build" /\ tlv = 0
  /\ start = 0 /\ message_size = 0 /\ at = 0
  /\ found = NoUri
  /\ uri \in Uris /\ written = 0

CodecNext == Build \/ (Next /\ UNCHANGED codecVars)

CodecSpec == CodecInit /\ [][CodecNext]_<<vars, codecVars>>
-----------------------------------------------------------------------------
(* Properties.                                                             *)

\* What expand_uri makes of a payload.
Expansion(payload, length) ==
  UriPrefixes[D(payload)] \o SubSeq(data, payload + 2, payload + length)

\* A tag the encoder wrote is one the decoder reads, whatever was on it before
\* and whatever is left of that behind the image (test_lib.c:277-281).
ReadsBack ==
  pc = "done" /\ written # 0 =>
    found # NoUri /\ Expansion(found.payload, found.length) = uri

\* The page count that decides whether a tag is large enough is that of the
\* image that is then written; the image is whole pages, and less than a page
\* of it follows the terminator (ndef_encode.h:52-64).
PagesAreTheImage ==
  written # 0 =>
    /\ written = PageCount(uri) * PageSize
    /\ written >= ImageSize(uri) /\ written < ImageSize(uri) + PageSize
    /\ data[ImageSize(uri)] = TLV_TERMINATOR

\* No other abbreviation of the URI takes fewer bytes: the longest prefix wins
\* (ndef_encode.c:36-40).
LongestPrefixWins ==
  \A code \in 0..(PrefixCount - 1) :
    IsPrefix(UriPrefixes[code], uri) =>
      Len(UriPrefixes[code]) <= Len(UriPrefixes[Abbreviate(uri)])
=============================================================================
