------------------------------ MODULE PageWalk ------------------------------
(***************************************************************************)
(* The pages the bridge reckons with, and the bytes they are made of: the  *)
(* walk of NdefWalk over real images, whole, mixed and cut short, against  *)
(* Decode of TagPages.                                                     *)
(***************************************************************************)
EXTENDS NdefRoundTrip, TagPages

CONSTANTS
  TagSize,          \* pages of a tag
  OtherBytes        \* the bytes of other content

ASSUME ImageAssumption ==
  /\ PageSize = NDEF_PAGE_SIZE
  /\ Urls \subseteq Seq(Byte) /\ \A url \in Urls : UrlSize[url] = ImageSize(url)
ASSUME TextAssumption == {0, 1} \subseteq Control /\ TLV_TERMINATOR \notin Control
ASSUME TagSizeAssumption ==
  /\ TagSize \in Nat /\ TagSize >= 2
  /\ PageSize * TagSize + Base * Base < Word
  /\ \A code \in 0..(PrefixCount - 1) : PrefixLength[code] + PageSize * TagSize < Word

\* A first page of other content: nothing; a block that takes it up and is no
\* message; an empty message and a terminator, as the factory leaves them; or a
\* message of this size whose first record has a type of one letter, as a text's
\* (test_lib.c:223-231).
Begins(bytes, messageSize) ==
  \/ messageSize = 0 /\ \A j \in 1..PageSize : bytes[j] = TLV_NULL
  \/ messageSize = 0 /\ bytes[1] \notin {TLV_NULL, TLV_NDEF} /\ bytes[2] >= PageSize - 2
  \/ /\ messageSize = 0
     /\ bytes[1] = TLV_NDEF /\ bytes[2] = 0 /\ bytes[2] < LongLength
     /\ bytes[3] = TLV_TERMINATOR
  \/ /\ messageSize >= 8
     /\ bytes[1] = TLV_NDEF /\ bytes[2] = messageSize - 3 /\ bytes[2] < LongLength
     /\ bytes[3] = RecordHeader /\ bytes[4] = 1

\* That letter is not a URI's, and no byte behind the first page can be taken for
\* the length of another type of one letter.
ASSUME OtherAssumption ==
  \A kind \in Others :
    /\ OtherBytes[kind] \in [1..(PageSize * TagSize) -> Byte]
    /\ Begins(OtherBytes[kind], OtherSize[kind])
    /\ OtherBytes[kind][6] # TypeUri
    /\ \A j \in (PageSize + 1)..(PageSize * TagSize) : OtherBytes[kind][j] # 1
    /\ OtherText[kind] = {j \in 1..(PageSize * TagSize) : OtherBytes[kind][j] \notin Control}

VARIABLES
  pages,        \* the pages of the tag
  count         \* how many of them were read

pageVars == <<pages, count>>

Images == [url \in Urls |-> Image(url)]

\* The page a byte is on.
Place(j) == (j + PageSize - 1) \div PageSize

ByteOf(m, j) ==
  LET page == m[Place(j)] IN IF page \in Urls THEN Images[page][j] ELSE OtherBytes[page][j]

\* At each place a page of an image that reaches it, or of other content.
Rows ==
  {m \in [1..TagSize -> Urls \cup Others] :
     \A place \in 1..TagSize : m[place] \in Others \/ place <= UrlPages[m[place]]}

\* The prefix of the second page, and what stands behind it.
Text(m) ==
  UriPrefixes[Abbreviate(m[2])] \o [k \in 1..(UrlSize[m[2]] - 8) |-> ByteOf(m, 7 + k)]

\* That is what the pages of a text spell.
ASSUME TextIsSpelt ==
  \A m \in Rows :
    m[2] \in Urls /\ (\A i \in TextPlaces(m[2]) : i <= TagSize) =>
      Spelt([i \in TextPlaces(m[2]) |-> m[i]]) = Text(m)

PageInit ==
  /\ pages \in Rows /\ count \in 0..TagSize
  /\ data = [j \in 1..(PageSize * count) |-> ByteOf(pages, j)]
  /\ pc = "tlv" /\ tlv = 0
  /\ start = 0 /\ message_size = 0 /\ at = 0
  /\ found = NoUri

PageNext == Next /\ UNCHANGED pageVars

PageSpec == PageInit /\ [][PageNext]_<<vars, pageVars>>
-----------------------------------------------------------------------------
(* Properties.                                                             *)

\* The bytes say what the pages say: the URL that a text spells, be it of one image
\* or of a mixture of several, and nothing where a page is missing or was not read
\* (the calls of ndef_find_uri in antlia_rpc.c, :113, :160 and :202).
BytesSayWhatPagesSay ==
  pages # <<>> /\ pc = "done" =>
    LET text == Expansion(found.payload, found.length)
    IN  Decode(pages, count) =
          IF found = NoUri THEN NoUrl ELSE IF text \in Urls THEN text ELSE Garbled
=============================================================================
