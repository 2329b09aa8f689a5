--------------------------- MODULE PageWalkProofs ---------------------------
(***************************************************************************)
(* That the pages the bridge reckons with say what the bytes say, for      *)
(* every set of URLs, every size of a tag, and other content of the kinds  *)
(* that OtherAssumption admits.                                            *)
(***************************************************************************)
EXTENDS PageWalk, NdefRoundTripProofs

\* What the pages say.
Said == Decode(pages, count)

\* The memory is that of the pages.
Tag ==
  /\ pages \in Rows /\ count \in 0..TagSize
  /\ data = [j \in 1..(PageSize * count) |-> ByteOf(pages, j)]
-----------------------------------------------------------------------------
(* Pages and their bytes.                                                  *)

\* A byte is on one page.
LEMMA PlaceIs ==
  ASSUME NEW j \in Nat \ {0}
  PROVE  /\ Place(j) \in Nat \ {0}
         /\ 4 * (Place(j) - 1) < j /\ j <= 4 * Place(j)
         /\ \A i \in Nat : 4 * (i - 1) < j /\ j <= 4 * i => Place(j) = i
<1>1. Place(j) = (j + 3) \div 4
  BY ImageAssumption DEF Place, NDEF_PAGE_SIZE
<1>2. QED
  BY <1>1

\* An image that reaches a page holds all of it.
LEMMA ReachedImage ==
  ASSUME NEW u \in Urls, NEW place \in Nat \ {0}, place <= UrlPages[u]
  PROVE  /\ u \in Seq(Byte) /\ ImageSize(u) # 0 /\ UrlSize[u] = ImageSize(u)
         /\ PayloadLength(u) \in Nat \ {0} /\ UrlSize[u] = 7 + PayloadLength(u)
         /\ 4 * place <= UrlSize[u] + 3
         /\ 4 * place <= Len(Image(u))
<1>1. u \in Seq(Byte) /\ UrlSize[u] = ImageSize(u) /\ UrlSize[u] \in Nat
  BY ImageAssumption, SizeAssumption
<1>2. UrlPages[u] = (UrlSize[u] + 3) \div 4
  BY <1>1 DEF UrlPages, PagesFor, NDEF_PAGE_SIZE
<1>3. 4 * place <= UrlSize[u] + 3 /\ UrlSize[u] # 0
  BY <1>1, <1>2
<1>4. PayloadLength(u) \in Nat \ {0} /\ UrlSize[u] = 7 + PayloadLength(u)
  BY <1>1, <1>3, Sizes, CodecAssumption, SMTT(30)
<1>5. 4 * place <= Len(Image(u))
  <2> DEFINE pad == Padding(ImageSize(u))
             pages4 == (UrlSize[u] + pad) \div 4
  <2>1. pad = (4 - (UrlSize[u] % 4)) % 4
    BY <1>1, ImageAssumption DEF Padding, NDEF_PAGE_SIZE
  <2>2. Len(Image(u)) = UrlSize[u] + pad
    BY <1>1, <1>3, ImageBytes
  <2> HIDE DEF pad
  <2>3. pad \in 0..(4 - 1) /\ pages4 * 4 = UrlSize[u] + pad
    <3>1. 4 \in Nat \ {0}
      OBVIOUS
    <3>2. QED
      BY <1>1, <2>1, <3>1, WholePages, Zenon
  <2>4. pages4 \in Nat
    BY <1>1, <2>3
  <2> HIDE DEF pages4
  <2>5. QED
    BY <1>1, <1>3, <2>2, <2>3, <2>4
<1>6. QED
  BY <1>1, <1>3, <1>4, <1>5

\* Behind its first character an image has text, a terminator and zeros.
LEMMA TextOfImage ==
  ASSUME NEW u \in Seq(Byte), ImageSize(u) # 0, NEW j \in 8..Len(Image(u))
  PROVE  /\ j < ImageSize(u) => Image(u)[j] \notin Control
         /\ j = ImageSize(u) => Image(u)[j] = TLV_TERMINATOR
         /\ j > ImageSize(u) => Image(u)[j] = 0
         /\ Image(u)[j] # 1
<1>1. /\ ImageSize(u) = 7 + PayloadLength(u) /\ PayloadLength(u) \in Nat
      /\ Swallowed(u) \in 0..Len(u) /\ Len(u) \in Nat
      /\ PayloadLength(u) = 1 + (Len(u) - Swallowed(u)) /\ IsPrintable(u)
      /\ Padding(ImageSize(u)) \in Nat
  BY Sizes, CodecAssumption
<1>2. /\ Len(Image(u)) = ImageSize(u) + Padding(ImageSize(u))
      /\ \A i \in 1..(PayloadLength(u) - 1) : Image(u)[7 + i] = u[Swallowed(u) + i]
      /\ Image(u)[ImageSize(u)] = TLV_TERMINATOR
      /\ \A i \in (ImageSize(u) + 1)..Len(Image(u)) : Image(u)[i] = 0
  BY ImageBytes
<1>3. ASSUME j < ImageSize(u) PROVE Image(u)[j] \notin Control
  <2>1. j - 7 \in 1..(PayloadLength(u) - 1) /\ 7 + (j - 7) = j
    BY <1>1, <1>2, <1>3
  <2>2. Image(u)[j] = u[Swallowed(u) + (j - 7)]
    BY <1>2, <2>1
  <2>3. Swallowed(u) + (j - 7) \in DOMAIN u
    BY <1>1, <2>1, LenProperties
  <2>4. QED
    BY <1>1, <2>2, <2>3 DEF IsPrintable
<1>4. ASSUME j > ImageSize(u) PROVE Image(u)[j] = 0
  BY <1>1, <1>2, <1>4
<1>5. Image(u)[j] # 1
  <2>1. 1 \in Control /\ TLV_TERMINATOR # 1
    BY TextAssumption
  <2>2. QED
    BY <1>1, <1>2, <1>3, <1>4, <2>1
<1>6. QED
  BY <1>2, <1>3, <1>4, <1>5
-----------------------------------------------------------------------------
(* What the walk reads of a tag.                                           *)

\* A page is of an image that reaches it, or of other content.
LEMMA PageOfRow ==
  ASSUME Tag, NEW i \in 1..TagSize
  PROVE  \/ pages[i] \in Urls /\ pages[i] \notin Others /\ i <= UrlPages[pages[i]]
         \/ pages[i] \in Others /\ pages[i] \notin Urls
BY UrlAssumption DEF Tag, Rows

LEMMA ByteOfTag ==
  ASSUME Tag
  PROVE  /\ size = 4 * count
         /\ \A j \in 1..size :
              /\ Place(j) \in 1..count /\ Place(j) \in 1..TagSize
              /\ pages[Place(j)] \in Others => data[j] = OtherBytes[pages[Place(j)]][j]
              /\ pages[Place(j)] \in Urls => data[j] = Image(pages[Place(j)])[j]
<1>1. /\ pages \in Rows /\ count \in 0..TagSize /\ TagSize \in Nat /\ PageSize = 4
      /\ data = [j \in 1..(4 * count) |-> ByteOf(pages, j)]
  BY TagSizeAssumption, ImageAssumption DEF Tag, NDEF_PAGE_SIZE
<1>2. size = 4 * count
  BY <1>1 DEF size
<1>3. ASSUME NEW j \in 1..size
      PROVE  /\ Place(j) \in 1..count /\ Place(j) \in 1..TagSize
             /\ pages[Place(j)] \in Others => data[j] = OtherBytes[pages[Place(j)]][j]
             /\ pages[Place(j)] \in Urls => data[j] = Image(pages[Place(j)])[j]
  <2>1. Place(j) \in 1..count /\ Place(j) \in 1..TagSize
    <3>1. count \in Nat /\ count <= TagSize /\ j \in Nat \ {0} /\ j <= 4 * count
      BY <1>1, <1>2
    <3>2. Place(j) \in Nat \ {0} /\ 4 * (Place(j) - 1) < j
      BY <3>1, PlaceIs
    <3>3. QED
      BY <1>1, <3>1, <3>2
  <2>2. data[j] = ByteOf(pages, j)
    BY <1>1, <1>2
  <2>3. QED
    BY <2>1, <2>2, PageOfRow DEF ByteOf, Images
<1>4. QED
  BY <1>2, <1>3

\* A byte of an image, where its page stands.
LEMMA ByteOfImage ==
  ASSUME Tag, NEW j \in 1..size, NEW i \in Nat,
         4 * (i - 1) < j, j <= 4 * i, pages[i] \in Urls
  PROVE  /\ i \in 1..count /\ pages[i] \in Urls /\ i <= UrlPages[pages[i]]
         /\ pages[i] \in Seq(Byte) /\ ImageSize(pages[i]) # 0
         /\ UrlSize[pages[i]] = ImageSize(pages[i])
         /\ PayloadLength(pages[i]) \in Nat \ {0}
         /\ UrlSize[pages[i]] = 7 + PayloadLength(pages[i])
         /\ 4 * i <= UrlSize[pages[i]] + 3
         /\ j \in 1..Len(Image(pages[i])) /\ data[j] = Image(pages[i])[j]
<1>1. Place(j) = i /\ i \in Nat \ {0} /\ j \in Nat
  BY PlaceIs, ByteOfTag, SMTT(30) DEF Tag
<1>2. i \in 1..count /\ i \in 1..TagSize /\ data[j] = Image(pages[i])[j]
  BY <1>1, ByteOfTag
<1>3. pages[i] \in Urls /\ i <= UrlPages[pages[i]]
  BY <1>2, PageOfRow
<1>4. /\ pages[i] \in Seq(Byte) /\ ImageSize(pages[i]) # 0
      /\ UrlSize[pages[i]] = ImageSize(pages[i])
      /\ PayloadLength(pages[i]) \in Nat \ {0}
      /\ UrlSize[pages[i]] = 7 + PayloadLength(pages[i])
      /\ 4 * i <= UrlSize[pages[i]] + 3 /\ 4 * i <= Len(Image(pages[i]))
  BY <1>1, <1>3, ReachedImage
<1>5. Len(Image(pages[i])) \in Nat
  BY <1>4, ImageBytes, LenProperties
<1>6. QED
  BY <1>1, <1>2, <1>3, <1>4, <1>5

\* From the eighth byte on none is the length of a URI's type.
LEMMA NoTypeLengthBehind ==
  ASSUME Tag, NEW j \in 8..size
  PROVE  data[j] # 1
<1>1. size = 4 * count /\ count \in 0..TagSize /\ TagSize \in Nat
  BY ByteOfTag, TagSizeAssumption DEF Tag
<1>2. j \in 1..size /\ j \in Nat \ {0} /\ j \in 5..(4 * TagSize)
  BY <1>1
<1>3. CASE pages[Place(j)] \in Others
  <2>1. OtherBytes[pages[Place(j)]][j] # 1
    BY <1>2, <1>3, OtherAssumption, ImageAssumption DEF NDEF_PAGE_SIZE
  <2>2. QED
    BY <1>2, <1>3, <2>1, ByteOfTag
<1>4. CASE pages[Place(j)] \in Urls
  <2> DEFINE u == pages[Place(j)]
  <2>1. Place(j) \in Nat /\ 4 * (Place(j) - 1) < j /\ j <= 4 * Place(j)
    BY <1>2, PlaceIs
  <2>2. /\ u \in Seq(Byte) /\ ImageSize(u) # 0
        /\ j \in 1..Len(Image(u)) /\ data[j] = Image(u)[j]
    BY <1>2, <1>4, <2>1, ByteOfImage
  <2>3. Len(Image(u)) \in Nat
    BY <2>2, ImageBytes, LenProperties
  <2> HIDE DEF u
  <2>4. j \in 8..Len(Image(u))
    BY <2>2, <2>3
  <2>5. QED
    BY <2>2, <2>4, TextOfImage
<1>5. QED
  BY <1>2, <1>3, <1>4, ByteOfTag, PageOfRow

\* Bytes of other content are as they were found.
LEMMA ByteOfOther ==
  ASSUME Tag, NEW j \in 1..size, NEW i \in Nat,
         4 * (i - 1) < j, j <= 4 * i, pages[i] \in Others
  PROVE  data[j] = OtherBytes[pages[i]][j] /\ j \in 1..(4 * TagSize)
<1>1. /\ size = 4 * count /\ count \in 0..TagSize /\ TagSize \in Nat
      /\ j \in Nat \ {0}
  BY ByteOfTag, TagSizeAssumption DEF Tag
<1>2. Place(j) = i
  BY <1>1, PlaceIs
<1>3. QED
  BY <1>1, <1>2, ByteOfTag

\* A first page of no message, or of a message of a record at least.
LEMMA FirstSize ==
  ASSUME Tag
  PROVE  /\ Size(pages[1]) \in Nat
         /\ Size(pages[1]) = 0 \/ Size(pages[1]) >= 8
         /\ Size(pages[1]) = 0 => pages[1] \in Others
<1>1. 1 \in 1..TagSize /\ 1 \in Nat \ {0}
  BY TagSizeAssumption
<1>2. CASE pages[1] \in Urls
  BY <1>1, <1>2, PageOfRow, ReachedImage DEF Size
<1>3. CASE pages[1] \in Others /\ pages[1] \notin Urls
  BY <1>3, SizeAssumption DEF Size
<1>4. QED
  BY <1>1, <1>2, <1>3, PageOfRow

\* The first page of a message says how long it is.
LEMMA FirstPageOfImage ==
  ASSUME Tag, count >= 1, pages[1] \in Urls
  PROVE  /\ D(0) = TLV_NDEF /\ D(1) = UrlSize[pages[1]] - 3
         /\ D(2) = RecordHeader /\ D(3) = 1
         /\ D(1) < LongLength
<1> DEFINE a == pages[1]
<1>1. size = 4 * count /\ count \in Nat
  BY ByteOfTag, TagSizeAssumption DEF Tag
<1>2. \A j \in 1..4 : j \in 1..size /\ 4 * (1 - 1) < j /\ j <= 4 * 1
  BY <1>1
<1>3. ASSUME NEW j \in 1..4
      PROVE  /\ a \in Seq(Byte) /\ ImageSize(a) # 0 /\ UrlSize[a] = ImageSize(a)
             /\ PayloadLength(a) \in Nat \ {0}
             /\ UrlSize[a] = 7 + PayloadLength(a)
             /\ data[j] = Image(a)[j]
  BY <1>2, ByteOfImage
<1> HIDE DEF a
<1>4. /\ a \in Seq(Byte) /\ ImageSize(a) # 0 /\ UrlSize[a] = ImageSize(a)
      /\ PayloadLength(a) \in Nat \ {0} /\ UrlSize[a] = 7 + PayloadLength(a)
      /\ data[1] = Image(a)[1] /\ data[2] = Image(a)[2]
      /\ data[3] = Image(a)[3] /\ data[4] = Image(a)[4]
  BY <1>3
<1>5. /\ Image(a)[1] = TLV_NDEF /\ Image(a)[2] = RecordLength(a)
      /\ Image(a)[3] = RecordHeader /\ Image(a)[4] = 1
  BY <1>4, ImageBytes
<1>6. RecordLength(a) = 4 + PayloadLength(a) /\ RecordLength(a) < LongLength
  BY <1>4, Sizes
<1>7. QED
  BY <1>4, <1>5, <1>6, ByteAssumption DEF D, a, Byte

\* So does that of another message.
LEMMA FirstPage ==
  ASSUME Tag, count >= 1, Size(pages[1]) # 0
  PROVE  /\ D(0) = TLV_NDEF /\ D(1) = Size(pages[1]) - 3
         /\ D(2) = RecordHeader /\ D(3) = 1
         /\ D(1) < LongLength /\ LongLength \in Nat
<1>1. size = 4 * count /\ count \in Nat /\ PageSize = 4 /\ 1 \in 1..TagSize
  BY ByteOfTag, TagSizeAssumption, ImageAssumption DEF Tag, NDEF_PAGE_SIZE
<1>2. LongLength \in Nat
  BY ByteAssumption DEF Byte
<1>3. CASE pages[1] \in Urls
  BY <1>2, <1>3, FirstPageOfImage DEF Size
<1>4. CASE pages[1] \in Others /\ pages[1] \notin Urls
  <2>1. \A j \in 1..4 : data[j] = OtherBytes[pages[1]][j]
    <3> TAKE j \in 1..4
    <3>1. j \in 1..size /\ 4 * (1 - 1) < j /\ j <= 4 * 1
      BY <1>1
    <3>2. QED
      BY <1>4, <3>1, ByteOfOther
  <2>2. OtherSize[pages[1]] # 0 /\ Begins(OtherBytes[pages[1]], OtherSize[pages[1]])
    BY <1>4, OtherAssumption DEF Size
  <2>3. /\ OtherBytes[pages[1]][1] = TLV_NDEF
        /\ OtherBytes[pages[1]][2] = OtherSize[pages[1]] - 3
        /\ OtherBytes[pages[1]][2] < LongLength
        /\ OtherBytes[pages[1]][3] = RecordHeader /\ OtherBytes[pages[1]][4] = 1
    BY <2>2 DEF Begins
  <2>4. QED
    BY <1>2, <1>4, <2>1, <2>3 DEF D, Size
<1>5. QED
  BY <1>1, <1>3, <1>4, PageOfRow

\* The second says how long the payload is, its type and its prefix.
LEMMA SecondPageOfImage ==
  ASSUME Tag, count >= 2, pages[2] \in Urls
  PROVE  /\ D(4) = UrlSize[pages[2]] - 7 /\ D(5) = TypeUri
         /\ D(6) = Abbreviate(pages[2])
         /\ pages[2] \in Urls
         /\ pages[2] \in Seq(Byte) /\ ImageSize(pages[2]) # 0
         /\ UrlSize[pages[2]] = ImageSize(pages[2])
         /\ UrlSize[pages[2]] = 7 + PayloadLength(pages[2])
         /\ PayloadLength(pages[2]) \in Nat \ {0}
<1> DEFINE b == pages[2]
<1>1. size = 4 * count /\ count \in Nat
  BY ByteOfTag, TagSizeAssumption DEF Tag
<1>2. \A j \in 5..8 : j \in 1..size /\ 4 * (2 - 1) < j /\ j <= 4 * 2
  BY <1>1
<1>3. ASSUME NEW j \in 5..8
      PROVE  /\ b \in Urls /\ b \in Seq(Byte) /\ ImageSize(b) # 0
             /\ UrlSize[b] = ImageSize(b)
             /\ PayloadLength(b) \in Nat \ {0}
             /\ UrlSize[b] = 7 + PayloadLength(b)
             /\ data[j] = Image(b)[j]
  BY <1>2, ByteOfImage
<1> HIDE DEF b
<1>4. /\ b \in Urls /\ b \in Seq(Byte) /\ ImageSize(b) # 0 /\ UrlSize[b] = ImageSize(b)
      /\ PayloadLength(b) \in Nat \ {0} /\ UrlSize[b] = 7 + PayloadLength(b)
      /\ data[5] = Image(b)[5] /\ data[6] = Image(b)[6] /\ data[7] = Image(b)[7]
  BY <1>3
<1>5. /\ Image(b)[5] = PayloadLength(b) /\ Image(b)[6] = TypeUri
      /\ Image(b)[7] = Abbreviate(b)
  BY <1>4, ImageBytes
<1>6. QED
  BY <1>4, <1>5 DEF D, b

\* A second page of no URL makes no record a URI's.
LEMMA SecondPageOfNone ==
  ASSUME Tag, count >= 2, pages[2] \in Others
  PROVE  D(5) # TypeUri /\ \A j \in 5..size : data[j] # 1
<1>1. size = 4 * count /\ count \in Nat /\ PageSize = 4
  BY ByteOfTag, TagSizeAssumption, ImageAssumption DEF Tag, NDEF_PAGE_SIZE
<1>2. D(5) # TypeUri
  <2>1. 6 \in 1..size /\ 4 * (2 - 1) < 6 /\ 6 <= 4 * 2
    BY <1>1
  <2>2. data[6] = OtherBytes[pages[2]][6]
    BY <2>1, ByteOfOther
  <2>3. QED
    BY <2>2, OtherAssumption DEF D
<1>3. ASSUME NEW j \in 5..size PROVE data[j] # 1
  <2>1. CASE j \in 8..size
    BY <2>1, NoTypeLengthBehind
  <2>2. CASE j \notin 8..size
    <3>1. j \in 1..size /\ 4 * (2 - 1) < j /\ j <= 4 * 2
      BY <1>1, <2>2
    <3>2. data[j] = OtherBytes[pages[2]][j] /\ j \in 5..(4 * TagSize)
      BY <3>1, ByteOfOther, TagSizeAssumption
    <3>3. QED
      BY <1>1, <3>2, OtherAssumption
  <2>3. QED
    BY <2>1, <2>2
<1>4. QED
  BY <1>2, <1>3

\* A first page of no message is nothing, a block that takes it up, or an empty
\* message and a terminator.
LEMMA FirstPageOfNone ==
  ASSUME Tag, count >= 1, Size(pages[1]) = 0
  PROVE  \/ \A j \in 1..4 : data[j] = TLV_NULL
         \/ D(0) \notin {TLV_NULL, TLV_NDEF} /\ D(1) \in Nat /\ D(1) >= 2
         \/ D(0) = TLV_NDEF /\ D(1) = 0 /\ LongLength # 0 /\ D(2) = TLV_TERMINATOR
<1> DEFINE bytes == OtherBytes[pages[1]]
<1>1. /\ size = 4 * count /\ count \in 0..TagSize /\ TagSize \in Nat /\ PageSize = 4
      /\ pages[1] \in Others /\ pages[1] \notin Urls
  BY ByteOfTag, TagSizeAssumption, ImageAssumption, FirstSize, UrlAssumption
     DEF Tag, NDEF_PAGE_SIZE
<1>2. \A j \in 1..4 : data[j] = bytes[j] /\ j \in 1..(4 * TagSize)
  <2> TAKE j \in 1..4
  <2>1. j \in 1..size /\ 4 * (1 - 1) < j /\ j <= 4 * 1
    BY <1>1
  <2>2. QED
    BY <1>1, <2>1, ByteOfOther
<1>3. bytes \in [1..(4 * TagSize) -> Byte] /\ Begins(bytes, 0)
  BY <1>1, OtherAssumption DEF Size
<1> HIDE DEF bytes
<1>4. \/ \A j \in 1..4 : bytes[j] = TLV_NULL
      \/ bytes[1] \notin {TLV_NULL, TLV_NDEF} /\ bytes[2] >= 2
      \/ /\ bytes[1] = TLV_NDEF /\ bytes[2] = 0 /\ bytes[2] < LongLength
         /\ bytes[3] = TLV_TERMINATOR
  BY <1>1, <1>3 DEF Begins
<1>5. bytes[2] \in Nat /\ LongLength \in Nat
  BY <1>2, <1>3, ByteAssumption DEF Byte
<1>6. QED
  BY <1>2, <1>4, <1>5 DEF D
-----------------------------------------------------------------------------
(* What the pages say of the text.                                         *)

\* The text breaks off.
Broken(m) == \E i \in TextPlaces(m[2]) : Breaks(i, m[i], UrlSize[m[2]])

\* A message of the first page's length that holds a record of the second's.
LEMMA NothingSaid ==
  ASSUME Tag
  PROVE  /\ Size(pages[1]) = 0 \/ pages[2] \in Others => Said = NoUrl
         /\ pages[2] \in Urls =>
              (Said = NoUrl <=> \/ Size(pages[1]) - 1 > 4 * count
                                \/ UrlSize[pages[2]] > Size(pages[1])
                                \/ Broken(pages))
         /\ pages[2] \in Urls \/ pages[2] \in Others
<1>1. 2 \in 1..TagSize /\ 2 \in Nat \ {0}
  BY TagSizeAssumption
<1>2. pages[2] \in Urls \/ pages[2] \in Others
  BY <1>1, PageOfRow
<1>3. pages[2] \in Others => Said = NoUrl
  BY DEF Said, Decode
<1>4. pages[2] \in Urls =>
        (Said = NoUrl <=> \/ Size(pages[1]) - 1 > 4 * count
                          \/ UrlSize[pages[2]] > Size(pages[1])
                          \/ Broken(pages))
  BY UrlAssumption DEF Said, Decode, Broken, NDEF_PAGE_SIZE
<1>5. Size(pages[1]) = 0 /\ pages[2] \in Urls => UrlSize[pages[2]] > Size(pages[1])
  BY <1>1, PageOfRow, ReachedImage
<1>6. QED
  BY <1>2, <1>3, <1>4, <1>5

\* The pages of the text are those up to its last byte.
LEMMA PagesOfText ==
  ASSUME NEW s \in Nat, s >= 8, NEW i \in Nat
  PROVE  i \in 2..PagesFor(s - 1) <=> i >= 2 /\ 4 * i <= s + 2
<1>1. PagesFor(s - 1) = (s + 2) \div 4
  BY DEF PagesFor, NDEF_PAGE_SIZE
<1>2. QED
  BY <1>1

\* The text of a record that lies in what was read breaks off where its bytes do.
LEMMA TextIsRead ==
  ASSUME Tag, count >= 2, pages[2] \in Urls, UrlSize[pages[2]] - 1 <= size
  PROVE  Broken(pages) <=> \E k \in 1..(UrlSize[pages[2]] - 8) : data[7 + k] \in Control
<1> DEFINE s == UrlSize[pages[2]]
<1>1. s \in Nat /\ s >= 8
  BY SecondPageOfImage
<1>2. size = 4 * count /\ count \in 0..TagSize /\ TagSize \in Nat /\ PageSize = 4
  BY ByteOfTag, TagSizeAssumption, ImageAssumption DEF Tag, NDEF_PAGE_SIZE
<1>3. s - 1 <= size
  OBVIOUS
<1> HIDE DEF s
\* Each byte of the text is on one of its pages, and text where the page says so.
<1>4. ASSUME NEW i \in Nat, i >= 2, 4 * i <= s + 2,
             NEW j \in 1..size, j >= 8, 4 * (i - 1) < j, j <= 4 * i
      PROVE  data[j] \in Control <=> j \notin TextOf(pages[i])
  <2>1. CASE pages[i] \in Urls
    <3> DEFINE c == pages[i]
    <3>1. /\ c \in Urls /\ c \in Seq(Byte) /\ ImageSize(c) # 0
          /\ UrlSize[c] = ImageSize(c)
          /\ PayloadLength(c) \in Nat \ {0} /\ UrlSize[c] = 7 + PayloadLength(c)
          /\ j \in 1..Len(Image(c)) /\ data[j] = Image(c)[j]
      BY <1>4, <2>1, ByteOfImage
    <3>2. TextOf(c) = 1..UrlSize[c]
      BY <3>1 DEF TextOf
    <3> HIDE DEF c
    <3>3. Len(Image(c)) \in Nat
      BY <3>1, ImageBytes, LenProperties
    <3>4. j \in 8..Len(Image(c))
      BY <1>4, <3>1, <3>3
    <3>5. j > UrlSize[c] <=> data[j] \in Control
      <4>1. /\ j < ImageSize(c) => Image(c)[j] \notin Control
            /\ j = ImageSize(c) => Image(c)[j] = TLV_TERMINATOR
            /\ j > ImageSize(c) => Image(c)[j] = 0
        BY <3>1, <3>4, TextOfImage
      <4>2. ImageSize(c) \in Nat /\ j \in Nat
        BY <3>1
      <4>3. QED
        BY <3>1, <4>1, <4>2, TextAssumption
    <3>6. QED
      BY <1>4, <3>1, <3>2, <3>5 DEF c
  <2>2. CASE pages[i] \in Others /\ pages[i] \notin Urls
    <3>1. data[j] = OtherBytes[pages[i]][j] /\ j \in 1..(4 * TagSize)
      BY <1>4, <2>2, ByteOfOther
    <3>2. OtherText[pages[i]] = {n \in 1..(4 * TagSize) : OtherBytes[pages[i]][n] \notin Control}
      BY <1>2, <2>2, OtherAssumption
    <3>3. QED
      BY <2>2, <3>1, <3>2 DEF TextOf
  <2>3. i \in 1..TagSize
    BY <1>2, <1>4
  <2>4. QED
    BY <2>1, <2>2, <2>3, PageOfRow
<1>5. ASSUME NEW i \in 2..PagesFor(s - 1), Breaks(i, pages[i], s)
      PROVE  \E k \in 1..(s - 8) : data[7 + k] \in Control
  <2>1. i \in Nat /\ i >= 2 /\ 4 * i <= s + 2
    <3>1. i \in Nat
      BY <1>1 DEF PagesFor, NDEF_PAGE_SIZE
    <3>2. QED
      BY <1>1, <3>1, PagesOfText
  <2>2. PICK j \in (4 * (i - 1) + 1)..(4 * i) : j < s /\ j \notin TextOf(pages[i])
    BY <1>5 DEF Breaks, NDEF_PAGE_SIZE
  <2>3. j \in Nat /\ 4 * (i - 1) < j /\ j <= 4 * i
    BY <2>1, <2>2
  <2>4. j \in 1..size /\ j >= 8
    <3>1. j >= 8
      <4>1. CASE i = 2
        <5>1. TextOf(pages[i]) = 1..s
          BY <4>1 DEF TextOf, s
        <5>2. QED
          BY <1>1, <2>2, <2>3, <4>1, <5>1
      <4>2. CASE i # 2
        BY <2>1, <2>3, <4>2
      <4>3. QED
        BY <4>1, <4>2
    <3>2. QED
      BY <1>1, <1>2, <1>3, <2>2, <2>3, <3>1
  <2>5. data[j] \in Control
    BY <1>4, <2>1, <2>2, <2>3, <2>4
  <2>6. j - 7 \in 1..(s - 8) /\ 7 + (j - 7) = j
    BY <1>1, <2>2, <2>3, <2>4
  <2>7. QED
    BY <2>5, <2>6
<1>6. ASSUME NEW k \in 1..(s - 8), data[7 + k] \in Control
      PROVE  \E i \in 2..PagesFor(s - 1) : Breaks(i, pages[i], s)
  <2> DEFINE j == 7 + k
             i == Place(j)
  <2>1. j \in 8..(s - 1) /\ j \in 1..size /\ j \in Nat \ {0}
    BY <1>1, <1>2, <1>3
  <2>2. data[j] \in Control
    BY <1>6
  <2> HIDE DEF j
  <2>3. i \in Nat \ {0} /\ 4 * (i - 1) < j /\ j <= 4 * i
    BY <2>1, PlaceIs
  <2> HIDE DEF i
  <2>4. i >= 2 /\ 4 * i <= s + 2
    BY <1>1, <2>1, <2>3
  <2>5. i \in 2..PagesFor(s - 1)
    BY <1>1, <2>3, <2>4, PagesOfText
  <2>6. j \notin TextOf(pages[i])
    BY <1>4, <2>1, <2>2, <2>3, <2>4
  <2>7. j \in (4 * (i - 1) + 1)..(4 * i) /\ j < s
    BY <1>1, <2>1, <2>3
  <2>8. QED
    BY <2>5, <2>6, <2>7 DEF Breaks, NDEF_PAGE_SIZE
<1>7. Broken(pages) <=> \E i \in 2..PagesFor(s - 1) : Breaks(i, pages[i], s)
  BY DEF Broken, TextPlaces, s
<1>8. (\E i \in 2..PagesFor(s - 1) : Breaks(i, pages[i], s))
        <=> \E k \in 1..(s - 8) : data[7 + k] \in Control
  BY <1>5, <1>6
<1>9. QED
  BY <1>7, <1>8 DEF s
-----------------------------------------------------------------------------
(* The walk.  What it can find is in a message that begins with the first  *)
(* page; behind that page, or behind that message, it finds nothing, and   *)
(* it comes there only where the pages say nothing.                        *)

\* In a first page of nothing.
InNothing ==
  /\ Size(pages[1]) = 0
  /\ tlv \in 1..3 /\ \A j \in 1..4 : data[j] = TLV_NULL

\* At the terminator behind an empty message.
BehindEmpty == tlv = 2 /\ D(2) = TLV_TERMINATOR /\ Size(pages[1]) = 0

\* Behind all that could have been found.
Behind == tlv >= 4 /\ Said = NoUrl

\* In a message in which nothing is found.
LateMessage == start >= 6 /\ Said = NoUrl

\* In an empty message.
EmptyMessage ==
  /\ start = 2 /\ message_size = 0 /\ at = 0
  /\ D(2) = TLV_TERMINATOR /\ Size(pages[1]) = 0

\* In the message that the first page begins; past its first record only where
\* that was not a URI's.
FirstMessage ==
  /\ Size(pages[1]) # 0
  /\ start = 2 /\ message_size = Size(pages[1]) - 3
  /\ at = 0 \/ pages[2] \in Others

\* The record of the second page.
SecondRecord == [payload |-> 6, length |-> UrlSize[pages[2]] - 7]

PageInv ==
  /\ Tag
  /\ tlv \in Nat /\ start \in Nat /\ message_size \in Nat /\ at \in Nat
  /\ pc \in {"tlv", "record", "done"}
  /\ pc = "tlv" => found = NoUri /\ (tlv = 0 \/ InNothing \/ BehindEmpty \/ Behind)
  /\ pc = "record" =>
       /\ found = NoUri /\ start + message_size <= size
       /\ LateMessage \/ EmptyMessage \/ FirstMessage
  /\ pc = "done" => found = IF Said = NoUrl THEN NoUri ELSE SecondRecord

LEMMA PageInitInv == PageInit => PageInv
<1> SUFFICES ASSUME PageInit PROVE PageInv
  OBVIOUS
<1>1. Tag
  BY DEF PageInit, Tag, Tag
<1>2. QED
  BY <1>1 DEF PageInit, PageInv

\* A step of the walk leaves the tag and what it says.
LEMMA TagStays ==
  ASSUME Tag, data' = data, UNCHANGED pageVars
  PROVE  /\ Tag' /\ Said' = Said /\ size' = size
         /\ pages' = pages /\ count' = count /\ SecondRecord' = SecondRecord
BY DEF Tag, Said, size, pageVars, SecondRecord

LEMMA BytesAreNumbers ==
  ASSUME Tag, NEW j \in 1..size
  PROVE  data[j] \in Nat
<1>1. size = 4 * count /\ count \in 0..TagSize /\ TagSize \in Nat /\ PageSize = 4
  BY ByteOfTag, TagSizeAssumption, ImageAssumption DEF Tag, NDEF_PAGE_SIZE
<1>2. j \in Nat \ {0} /\ j \in 1..(4 * TagSize)
  BY <1>1
<1>3. Place(j) \in Nat /\ 4 * (Place(j) - 1) < j /\ j <= 4 * Place(j)
  BY <1>2, PlaceIs
<1>4. CASE pages[Place(j)] \in Others
  <2>1. data[j] = OtherBytes[pages[Place(j)]][j] /\ OtherBytes[pages[Place(j)]][j] \in Byte
    BY <1>1, <1>2, <1>3, <1>4, ByteOfOther, OtherAssumption
  <2>2. QED
    BY <2>1, ByteAssumption DEF Byte
<1>5. CASE pages[Place(j)] \in Urls
  <2> DEFINE u == pages[Place(j)]
  <2>1. /\ u \in Seq(Byte) /\ ImageSize(u) # 0
        /\ j \in 1..Len(Image(u)) /\ data[j] = Image(u)[j]
    BY <1>3, <1>5, ByteOfImage
  <2> HIDE DEF u
  <2>2. Image(u) \in Seq(Nat)
    BY <2>1, ImageBytes
  <2>3. QED
    BY <2>1, <2>2, ElementOfSeq
<1>6. QED
  BY <1>1, <1>2, <1>3, <1>4, <1>5, ByteOfTag, PageOfRow

\* A block that fits is read where there are numbers.
LEMMA BlockIsNumber ==
  ASSUME Tag, tlv \in Nat, InTlv, TlvFits
  PROVE  /\ TlvLength \in Nat /\ ValueAt \in Nat /\ ValueAt >= tlv + 2
         /\ IsLong => ValueAt = tlv + 4
         /\ ~IsLong => ValueAt = tlv + 2 /\ TlvLength = D(tlv + 1)
         /\ ValueAt + TlvLength <= size
<1>1. Tag
  OBVIOUS
<1>2. size \in Nat
  BY <1>1, ByteOfTag, TagSizeAssumption DEF Tag
<1>3. \A i \in Nat : i < size => D(i) \in Nat
  <2> SUFFICES ASSUME NEW i \in Nat, i < size PROVE data[i + 1] \in Nat
    BY DEF D
  <2>1. i + 1 \in 1..size
    BY <1>2
  <2>2. QED
    BY <1>1, <2>1, BytesAreNumbers
<1>4. LengthAt = tlv + 1 /\ LengthAt < size /\ ValueAt <= size /\ ValueAt + TlvLength <= size
  BY DEF TlvFits, LengthAt
<1>5. CASE IsLong
  <2>1. ValueAt = tlv + 4 /\ tlv + 4 <= size
    BY <1>4, <1>5 DEF ValueAt
  <2>2. D(tlv + 2) \in Nat /\ D(tlv + 3) \in Nat /\ Base \in Nat
    BY <1>2, <1>3, <2>1, ByteAssumption
  <2>3. TlvLength = D(tlv + 2) * Base + D(tlv + 3)
    BY <1>5 DEF TlvLength
  <2>4. D(tlv + 2) * Base \in Nat
    BY <2>2
  <2>5. QED
    BY <1>4, <1>5, <2>1, <2>2, <2>3, <2>4
<1>6. CASE ~IsLong
  <2>1. ValueAt = tlv + 2 /\ TlvLength = D(tlv + 1) /\ D(tlv + 1) \in Nat
    BY <1>3, <1>4, <1>6 DEF ValueAt, TlvLength, LengthAt
  <2>2. QED
    BY <1>4, <1>6, <2>1
<1>7. QED
  BY <1>5, <1>6

\* In the first block of a first page of a message is the message, if it was read.
LEMMA FirstBlock ==
  ASSUME Tag, tlv = 0, Size(pages[1]) # 0
  PROVE  /\ Size(pages[1]) \in Nat /\ Size(pages[1]) >= 8
         /\ size = 4 * count /\ count \in Nat
         /\ InTlv => D(tlv) = TLV_NDEF /\ ValueAt = 2 /\ TlvLength = Size(pages[1]) - 3
         /\ InTlv => (TlvFits <=> Size(pages[1]) - 1 <= size)
         /\ pc = "tlv" /\ ~InTlv => Said = NoUrl
         /\ Size(pages[1]) - 1 > size => Said = NoUrl
<1>1. size = 4 * count /\ count \in Nat
  BY ByteOfTag, TagSizeAssumption DEF Tag
<1>2. Size(pages[1]) \in Nat /\ Size(pages[1]) >= 8
  BY FirstSize
<1>3. Size(pages[1]) - 1 > size => Said = NoUrl
  BY <1>1, NothingSaid
<1>4. CASE count = 0
  BY <1>1, <1>2, <1>3, <1>4 DEF InTlv
<1>5. CASE count # 0
  <2>1. /\ D(0) = TLV_NDEF /\ D(1) = Size(pages[1]) - 3
        /\ D(1) < LongLength /\ LongLength \in Nat
    BY <1>1, <1>5, FirstPage
  <2>2. ~IsLong
    BY <1>2, <2>1 DEF IsLong, LengthAt
  <2>3. ValueAt = 2 /\ TlvLength = Size(pages[1]) - 3 /\ D(tlv) = TLV_NDEF
    BY <2>1, <2>2 DEF ValueAt, TlvLength, LengthAt
  <2>4. TlvFits <=> Size(pages[1]) - 1 <= size
    BY <1>1, <1>2, <1>5, <2>3 DEF TlvFits, LengthAt
  <2>5. pc = "tlv" => InTlv
    BY <1>1, <1>5 DEF InTlv
  <2>6. QED
    BY <1>1, <1>2, <1>3, <2>3, <2>4, <2>5
<1>6. QED
  BY <1>4, <1>5

\* In a first page of no message there is none, or an empty one.
LEMMA FirstPageHasNoMessage ==
  ASSUME Tag, Size(pages[1]) = 0, tlv = 0, InTlv
  PROVE  \/ \A j \in 1..4 : data[j] = TLV_NULL
         \/ D(0) \notin {TLV_NULL, TLV_NDEF} /\ D(1) \in Nat /\ D(1) >= 2
         \/ D(0) = TLV_NDEF /\ D(1) = 0 /\ LongLength # 0 /\ D(2) = TLV_TERMINATOR
<1>1. size = 4 * count /\ count \in Nat
  BY ByteOfTag, TagSizeAssumption DEF Tag
<1>2. count >= 1
  BY <1>1 DEF InTlv
<1>3. QED
  BY <1>2, FirstPageOfNone

\* A block of the memory.
LEMMA BlockKeepsPages ==
  ASSUME PageInv, pc = "tlv", Next, UNCHANGED pageVars PROVE PageInv'
<1>1. /\ Tag /\ tlv \in Nat /\ start \in Nat /\ message_size \in Nat /\ at \in Nat
      /\ found = NoUri /\ (tlv = 0 \/ InNothing \/ BehindEmpty \/ Behind)
  BY DEF PageInv
<1>2. \/ EndOfMemory \/ SkipNull \/ Terminator \/ TlvRefused \/ SkipTlv \/ EnterMessage
  BY DEF Next, EndOfMessage, RecordRefused, NextRecord, UriRefused, UriFound, UriOverruns,
                  InRecord
<1>3. data' = data
  BY <1>2 DEF EndOfMemory, SkipNull, Terminator, TlvRefused, SkipTlv, EnterMessage, Done
<1>4. /\ Tag' /\ Said' = Said /\ size' = size /\ SecondRecord' = SecondRecord
      /\ pages' = pages
  BY <1>1, <1>3, TagStays
<1>5. CASE EndOfMemory \/ Terminator \/ TlvRefused
  <2>1. Said = NoUrl
    <3>1. CASE Size(pages[1]) = 0
      BY <1>1, <3>1, NothingSaid
    <3>2. CASE tlv = 0 /\ Size(pages[1]) # 0
      <4>1. /\ InTlv => D(tlv) = TLV_NDEF /\ (TlvFits <=> Size(pages[1]) - 1 <= size)
            /\ pc = "tlv" /\ ~InTlv => Said = NoUrl
            /\ Size(pages[1]) - 1 > size => Said = NoUrl
            /\ Size(pages[1]) \in Nat /\ size = 4 * count /\ count \in Nat
        BY <1>1, <3>2, FirstBlock
      <4>2. CASE EndOfMemory
        <5>1. size \in Nat /\ tlv >= size
          BY <4>1, <4>2 DEF EndOfMemory
        <5>2. ~InTlv
          BY <5>1, <1>1 DEF InTlv
        <5>3. QED
          BY <4>1, <5>2
      <4>3. CASE Terminator
        BY <4>1, <4>3, TagAssumption DEF Terminator
      <4>4. CASE TlvRefused
        BY <4>1, <4>4 DEF TlvRefused
      <4>5. QED
        BY <1>5, <4>2, <4>3, <4>4
    <3>3. QED
      BY <1>1, <3>1, <3>2 DEF InNothing, BehindEmpty, Behind
  <2>2. /\ pc' = "done" /\ found' = NoUri /\ tlv' = tlv /\ start' = start
        /\ message_size' = message_size /\ at' = at
    BY <1>5 DEF EndOfMemory, Terminator, TlvRefused, Done
  <2>3. QED
    BY <1>1, <1>4, <2>1, <2>2 DEF PageInv
<1>6. CASE SkipNull
  <2>1. /\ InTlv /\ D(tlv) = TLV_NULL /\ tlv' = tlv + 1 /\ pc' = "tlv"
        /\ start' = start /\ message_size' = message_size /\ at' = at /\ found' = found
    BY <1>6 DEF SkipNull, InTlv
  <2>2. CASE tlv = 0
    <3>1. Size(pages[1]) = 0
      BY <1>1, <2>1, <2>2, FirstBlock, TagAssumption
    <3>2. \A j \in 1..4 : data[j] = TLV_NULL
      BY <1>1, <2>1, <2>2, <3>1, FirstPageHasNoMessage, TagAssumption
    <3>3. InNothing'
      BY <1>3, <1>4, <2>1, <2>2, <3>1, <3>2 DEF InNothing
    <3>4. QED
      BY <1>1, <1>4, <2>1, <3>3 DEF PageInv
  <2>3. CASE InNothing
    <3>1. InNothing' \/ Behind'
      <4>1. CASE tlv = 3
        BY <1>1, <1>4, <2>1, <2>3, <4>1, NothingSaid DEF InNothing, Behind
      <4>2. CASE tlv # 3
        BY <1>3, <1>4, <2>1, <2>3, <4>2 DEF InNothing
      <4>3. QED
        BY <4>1, <4>2
    <3>2. QED
      BY <1>1, <1>4, <2>1, <3>1 DEF PageInv
  <2>4. CASE Behind
    <3>1. Behind'
      BY <1>1, <1>4, <2>1, <2>4 DEF Behind
    <3>2. QED
      BY <1>1, <1>4, <2>1, <3>1 DEF PageInv
  <2>5. CASE BehindEmpty
    BY <2>1, <2>5, TagAssumption DEF BehindEmpty
  <2>6. QED
    BY <1>1, <2>2, <2>3, <2>4, <2>5
<1>7. ASSUME SkipTlv \/ EnterMessage PROVE ~InNothing /\ ~BehindEmpty
  <2>1. D(tlv) # TLV_NULL
    BY <1>7, TagAssumption DEF SkipTlv, EnterMessage
  <2>2. D(tlv) # TLV_TERMINATOR
    BY <1>7, TagAssumption DEF SkipTlv, EnterMessage
  <2>3. ASSUME InNothing PROVE FALSE
    <3>1. tlv + 1 \in 1..4
      BY <2>3 DEF InNothing
    <3>2. QED
      BY <2>1, <2>3, <3>1 DEF InNothing, D
  <2>4. QED
    BY <2>2, <2>3 DEF BehindEmpty
<1>8. CASE SkipTlv
  <2>1. /\ InTlv /\ D(tlv) \notin {TLV_NULL, TLV_TERMINATOR, TLV_NDEF} /\ TlvFits
        /\ tlv' = ValueAt + TlvLength /\ pc' = "tlv"
        /\ start' = start /\ message_size' = message_size /\ at' = at /\ found' = found
    BY <1>8 DEF SkipTlv, InTlv
  <2>2. /\ TlvLength \in Nat /\ ValueAt \in Nat /\ ValueAt >= tlv + 2
        /\ IsLong => ValueAt = tlv + 4
        /\ ~IsLong => ValueAt = tlv + 2 /\ TlvLength = D(tlv + 1)
    BY <1>1, <2>1, BlockIsNumber
  <2>3. tlv' \in Nat /\ tlv' >= 4 /\ Said = NoUrl
    <3>1. CASE tlv = 0
      <4>1. Size(pages[1]) = 0
        BY <1>1, <2>1, <3>1, FirstBlock
      <4>2. D(1) \in Nat /\ D(1) >= 2
        <5>1. ~\A j \in 1..4 : data[j] = TLV_NULL
          BY <2>1, <3>1 DEF D
        <5>2. QED
          BY <1>1, <2>1, <3>1, <4>1, <5>1, FirstPageHasNoMessage
      <4>3. CASE IsLong
        BY <1>1, <2>1, <2>2, <3>1, <4>1, <4>3, NothingSaid
      <4>4. CASE ~IsLong
        <5>1. ValueAt = 2 /\ TlvLength = D(1)
          BY <2>2, <3>1, <4>4
        <5>2. QED
          BY <1>1, <2>1, <5>1, <4>1, <4>2, NothingSaid
      <4>5. QED
        BY <4>3, <4>4
    <3>2. CASE Behind
      BY <1>1, <2>1, <2>2, <3>2 DEF Behind
    <3>3. QED
      BY <1>1, <1>7, <1>8, <3>1, <3>2
  <2>4. Behind'
    BY <1>4, <2>3 DEF Behind
  <2>5. QED
    BY <1>1, <1>4, <2>1, <2>3, <2>4 DEF PageInv
<1>9. CASE EnterMessage
  <2>1. /\ InTlv /\ D(tlv) = TLV_NDEF /\ TlvFits
        /\ pc' = "record" /\ start' = ValueAt /\ message_size' = TlvLength /\ at' = 0
        /\ tlv' = tlv /\ found' = found
    BY <1>9 DEF EnterMessage
  <2>2. /\ TlvLength \in Nat /\ ValueAt \in Nat /\ ValueAt >= tlv + 2
        /\ ValueAt + TlvLength <= size
    BY <1>1, <2>1, BlockIsNumber
  <2>3. LateMessage' \/ EmptyMessage' \/ FirstMessage'
    <3>1. CASE tlv = 0 /\ Size(pages[1]) # 0
      <4>1. ValueAt = 2 /\ TlvLength = Size(pages[1]) - 3
        BY <1>1, <2>1, <3>1, FirstBlock
      <4>2. QED
        BY <1>4, <2>1, <3>1, <4>1 DEF FirstMessage
    <3>2. CASE tlv = 0 /\ Size(pages[1]) = 0
      <4>1. ~\A j \in 1..4 : data[j] = TLV_NULL
        BY <2>1, <3>2, TagAssumption DEF D
      <4>2. D(1) = 0 /\ LongLength # 0 /\ D(2) = TLV_TERMINATOR
        BY <1>1, <2>1, <3>2, <4>1, FirstPageHasNoMessage
      <4>3. ValueAt = 2 /\ TlvLength = 0
        BY <3>2, <4>2 DEF IsLong, LengthAt, ValueAt, TlvLength
      <4>4. D(2)' = D(2)
        BY <1>3 DEF D
      <4>5. QED
        BY <1>4, <2>1, <3>2, <4>2, <4>3, <4>4 DEF EmptyMessage
    <3>3. CASE Behind
      BY <1>1, <1>4, <2>1, <2>2, <3>3 DEF Behind, LateMessage
    <3>4. QED
      BY <1>1, <1>7, <1>9, <3>1, <3>2, <3>3
  <2>4. QED
    BY <1>1, <1>4, <2>1, <2>2, <2>3 DEF PageInv
<1>10. QED
  BY <1>2, <1>5, <1>6, <1>8, <1>9

\* Where nothing can be found, no record is a URI's: its type would have to be
\* one byte long.
LEMMA NoUriHere ==
  ASSUME PageInv, pc = "record", LateMessage \/ (FirstMessage /\ pages[2] \in Others),
         RecordFits
  PROVE  ~IsUri
<1>1. Tag
  BY DEF PageInv
<1>2. /\ start \in Nat /\ message_size \in Nat /\ at \in Nat
      /\ start + message_size <= size /\ size = 4 * count /\ count \in Nat
  <2>1. size = 4 * count /\ count \in Nat
    BY <1>1, ByteOfTag, TagSizeAssumption DEF Tag
  <2>2. QED
    BY <2>1 DEF PageInv
<1>3. start + at + 2 <= size
  <2>1. TypeAt \in Nat /\ TypeAt >= at + 3 /\ TypeAt <= message_size
    BY <1>2 DEF RecordFits, TypeAt, IdAt
  <2>2. QED
    BY <1>2, <2>1
<1>4. type_length = data[start + at + 2]
  BY <1>2 DEF type_length, M, D
<1>5. CASE LateMessage
  <2>1. start + at + 2 \in 8..size
    BY <1>2, <1>3, <1>5 DEF LateMessage
  <2>2. QED
    BY <1>1, <1>4, <2>1, NoTypeLengthBehind DEF IsUri
<1>6. CASE FirstMessage /\ pages[2] \in Others
  <2>1. Size(pages[1]) \in Nat /\ Size(pages[1]) >= 8
    BY <1>1, <1>6, FirstSize DEF FirstMessage
  <2>2. start = 2 /\ message_size = Size(pages[1]) - 3 /\ Size(pages[1]) # 0
    BY <1>6 DEF FirstMessage
  <2>3. count >= 2
    BY <1>2, <2>1, <2>2
  <2>4. D(5) # TypeUri /\ \A j \in 5..size : data[j] # 1
    BY <1>1, <1>6, <2>3, SecondPageOfNone
  <2>5. CASE at = 0
    <3>1. header = RecordHeader
      <4>1. D(2) = RecordHeader
        BY <1>1, <1>2, <2>2, <2>3, FirstPage
      <4>2. QED
        BY <4>1, <2>2, <2>5 DEF header, M
    <3>2. TypeAt = 3
      BY <2>5, <3>1, HeaderAssumption DEF TypeAt, IdAt
    <3>3. M(TypeAt) = D(5)
      BY <2>2, <3>2 DEF M
    <3>4. QED
      BY <2>4, <3>3 DEF IsUri
  <2>6. CASE at # 0
    <3>1. start + at + 2 \in 5..size
      BY <1>2, <1>3, <2>2, <2>6
    <3>2. QED
      BY <1>4, <2>4, <3>1 DEF IsUri
  <2>7. QED
    BY <2>5, <2>6
<1>7. QED
  BY <1>5, <1>6

\* The record of the second page is read as the pages say.
LEMMA SecondPageIsRead ==
  ASSUME PageInv, pc = "record", FirstMessage, pages[2] \in Urls
  PROVE  /\ at < message_size /\ IsUri
         /\ RecordFits <=> UrlSize[pages[2]] <= Size(pages[1])
         /\ ~LengthWraps
         /\ RecordFits => /\ Expands <=> ~Broken(pages)
                          /\ ThisUri = SecondRecord
         /\ Size(pages[1]) - 1 <= 4 * count
         /\ Size(pages[1]) \in Nat /\ UrlSize[pages[2]] \in Nat
<1> DEFINE b == pages[2]
           first == Size(pages[1])
<1>1. Tag
  BY DEF PageInv
<1>2. /\ start + message_size <= size /\ size = 4 * count /\ count \in Nat
      /\ message_size = first - 3 /\ first # 0 /\ start = 2
  BY <1>1, ByteOfTag, TagSizeAssumption DEF PageInv, Tag, FirstMessage
<1>3. first \in Nat /\ first >= 8 /\ at = 0
  BY <1>1, <1>2, FirstSize, UrlAssumption DEF FirstMessage
<1>4. count >= 2 /\ first - 1 <= size
  BY <1>2, <1>3
<1>5. D(2) = RecordHeader /\ D(3) = 1
  BY <1>1, <1>2, <1>4, FirstPage
<1>6. /\ D(4) = PayloadLength(b) /\ D(5) = TypeUri /\ D(6) = Abbreviate(b)
      /\ b \in Urls /\ b \in Seq(Byte) /\ ImageSize(b) # 0
      /\ UrlSize[b] = 7 + PayloadLength(b) /\ PayloadLength(b) \in Nat \ {0}
  BY <1>1, <1>4, SecondPageOfImage
<1>7. /\ PayloadLength(b) <= ShortRecordMax /\ ShortRecordMax \in Nat
      /\ RecordLength(b) = 4 + PayloadLength(b) /\ RecordLength(b) < LongLength
      /\ Abbreviate(b) \in Codes
  BY <1>6, Sizes, CodecAssumption
<1> HIDE DEF b, first
<1>8. /\ header = RecordHeader /\ type_length = 1 /\ M(2) = PayloadLength(b)
      /\ M(3) = TypeUri /\ M(4) = Abbreviate(b)
  BY <1>2, <1>3, <1>5, <1>6 DEF header, type_length, M
<1>9. RecordHeader \in Short /\ RecordHeader \notin HasId /\ RecordHeader \in WellKnown
  BY HeaderAssumption
<1>10. /\ TypeAt = 3 /\ id_length = 0 /\ payload_length = PayloadLength(b)
       /\ PayloadAt = 4
  BY <1>3, <1>8, <1>9 DEF IdAt, TypeAt, id_length, payload_length, PayloadAt
<1>11. NextAt = 4 + PayloadLength(b) /\ ~LengthWraps
  <2>1. LongLength \in Nat /\ LongLength < Base /\ Base \in Nat \ {0}
    BY ByteAssumption DEF Byte
  <2>2. Base <= Base * Base /\ Base * Base \in Nat
    BY <2>1
  <2>3. PageSize * TagSize \in Nat /\ PageSize * TagSize + Base * Base < Word
    BY TagSizeAssumption, ImageAssumption DEF NDEF_PAGE_SIZE
  <2>4. Word \in Nat \ {0}
    BY WordAssumption, <2>2, <2>3
  <2>5. 4 + PayloadLength(b) \in 0..(Word - 1)
    BY <1>6, <1>7, <2>1, <2>2, <2>3, <2>4, SMTT(30)
  <2>6. (4 + PayloadLength(b)) % Word = 4 + PayloadLength(b)
    BY <2>4, <2>5, OwnRemainder
  <2>7. ~(4 + PayloadLength(b) >= Word)
    BY <2>4, <2>5
  <2>8. QED
    BY <2>6, <2>7, <1>10 DEF NextAt, LengthWraps
<1>12. IsUri
  BY <1>8, <1>9, <1>10 DEF IsUri
<1>13. RecordFits <=> UrlSize[b] <= first
  BY <1>2, <1>3, <1>6, <1>10, <1>11 DEF RecordFits
<1>14. ASSUME RecordFits PROVE Expands <=> ~Broken(pages)
  <2>1. UrlSize[b] - 1 <= size
    BY <1>2, <1>3, <1>4, <1>6, <1>10, <1>13, <1>14
  <2>2. Broken(pages) <=> \E k \in 1..(UrlSize[b] - 8) : data[7 + k] \in Control
    BY <1>1, <1>4, <2>1, TextIsRead DEF b, FirstMessage
  <2>3. UrlSize[b] - 8 = PayloadLength(b) - 1
    BY <1>6
  <2>4. \A i \in 1..(PayloadLength(b) - 1) : M(4 + i) = data[7 + i]
    BY <1>2, <1>6 DEF M, D
  <2>5. Abbreviate(b) < PrefixCount
    BY <1>7, PrefixAssumption DEF Codes
  <2>6. FitsOut(Abbreviate(b))
    <3> DEFINE sum == PrefixLength[Abbreviate(b)] + PayloadLength(b)
    <3>1. /\ PrefixLength[Abbreviate(b)] + ShortRecordMax <= OutSize
          /\ PrefixLength[Abbreviate(b)] + PageSize * TagSize < Word
          /\ PrefixLength[Abbreviate(b)] \in Nat
      BY <1>7, TableAssumption, PrefixAssumption, TagSizeAssumption DEF Codes
    <3>2. PayloadLength(b) <= PageSize * TagSize
      <4>1. PageSize = 4 /\ TagSize \in Nat /\ count \in 0..TagSize
        BY <1>1, TagSizeAssumption, ImageAssumption DEF Tag, NDEF_PAGE_SIZE
      <4>2. QED
        BY <1>2, <1>6, <2>1, <4>1
    <3>3. Word \in Nat \ {0} /\ PageSize * TagSize \in Nat
      <4>1. PageSize * TagSize \in Nat
        BY TagSizeAssumption, ImageAssumption DEF NDEF_PAGE_SIZE
      <4>2. QED
        BY <3>1, <4>1, WordAssumption
    <3>4. sum \in 0..(Word - 1) /\ sum <= OutSize
      BY <1>6, <1>7, <3>1, <3>2, <3>3, OutAssumption
    <3>5. sum % Word = sum
      BY <3>3, <3>4, OwnRemainder
    <3>6. QED
      BY <1>10, <2>5, <3>4, <3>5 DEF FitsOut
  <2>7. Expands <=> \A i \in 1..(PayloadLength(b) - 1) : M(4 + i) \notin Control
    BY <1>6, <1>8, <1>10, <2>6 DEF Expands
  <2>8. QED
    BY <2>1, <2>2, <2>3, <2>4, <2>7
<1>15. ThisUri = SecondRecord
  <2>1. start + PayloadAt = 6 /\ payload_length = UrlSize[b] - 7
    BY <1>2, <1>6, <1>10
  <2>2. QED
    BY <2>1 DEF ThisUri, SecondRecord, b
<1>16. at < message_size
  BY <1>2, <1>3
<1>17. UrlSize[b] \in Nat /\ first - 1 <= 4 * count
  BY <1>2, <1>4, <1>6
<1>18. QED
  BY <1>3, <1>6, <1>11, <1>12, <1>13, <1>14, <1>15, <1>16, <1>17 DEF b, first

\* A record of a message.
LEMMA RecordKeepsPages ==
  ASSUME PageInv, pc = "record", Next, UNCHANGED pageVars PROVE PageInv'
<1>1. /\ Tag /\ tlv \in Nat /\ start \in Nat /\ message_size \in Nat /\ at \in Nat
      /\ found = NoUri /\ start + message_size <= size
      /\ LateMessage \/ EmptyMessage \/ FirstMessage
  BY DEF PageInv
<1>2. EndOfMessage \/ RecordRefused \/ NextRecord \/ UriRefused \/ UriFound \/ UriOverruns
  BY DEF Next, EndOfMemory, SkipNull, Terminator, TlvRefused, SkipTlv, EnterMessage, InTlv
<1>3. data' = data
  BY <1>2 DEF EndOfMessage, RecordRefused, NextRecord, UriRefused, UriFound, UriOverruns,
              LeaveMessage, Done
<1>4. /\ Tag' /\ Said' = Said /\ size' = size /\ SecondRecord' = SecondRecord
      /\ pages' = pages
  BY <1>1, <1>3, TagStays
<1> DEFINE Nowhere == LateMessage \/ (FirstMessage /\ pages[2] \in Others)
           Here    == FirstMessage /\ pages[2] \in Urls
<1>5. Nowhere => Said = NoUrl /\ (RecordFits => ~IsUri)
  BY <1>1, NoUriHere, NothingSaid DEF LateMessage
<1>6. Nowhere \/ EmptyMessage \/ Here
  BY <1>1, NothingSaid
<1>7. Here =>
        /\ at < message_size /\ IsUri /\ ~LengthWraps
        /\ RecordFits <=> UrlSize[pages[2]] <= Size(pages[1])
        /\ RecordFits => (Expands <=> ~Broken(pages)) /\ ThisUri = SecondRecord
        /\ Size(pages[1]) - 1 <= 4 * count
        /\ Size(pages[1]) \in Nat /\ UrlSize[pages[2]] \in Nat
  BY SecondPageIsRead
<1>8. count \in Nat
  BY <1>1, TagSizeAssumption DEF Tag
<1>9. Here => (Said = NoUrl <=> ~RecordFits \/ ~Expands)
  BY <1>1, <1>7, <1>8, NothingSaid
<1>10. EmptyMessage => Said = NoUrl /\ ~InRecord
  BY <1>1, NothingSaid DEF EmptyMessage, InRecord
<1> HIDE DEF Nowhere, Here
<1>11. CASE EndOfMessage \/ RecordRefused \/ UriRefused
  <2>1. Said = NoUrl
    <3>1. CASE EndOfMessage
      <4>1. at >= message_size
        BY <3>1 DEF EndOfMessage
      <4>2. ~(at < message_size)
        BY <1>1, <4>1
      <4>3. QED
        BY <1>5, <1>6, <1>7, <1>10, <4>2
    <3>2. CASE RecordRefused
      BY <1>5, <1>6, <1>9, <1>10, <3>2 DEF RecordRefused
    <3>3. CASE UriRefused
      BY <1>5, <1>6, <1>7, <1>9, <1>10, <3>3 DEF UriRefused
    <3>4. QED
      BY <1>11, <3>1, <3>2, <3>3
  <2>2. /\ pc' = "tlv" /\ tlv' = start + message_size /\ start' = start /\ at' = at
        /\ message_size' = message_size /\ found' = found
    BY <1>11 DEF EndOfMessage, RecordRefused, UriRefused, LeaveMessage
  <2>3. Behind' \/ BehindEmpty'
    <3>1. CASE LateMessage
      BY <1>1, <1>4, <2>1, <2>2, <3>1 DEF LateMessage, Behind
    <3>2. CASE FirstMessage
      <4>1. Size(pages[1]) \in Nat /\ Size(pages[1]) >= 8
        BY <1>1, <3>2, FirstSize DEF FirstMessage
      <4>2. QED
        BY <1>4, <2>1, <2>2, <3>2, <4>1 DEF FirstMessage, Behind
    <3>3. CASE EmptyMessage
      <4>1. D(2)' = D(2)
        BY <1>3 DEF D
      <4>2. QED
        BY <1>4, <2>2, <3>3, <4>1 DEF EmptyMessage, BehindEmpty
    <3>4. QED
      BY <1>1, <3>1, <3>2, <3>3
  <2>4. start + message_size \in Nat
    BY <1>1
  <2>5. QED
    BY <1>1, <1>4, <2>2, <2>3, <2>4 DEF PageInv
<1>12. CASE NextRecord
  <2>1. /\ RecordFits /\ ~IsUri /\ at' = NextAt /\ pc' = "record" /\ tlv' = tlv
        /\ start' = start /\ message_size' = message_size /\ found' = found
    BY <1>12 DEF NextRecord, InRecord
  <2>2. Nowhere
    BY <1>6, <1>7, <1>10, <1>12, <2>1 DEF NextRecord
  <2>3. LateMessage' \/ FirstMessage'
    BY <1>4, <2>1, <2>2 DEF Nowhere, LateMessage, FirstMessage
  <2>4. NextAt \in Nat
    <3>1. PayloadAt + payload_length \in Int
      <4>1. Tag
        BY <1>1
      <4>2. size \in Nat
        BY <4>1, ByteOfTag, <1>8
      <4>3. ASSUME NEW i \in Nat, i < message_size PROVE M(i) \in Nat
        <5>1. start + i + 1 \in 1..size
          BY <1>1, <4>2, <4>3
        <5>2. data[start + i + 1] \in Nat
          BY <4>1, <5>1, BytesAreNumbers
        <5>3. QED
          BY <5>2 DEF M, D
      <4>4. TypeAt <= message_size
        BY <2>1 DEF RecordFits
      <4>5. /\ IdAt \in Nat /\ TypeAt \in Nat /\ IdAt >= at + 3 /\ TypeAt >= IdAt
            /\ header \notin Short => IdAt = at + 6
            /\ header \in HasId => TypeAt = IdAt + 1
        BY <1>1 DEF IdAt, TypeAt
      <4>6. type_length \in Nat
        BY <1>1, <4>3, <4>4, <4>5 DEF type_length
      <4>7. id_length \in Nat
        BY <1>1, <4>3, <4>4, <4>5 DEF id_length
      <4>8. payload_length \in Nat
        <5>1. CASE header \in Short
          BY <1>1, <4>3, <4>4, <4>5, <5>1 DEF payload_length
        <5>2. CASE header \notin Short
          <6>1. /\ M(at + 2) \in Nat /\ M(at + 3) \in Nat
                /\ M(at + 4) \in Nat /\ M(at + 5) \in Nat /\ Base \in Nat
            BY <1>1, <4>3, <4>4, <4>5, <5>2, ByteAssumption
          <6>2. M(at + 2) * Base + M(at + 3) \in Nat
            BY <6>1
          <6>3. (M(at + 2) * Base + M(at + 3)) * Base + M(at + 4) \in Nat
            BY <6>1, <6>2
          <6>4. ((M(at + 2) * Base + M(at + 3)) * Base + M(at + 4)) * Base + M(at + 5) \in Nat
            BY <6>1, <6>3
          <6>5. QED
            BY <5>2, <6>4 DEF payload_length
        <5>3. QED
          BY <5>1, <5>2
      <4>9. QED
        BY <4>5, <4>6, <4>7, <4>8 DEF PayloadAt
    <3>2. Word \in Nat \ {0}
      <4>1. PageSize * TagSize \in Nat /\ Base * Base \in Nat
        BY TagSizeAssumption, ImageAssumption, ByteAssumption DEF NDEF_PAGE_SIZE
      <4>2. QED
        BY <4>1, TagSizeAssumption, WordAssumption
    <3>3. QED
      BY <3>1, <3>2 DEF NextAt
  <2>5. QED
    BY <1>1, <1>4, <2>1, <2>3, <2>4 DEF PageInv
<1>13. CASE UriFound
  <2>1. /\ InRecord /\ RecordFits /\ IsUri /\ Expands /\ pc' = "done" /\ found' = ThisUri
        /\ tlv' = tlv /\ start' = start /\ message_size' = message_size /\ at' = at
    BY <1>13 DEF UriFound, Done
  <2>2. Said # NoUrl /\ found' = SecondRecord
    BY <1>5, <1>6, <1>7, <1>9, <1>10, <2>1
  <2>3. QED
    BY <1>1, <1>4, <2>1, <2>2 DEF PageInv
<1>14. ASSUME UriOverruns PROVE FALSE
  BY <1>5, <1>6, <1>7, <1>10, <1>14 DEF UriOverruns
<1>15. QED
  BY <1>2, <1>11, <1>12, <1>13, <1>14
-----------------------------------------------------------------------------
(* What is found is what the pages spell.                                  *)

\* The bytes behind the prefix of the second page, as the walk returns them.
Rest == SubSeq(data, 8, UrlSize[pages[2]] - 1)

\* Something is said: the record of the second page, and its text, were read.
LEMMA SomethingSaid ==
  ASSUME Tag, Said # NoUrl
  PROVE  /\ pages[2] \in Urls
         /\ UrlSize[pages[2]] \in Nat /\ UrlSize[pages[2]] >= 8
         /\ UrlSize[pages[2]] - 1 <= size
         /\ D(6) = Abbreviate(pages[2])
         /\ LET text == Spelt([i \in TextPlaces(pages[2]) |-> pages[i]])
            IN  Said = IF text \in Urls THEN text ELSE Garbled
<1>1. pages[2] \in Urls
  BY NothingSaid
<1>2. size = 4 * count /\ count \in Nat /\ Size(pages[1]) \in Nat
  BY ByteOfTag, TagSizeAssumption, FirstSize DEF Tag
<1>3. 2 \in 1..TagSize /\ 2 \in Nat \ {0}
  BY TagSizeAssumption
<1>4. UrlSize[pages[2]] \in Nat /\ UrlSize[pages[2]] >= 8
  BY <1>1, <1>3, PageOfRow, ReachedImage, UrlAssumption
<1>5. Size(pages[1]) - 1 <= 4 * count /\ UrlSize[pages[2]] <= Size(pages[1])
  BY <1>1, <1>2, <1>4, NothingSaid
<1>6. count >= 2 /\ UrlSize[pages[2]] - 1 <= size
  BY <1>2, <1>4, <1>5
<1>7. D(6) = Abbreviate(pages[2])
  BY <1>1, <1>6, SecondPageOfImage
<1>8. LET text == Spelt([i \in TextPlaces(pages[2]) |-> pages[i]])
      IN  Said = IF text \in Urls THEN text ELSE Garbled
  BY DEF Said, Decode
<1>9. QED
  BY <1>1, <1>4, <1>6, <1>7, <1>8

\* Each byte of the text is one of its page.
LEMMA RestIsText ==
  ASSUME Tag, Said # NoUrl
  PROVE  UriPrefixes[Abbreviate(pages[2])] \o Rest = Text(pages)
<1> DEFINE s == UrlSize[pages[2]]
           text == [k \in 1..(s - 8) |-> ByteOf(pages, 7 + k)]
<1>1. s \in Nat /\ s >= 8 /\ s - 1 <= size
  BY SomethingSaid
<1>2. size = 4 * count /\ count \in Nat
  BY ByteOfTag, TagSizeAssumption DEF Tag
<1>3. Rest = SubSeq(data, 8, s - 1)
  BY DEF Rest
<1>4. Text(pages) = UriPrefixes[Abbreviate(pages[2])] \o text
  BY DEF Text
<1>5. \A j \in 1..size : data[j] = ByteOf(pages, j)
  BY <1>2, ImageAssumption DEF Tag, NDEF_PAGE_SIZE
<1> HIDE DEF s
<1>6. \A j \in 8..(s - 1) : j \in 1..size /\ data[j] \in Nat
  <2> TAKE j \in 8..(s - 1)
  <2>1. j \in 1..size
    BY <1>1, <1>2
  <2>2. QED
    BY <2>1, BytesAreNumbers
<1>7. /\ Rest \in Seq(Nat) /\ Len(Rest) = s - 8
      /\ \A k \in 1..(s - 8) : Rest[k] = data[7 + k]
  <2>1. 8 \in Int /\ s - 1 \in Int
    BY <1>1
  <2>2. /\ Rest \in Seq(Nat)
        /\ Len(Rest) = IF 8 <= s - 1 THEN (s - 1) - 8 + 1 ELSE 0
        /\ \A k \in 1..((s - 1) - 8 + 1) : Rest[k] = data[8 + k - 1]
    BY <1>3, <1>6, <2>1, SubSeqProperties
  <2>3. Len(Rest) = s - 8
    BY <1>1, <2>2
  <2>4. \A k \in 1..(s - 8) : Rest[k] = data[7 + k]
    <3> TAKE k \in 1..(s - 8)
    <3>1. k \in 1..((s - 1) - 8 + 1) /\ 8 + k - 1 = 7 + k
      BY <1>1
    <3>2. QED
      BY <2>2, <3>1
  <2>5. QED
    BY <2>2, <2>3, <2>4
<1>8. \A k \in 1..(s - 8) : text[k] = Rest[k] /\ text[k] \in Nat
  <2> TAKE k \in 1..(s - 8)
  <2>1. 7 + k \in 8..(s - 1)
    BY <1>1
  <2>2. Rest[k] = ByteOf(pages, 7 + k) /\ data[7 + k] \in Nat /\ Rest[k] = data[7 + k]
    BY <1>5, <1>6, <1>7, <2>1
  <2>3. QED
    BY <2>2
<1>9. text \in Seq(Nat) /\ Len(text) = s - 8
  <2>1. DOMAIN text = 1..(s - 8) /\ s - 8 \in Nat
    BY <1>1
  <2>2. text = [k \in 1..(s - 8) |-> text[k]]
    BY Zenon
  <2> HIDE DEF text
  <2>3. text \in [1..(s - 8) -> Nat]
    BY <1>8, <2>2
  <2>4. QED
    BY <2>1, <2>3
<1> HIDE DEF text
<1>10. text = Rest
  BY <1>7, <1>8, <1>9, SeqEqual
<1>11. QED
  BY <1>4, <1>10

\* What the bytes spell is what the pages do.
LEMMA TextIsSaid ==
  ASSUME Tag, Said # NoUrl
  PROVE  Said = IF Text(pages) \in Urls THEN Text(pages) ELSE Garbled
<1> DEFINE s == UrlSize[pages[2]]
<1>1. /\ pages[2] \in Urls /\ pages \in Rows /\ s \in Nat /\ s >= 8 /\ s - 1 <= size
      /\ size = 4 * count /\ count \in 0..TagSize /\ TagSize \in Nat
  BY SomethingSaid, ByteOfTag, TagSizeAssumption DEF Tag
<1>2. \A i \in TextPlaces(pages[2]) : i <= TagSize
  <2> SUFFICES ASSUME NEW i \in 2..PagesFor(s - 1) PROVE i <= TagSize
    BY DEF TextPlaces
  <2> HIDE DEF s
  <2>1. PagesFor(s - 1) = (s + 2) \div 4
    BY <1>1 DEF PagesFor, NDEF_PAGE_SIZE
  <2>2. QED
    BY <1>1, <2>1
<1>3. Spelt([i \in TextPlaces(pages[2]) |-> pages[i]]) = Text(pages)
  BY <1>1, <1>2, TextIsSpelt
<1>4. QED
  BY <1>3, SomethingSaid
-----------------------------------------------------------------------------
(* The theorems.                                                           *)

LEMMA PageInvHolds == PageSpec => []PageInv
<1>1. PageInv /\ [PageNext]_<<vars, pageVars>> => PageInv'
  <2> SUFFICES ASSUME PageInv, [PageNext]_<<vars, pageVars>> PROVE PageInv'
    OBVIOUS
  <2>1. CASE PageNext
    <3>1. pc \in {"tlv", "record"}
      BY <2>1
         DEF PageNext, Next, EndOfMemory, SkipNull, Terminator, TlvRefused, SkipTlv,
             EnterMessage, EndOfMessage, RecordRefused, NextRecord, UriRefused, UriFound,
             UriOverruns, InTlv, InRecord
    <3>2. QED
      BY <2>1, <3>1, BlockKeepsPages, RecordKeepsPages DEF PageNext
  <2>2. CASE UNCHANGED <<vars, pageVars>>
    <3>1. /\ data' = data /\ pc' = pc /\ tlv' = tlv /\ start' = start /\ at' = at
          /\ message_size' = message_size /\ found' = found /\ UNCHANGED pageVars
      BY <2>2 DEF vars
    <3>2. Tag
      BY DEF PageInv
    <3>3. /\ Tag' /\ Said' = Said /\ size' = size /\ SecondRecord' = SecondRecord
          /\ pages' = pages
      BY <3>1, <3>2, TagStays
    <3>4. /\ InNothing' = InNothing /\ BehindEmpty' = BehindEmpty /\ Behind' = Behind
          /\ LateMessage' = LateMessage /\ EmptyMessage' = EmptyMessage
          /\ FirstMessage' = FirstMessage
      BY <3>1, <3>3 DEF InNothing, BehindEmpty, Behind, LateMessage, EmptyMessage,
                        FirstMessage, D
    <3>5. QED
      BY <3>1, <3>3, <3>4 DEF PageInv
  <2>3. QED
    BY <2>1, <2>2
<1>2. QED
  BY <1>1, PageInitInv, PTL DEF PageSpec

\* For all URLs, and other content of the kinds of OtherAssumption: what the walk
\* of ndef_find_uri makes of the bytes that a read returns is what the bridge's
\* model has the pages say, whole, mixed or cut short.
THEOREM PagesSayAll == PageSpec => []BytesSayWhatPagesSay
<1>1. PageInv => BytesSayWhatPagesSay
  <2> SUFFICES ASSUME PageInv, pc = "done"
               PROVE  LET text == Expansion(found.payload, found.length)
                      IN  Said = IF found = NoUri THEN NoUrl
                                 ELSE IF text \in Urls THEN text ELSE Garbled
    BY DEF BytesSayWhatPagesSay, Said
  <2>1. Tag /\ found = IF Said = NoUrl THEN NoUri ELSE SecondRecord
    BY DEF PageInv
  <2>2. CASE Said = NoUrl
    BY <2>1, <2>2
  <2>3. CASE Said # NoUrl
    <3>1. found = SecondRecord /\ found.payload = 6 /\ found.length = UrlSize[pages[2]] - 7
      BY <2>1, <2>3 DEF SecondRecord
    <3>2. found # NoUri
      BY <3>1 DEF NoUri
    <3>3. D(6) = Abbreviate(pages[2]) /\ UrlSize[pages[2]] \in Nat
      BY <2>1, <2>3, SomethingSaid
    <3>4. found.payload + found.length = UrlSize[pages[2]] - 1 /\ found.payload + 2 = 8
      BY <3>1, <3>3
    <3>5. Expansion(found.payload, found.length) = UriPrefixes[Abbreviate(pages[2])] \o Rest
      BY <3>1, <3>3, <3>4 DEF Expansion, Rest
    <3>6. Expansion(found.payload, found.length) = Text(pages)
      BY <2>1, <2>3, <3>5, RestIsText
    <3>7. QED
      BY <2>1, <2>3, <3>2, <3>6, TextIsSaid
  <2>4. QED
    BY <2>2, <2>3
<1>2. QED
  BY <1>1, PageInvHolds, PTL

\* The text of an image, whole, is its URL: what module TagPages assumes of Spelt,
\* and the proofs about the bridge with it (the prefix and the body that
\* ndef_build_uri_image writes are what expand_uri puts together).
THEOREM WholeImageSpellsUrl ==
  \A url \in Urls : ImageSize(url) # 0 => Text([i \in TextPlaces(url) |-> url]) = url
<1> SUFFICES ASSUME NEW b \in Urls, ImageSize(b) # 0
             PROVE  Text([i \in TextPlaces(b) |-> b]) = b
  OBVIOUS
<1> DEFINE s == UrlSize[b]
           m == [i \in TextPlaces(b) |-> b]
           rest == [k \in 1..(s - 8) |-> ByteOf(m, 7 + k)]
<1>1. /\ b \in Seq(Byte) /\ s = ImageSize(b)
      /\ PayloadLength(b) \in Nat \ {0} /\ s = 7 + PayloadLength(b)
      /\ Len(b) \in Nat /\ Swallowed(b) \in 0..Len(b)
      /\ PayloadLength(b) = 1 + (Len(b) - Swallowed(b))
  BY Sizes, CodecAssumption, ImageAssumption, SMTT(30)
<1>2. \A i \in TextPlaces(b) : m[i] = b
  OBVIOUS
<1> HIDE DEF m, s
<1>3. \A k \in 1..(s - 8) : Place(7 + k) \in TextPlaces(b)
  <2> SUFFICES ASSUME NEW k \in 1..(s - 8) PROVE Place(7 + k) \in 2..PagesFor(s - 1)
    BY DEF TextPlaces, s
  <2> DEFINE j == 7 + k
             i == Place(j)
  <2>1. s \in Nat /\ s >= 8 /\ j \in Nat \ {0} /\ j >= 8 /\ j <= s - 1
    BY <1>1
  <2> HIDE DEF j
  <2>2. i \in Nat \ {0} /\ 4 * (i - 1) < j /\ j <= 4 * i
    BY <2>1, PlaceIs
  <2> HIDE DEF i
  <2>3. i >= 2 /\ 4 * i <= s + 2
    BY <2>1, <2>2
  <2>4. i \in 2..PagesFor(s - 1)
    BY <2>1, <2>2, <2>3, PagesOfText
  <2>5. QED
    BY <2>4 DEF i, j
<1>4. ASSUME NEW k \in 1..(s - 8)
      PROVE  rest[k] = b[Swallowed(b) + k] /\ rest[k] \in Byte
  <2>1. m[Place(7 + k)] = b
    BY <1>2, <1>3
  <2>2. rest[k] = Image(b)[7 + k]
    BY <2>1 DEF ByteOf, Images
  <2>3. k \in 1..(PayloadLength(b) - 1) /\ Swallowed(b) + k \in 1..Len(b)
    BY <1>1
  <2>4. Image(b)[7 + k] = b[Swallowed(b) + k] /\ b[Swallowed(b) + k] \in Byte
    BY <1>1, <2>3, ImageBytes, ElementOfSeq
  <2>5. QED
    BY <2>2, <2>4
<1>5. rest \in Seq(Byte) /\ Len(rest) = PayloadLength(b) - 1
  <2>1. DOMAIN rest = 1..(s - 8) /\ s - 8 \in Nat /\ s - 8 = PayloadLength(b) - 1
    BY <1>1
  <2>2. rest = [k \in 1..(s - 8) |-> rest[k]]
    BY Zenon
  <2> HIDE DEF rest
  <2>3. rest \in [1..(s - 8) -> Byte]
    BY <1>4, <2>2
  <2>4. QED
    BY <2>1, <2>3
<1>6. m[2] = b
  <2>1. 2 \in TextPlaces(b)
    <3>1. s \in Nat /\ s >= 8
      BY <1>1
    <3>2. 2 \in 2..PagesFor(s - 1)
      BY <3>1, PagesOfText
    <3>3. QED
      BY <3>2 DEF TextPlaces, s
  <2>2. QED
    BY <1>2, <2>1
<1>7. Text(m) = UriPrefixes[Abbreviate(b)] \o rest
  BY <1>6 DEF Text, s
<1> HIDE DEF rest
<1>8. \A k \in 1..(PayloadLength(b) - 1) : rest[k] = b[Swallowed(b) + k]
  BY <1>1, <1>4
<1>9. UriPrefixes[Abbreviate(b)] \o rest = b
  BY <1>1, <1>5, <1>8, PrefixAndTail
<1>10. QED
  BY <1>7, <1>9 DEF m
=============================================================================
