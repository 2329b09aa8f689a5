------------------------------ MODULE TagPages ------------------------------
(***************************************************************************)
(* A tag's memory as a row of pages.  A page is the URL whose image it is  *)
(* a part of, or the kind of other content it is a part of; the part is    *)
(* the one that belongs at its place, for no other is ever written there.  *)
(* An image is the length of the message and of its record, in the first   *)
(* page; the length of the URI, its prefix and its first character, in the *)
(* second; text, a terminator, and zeros.  Other content may begin with a  *)
(* message too, and may hold what reads as text.                           *)
(***************************************************************************)
EXTENDS Naturals

CONSTANTS
  Urls, NoUrl,          \* URLs a host asks for; none
  Garbled,              \* what pages decode to that spell no URL of these
  Others,               \* what else a tag may hold: nothing, a text, ...
  UrlSize, OtherSize,   \* bytes of the message to its terminator; 0 for none
  OtherText,            \* the places of its bytes that are text
  Spelt(_)              \* what the pages of a text spell

ASSUME UrlAssumption ==
  /\ NoUrl \notin Urls /\ Garbled \notin Urls /\ NoUrl # Garbled
  /\ Others \cap (Urls \cup {NoUrl}) = {}
ASSUME SizeAssumption ==
  /\ UrlSize \in [Urls -> Nat \ 1..7]
  /\ OtherSize \in [Others -> Nat \ 1..7]
  /\ OtherText \in [Others -> SUBSET Nat]

NDEF_PAGE_SIZE == 4

\* Pages that hold so many bytes, and those of a URL's image.
PagesFor(bytes) == (bytes + NDEF_PAGE_SIZE - 1) \div NDEF_PAGE_SIZE
UrlPages == [url \in Urls |-> PagesFor(UrlSize[url])]

\* The pages with the text of a URL; whole, they spell it.
TextPlaces(url) == 2..PagesFor(UrlSize[url] - 1)
ASSUME SpeltAssumption ==
  \A url \in Urls : UrlSize[url] # 0 => Spelt([i \in TextPlaces(url) |-> url]) = url

Size(page) == IF page \in Urls THEN UrlSize[page] ELSE OtherSize[page]
TextOf(page) == IF page \in Urls THEN 1..UrlSize[page] ELSE OtherText[page]

\* A page that is not text all through where a URI of this size goes on.
Breaks(place, page, size) ==
  \E j \in (NDEF_PAGE_SIZE * (place - 1) + 1)..(NDEF_PAGE_SIZE * place) :
    j < size /\ j \notin TextOf(page)

\* ndef_find_uri on the first n pages.  The message must have been read, the
\* record of the second page must be a URI's and fit into it, and what stands in
\* the place of text must be text.
Decode(m, n) ==
  IF \/ m[2] \in Others
     \/ Size(m[1]) - 1 > NDEF_PAGE_SIZE * n
     \/ UrlSize[m[2]] > Size(m[1])
     \/ \E i \in TextPlaces(m[2]) : Breaks(i, m[i], UrlSize[m[2]])
  THEN NoUrl
  ELSE LET text == Spelt([i \in TextPlaces(m[2]) |-> m[i]])
       IN  IF text \in Urls THEN text ELSE Garbled
=============================================================================
