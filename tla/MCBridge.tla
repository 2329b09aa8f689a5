------------------------------ MODULE MCBridge ------------------------------
(***************************************************************************)
(* Two URLs of one size, one that fits the pages a read returns but not    *)
(* user memory, and one that cannot be encoded; tags that are blank, carry *)
(* a URL, or a text as long as its URLs.                                   *)
(***************************************************************************)
EXTENDS Bridge, TLC

CONSTANTS a, b, wide, bad, blank, note

MCUrls == {a, b, wide, bad}
MCUrlSize == a :> 12 @@ b :> 12 @@ wide :> 14 @@ bad :> 0

MCOtherSize == blank :> 0 @@ note :> 12
MCOtherText == blank :> {} @@ note :> 8..11

\* Pages of several spell nothing.
MCSpelt(text) ==
  IF \A i \in DOMAIN text : text[i] = text[2] THEN text[2] ELSE Garbled

Holding(kind) == [i \in Memory |-> kind]
Carrying(url) == [i \in Memory |-> IF i <= UrlPages[url] THEN url ELSE blank]
MCContents   == {Carrying(a), Holding(note)}
MCTwoUrls    == {Carrying(a), Carrying(b), Holding(blank)}

Line(v, u) == [verb |-> v, url |-> u]
MCLines ==
  {Line("PING", NoUrl), Line("READ", NoUrl), Line("?", NoUrl),
   Line("WRITE", NoUrl), Line("WRITE", a),
   Line("WRITE!", b), Line("WRITE!", wide), Line("WRITE!", bad)}
MCSymmetry == Permutations(Tags)
=============================================================================
