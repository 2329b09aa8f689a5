------------------------------ MODULE UriRule ------------------------------
(***************************************************************************)
(* Where ndef_short_id_from_uri finds a code, against the rule it quotes:  *)
(* "/s/", then the code, then at most one slash, then the end.             *)
(***************************************************************************)
EXTENDS ShortId

CONSTANTS
  UriChars,       \* characters of a URI
  Starts          \* beginnings, and how many characters may be added to each

ASSUME UriAssumption == UriChars \subseteq Nat /\ DOMAIN Starts \subseteq Seq(Nat)

VARIABLES
  address,        \* the URI
  room            \* characters that may be added to it

uriVars == <<address, room>>

UriInit == \E start \in DOMAIN Starts : address = start /\ room = Starts[start]

UriNext ==
  /\ room > 0 /\ room' = room - 1
  /\ \E c \in UriChars : address' = Append(address, c)

UriSpec == UriInit /\ [][UriNext]_uriVars
-----------------------------------------------------------------------------
(* Properties.                                                             *)

\* [^/?#]+, of at most the characters a code may have.
IsSegment(code) ==
  /\ Len(code) \in 1..(CODE_MAX - 1)
  /\ \A i \in DOMAIN code : code[i] \notin {Slash, 63, 35}

\* The trimmed URI ends in /s/, the code and at most one slash.
Matches(code) ==
  LET trimmed == Trim(address)
  IN  \E n \in 0..Len(trimmed), tail \in {<<>>, <<Slash>>} :
        trimmed = SubSeq(trimmed, 1, n) \o <<Slash, 115, Slash>> \o code \o tail

Segments == {SubSeq(address, i, j) : i \in 1..Len(address), j \in 1..Len(address)}

\* The code is found where the rule has it, and nowhere where it has none
\* (ndef.c:154-155, :173).
CodeFollowsRule ==
  LET code == CodeOfUri(address)
  IN  /\ code # <<>> => IsSegment(code) /\ Matches(code)
      /\ \A segment \in Segments :
           IsSegment(segment) /\ Matches(segment) => code = segment
=============================================================================
