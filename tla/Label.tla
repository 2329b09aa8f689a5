------------------------------- MODULE Label -------------------------------
(***************************************************************************)
(* A label copied by hand: the display form of a short ID, respelled,      *)
(* regrouped and given a prefix at will, with a slip or none.              *)
(***************************************************************************)
EXTENDS ShortId, SequencesExt

CONSTANTS
  Ids,            \* the values of the symbols of the IDs on the labels
  Chars,          \* characters that may be typed
  Prefix,         \* what may be typed in front
  Hosts,          \* what may precede /s/ in a tag's URI
  MaxChanges      \* bound: changes to the text

ASSUME IdsAssumption == Ids \subseteq {v \in Codes : CheckHolds(v)}
\* What is typed has none of the characters that part a URI; a prefix is set off by
\* white space; and everything fits the buffer of ndef_short_id_from_uri.
ASSUME TypedAssumption ==
  /\ Chars \subseteq Nat \ {Slash, 63, 35}
  /\ Prefix \in Seq(Nat \ {Slash, 63, 35})
  /\ Prefix # <<>> /\ Prefix[Len(Prefix)] \in Spaces
  /\ MaxChanges \in Nat
  /\ Len(Prefix) + SHORTID_TOTAL_SYMBOLS + 1 + MaxChanges < CODE_MAX
ASSUME HostsAssumption == Hosts \subseteq Seq(Nat)

VARIABLES
  id,             \* the ID on the label
  prefix, text,   \* what is typed: a prefix or nothing, then the text
  slips,          \* symbols mistaken or swapped with their neighbour
  changes         \* all changes

labelVars == <<id, prefix, text, slips, changes>>

Typed == prefix \o text

SymbolsAt == Counted(text)

Change ==
  /\ changes < MaxChanges /\ changes' = changes + 1
  /\ UNCHANGED id

\* Lower case, or a character that is taken for the same symbol.
Respell ==
  /\ Change
  /\ \E i \in SymbolsAt, c \in Chars :
       /\ Folded(c) = Folded(text[i])
       /\ text' = [text EXCEPT ![i] = c]
  /\ UNCHANGED <<prefix, slips>>

\* Behind a prefix the symbols are one token: white space is before the first
\* or after everything.
OneToken(t) ==
  \A j \in {j \in DOMAIN t : t[j] \in Spaces} :
    \/ \A i \in 1..(j - 1) : IsStrippable(t[i])
    \/ \A k \in j..Len(t) : t[k] \in Spaces

Separated ==
  {InsertAt(text, i, c) : i \in 1..(Len(text) + 1),
                          c \in {c \in Chars : IsStrippable(c)}}

\* White space groups the symbols only where there is no prefix.
Separate ==
  /\ Change
  /\ text' \in {t \in Separated : prefix = <<>> \/ OneToken(t)}
  /\ UNCHANGED <<prefix, slips>>

Join ==
  /\ Change
  /\ \E i \in DOMAIN text \ SymbolsAt : text' = RemoveAt(text, i)
  /\ UNCHANGED <<prefix, slips>>

AddPrefix ==
  /\ Change
  /\ prefix = <<>> /\ prefix' = Prefix
  /\ OneToken(text)
  /\ UNCHANGED <<text, slips>>

\* One wrong symbol.
Mistake ==
  /\ Change
  /\ slips = 0 /\ slips' = 1
  /\ \E i \in SymbolsAt, c \in Chars :
       /\ ~IsStrippable(c) /\ Folded(c) # Folded(text[i])
       /\ text' = [text EXCEPT ![i] = c]
  /\ UNCHANGED prefix

\* One adjacent transposition.
Swap ==
  /\ Change
  /\ slips = 0 /\ slips' = 1
  /\ \E i, j \in SymbolsAt :
       /\ i < j /\ SymbolsAt \cap (i + 1)..(j - 1) = {}
       /\ Folded(text[i]) # Folded(text[j])
       /\ text' = [text EXCEPT ![i] = text[j], ![j] = text[i]]
  /\ UNCHANGED prefix

LabelInit ==
  /\ id \in Ids
  /\ prefix = <<>> /\ text = FormatDisplay(Canonical(id))
  /\ slips = 0 /\ changes = 0

LabelNext == Respell \/ Separate \/ Join \/ AddPrefix \/ Mistake \/ Swap

LabelSpec == LabelInit /\ [][LabelNext]_labelVars
-----------------------------------------------------------------------------
(* Properties.                                                             *)

\* However an ID is spelled, grouped and prefixed, it is read as the ID on the
\* label (shortid.h:34-36).
CleanCopyIsRead ==
  text # <<>> /\ slips = 0 =>
    Validate(Typed) = [error |-> "ShortIdOk", out |-> Canonical(id)]

\* One wrong symbol or one adjacent transposition is refused, the check symbol
\* included: it is never read as another ID (shortid.c:11-13).
SlipIsRefused ==
  text # <<>> /\ slips = 1 => Validate(Typed).error # "ShortIdOk"

\* A tag says what its label says, whatever its host and with or without the
\* slash at the end (ndef.h:30-36).
TagReadsLikeLabel == text # <<>> =>
  \A host \in Hosts, tail \in {<<>>, <<Slash>>} :
    ShortIdFromUri(host \o <<Slash, 115, Slash>> \o Typed \o tail) = Validate(Typed)
=============================================================================
