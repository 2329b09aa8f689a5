------------------------------ MODULE ShortId ------------------------------
(***************************************************************************)
(* Short IDs: normalising what was typed or read, the check symbol, and    *)
(* the place of a short ID in a URI.  A text is a sequence of characters,  *)
(* a character its ASCII code.                                             *)
(***************************************************************************)
EXTENDS Integers, Sequences, FiniteSets

SHORTID_BASE == 32
SHORTID_CHECK_MODULUS == 37
SHORTID_DATA_SYMBOLS == 7
SHORTID_TOTAL_SYMBOLS == 8

CONSTANTS
  SQUASH_BUFFER, CODE_MAX     \* sizes of the buffers, the NUL included

\* shortid_validate's buffer holds a whole code.
ASSUME BufferAssumption == SQUASH_BUFFER \in Nat /\ SQUASH_BUFFER > SHORTID_TOTAL_SYMBOLS
ASSUME CodeAssumption == CODE_MAX \in Nat

Hyphen == 45
Slash  == 47

\* Digits and capitals without I, L, O and U.
SHORTID_ALPHABET ==
  <<48, 49, 50, 51, 52, 53, 54, 55, 56, 57,
    65, 66, 67, 68, 69, 70, 71, 72, 74, 75, 77, 78, 80, 81, 82, 83, 84,
    86, 87, 88, 89, 90>>

Symbols == 0..(SHORTID_BASE - 1)

symbol_value(c) ==
  IF \E v \in Symbols : SHORTID_ALPHABET[v + 1] = c
  THEN CHOOSE v \in Symbols : SHORTID_ALPHABET[v + 1] = c
  ELSE -1

Spaces == 9..13 \cup {32}
IsStrippable(c) == c \in Spaces \cup {Hyphen, 95, 46}

\* Upper case; O is a zero, I and L are ones.
Folded(c) ==
  LET upper == IF c \in 97..122 THEN c - 32 ELSE c
  IN  CASE upper = 79         -> 48
        [] upper \in {73, 76} -> 49
        [] OTHER              -> upper

\* The places of the characters that count.
Counted(text) == {i \in DOMAIN text : ~IsStrippable(text[i])}

\* squash: these characters in their order, as many as the buffer takes.
Squash(text) ==
  LET counted == Counted(text)
      total   == Cardinality(counted)
      Nth(k)  == CHOOSE i \in counted : Cardinality({j \in counted : j <= i}) = k
  IN  [k \in 1..(IF total < SQUASH_BUFFER THEN total ELSE SQUASH_BUFFER - 1) |->
         Folded(text[Nth(k)])]

\* One turn of the loop of shortid_check_value.
CheckStep(total, value) == (total * SHORTID_BASE + value) % SHORTID_CHECK_MODULUS

\* shortid_check_value, of the values of the data symbols.
CheckValue(v) ==
  CheckStep(CheckStep(CheckStep(CheckStep(CheckStep(CheckStep(CheckStep(0,
    v[1]), v[2]), v[3]), v[4]), v[5]), v[6]), v[7])

\* Mutant: a check value outside the alphabet is not looked at.
CheckHoldsInside(v) ==
  CheckValue(v) < SHORTID_BASE => v[SHORTID_TOTAL_SYMBOLS] = CheckValue(v)

\* The check symbol is the one that belongs to the data; there is none for a
\* check value outside the alphabet.
CheckHolds(v) == v[SHORTID_TOTAL_SYMBOLS] = CheckValue(v)

Codes == [1..SHORTID_TOTAL_SYMBOLS -> Symbols]

\* strip: a text without the white space around it.
Trim(text) ==
  LET kept == {i \in DOMAIN text : text[i] \notin Spaces}
  IN  IF kept = {} THEN <<>>
      ELSE SubSeq(text, CHOOSE i \in kept : \A j \in kept : i <= j,
                        CHOOSE i \in kept : \A j \in kept : i >= j)

\* What follows the last of the dividers in a text.
After(text, dividers) ==
  LET divider == {0} \cup {i \in DOMAIN text : text[i] \in dividers}
  IN  SubSeq(text, 1 + CHOOSE i \in divider : \A j \in divider : i >= j, Len(text))

\* Mutant: the last of several tokens is always taken.
CodePartAlways(text) == After(text, Spaces)

\* Only a last token that is a whole code makes what precedes it a prefix.
CodePart(text) ==
  LET token == After(text, Spaces)
  IN  IF Len(Squash(token)) = SHORTID_TOTAL_SYMBOLS THEN token ELSE text

Error(error) == [error |-> error, out |-> <<>>]

\* shortid_validate
Validate(raw) ==
  LET text   == Trim(raw)
      code   == Squash(CodePart(text))
      values == [i \in DOMAIN code |-> symbol_value(code[i])]
  IN  IF text = <<>> THEN Error("ShortIdErrEmpty")
      ELSE IF Len(code) # SHORTID_TOTAL_SYMBOLS THEN Error("ShortIdErrLength")
      ELSE IF \E i \in DOMAIN values : values[i] < 0 THEN Error("ShortIdErrAlphabet")
      ELSE IF ~CheckHolds(values) THEN Error("ShortIdErrCheck")
      ELSE [error |-> "ShortIdOk", out |-> code]

\* The canonical symbols of the values of a code, and how they are displayed.
Canonical(v) == [i \in 1..SHORTID_TOTAL_SYMBOLS |-> SHORTID_ALPHABET[v[i] + 1]]
FormatDisplay(canonical) ==
  SubSeq(canonical, 1, 4) \o <<Hyphen>> \o SubSeq(canonical, 5, 8)
-----------------------------------------------------------------------------
(* ndef_short_id_from_uri                                                  *)

\* Mutants: the slash stays; every trailing slash is dropped.
WithSlash(text) == text

WithoutSlashes(text) ==
  LET kept == {0} \cup {i \in DOMAIN text : text[i] # Slash}
  IN  SubSeq(text, 1, CHOOSE i \in kept : \A j \in kept : i >= j)

WithoutSlash(text) ==
  IF text # <<>> /\ text[Len(text)] = Slash
  THEN SubSeq(text, 1, Len(text) - 1)
  ELSE text

\* The last path segment, if it is a code's: behind "/s/", with no query and no
\* fragment.  Nothing otherwise.
CodeOfUri(uri) ==
  LET text  == WithoutSlash(Trim(uri))
      code  == After(text, {Slash})
      start == Len(text) - Len(code)      \* code_start; the slash is before it
  IN  IF /\ start >= 3
         /\ Len(code) \in 1..(CODE_MAX - 1)
         /\ text[start - 1] = 115 /\ text[start - 2] = Slash
         /\ \A i \in DOMAIN code : code[i] \notin {63, 35}
      THEN code
      ELSE <<>>

ShortIdFromUri(uri) ==
  IF CodeOfUri(uri) = <<>> THEN Error("NoCode") ELSE Validate(CodeOfUri(uri))
=============================================================================
