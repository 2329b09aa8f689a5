--------------------------- MODULE ShortIdProofs ---------------------------
(***************************************************************************)
(* What the check symbol of module ShortId catches, for every short ID;    *)
(* where a code is found in a URI, for every URI; and how a label is read, *)
(* for every ID and whatever is done to its copy.                          *)
(***************************************************************************)
EXTENDS Label, UriRule, NumberLemmas, SequenceTheorems, FiniteSetTheorems

Residues == 0..(SHORTID_CHECK_MODULUS - 1)

\* A turn of the loop yields a residue.
LEMMA StepIsResidue ==
  ASSUME NEW t \in Residues, NEW v \in Symbols
  PROVE  CheckStep(t, v) \in Residues
BY DEF Residues, Symbols, CheckStep, SHORTID_BASE, SHORTID_CHECK_MODULUS

\* Two totals that differ still differ after the same symbol: 37 is prime and
\* does not divide 32.
LEMMA TotalsStayApart ==
  ASSUME NEW t \in Residues, NEW u \in Residues, t # u, NEW v \in Symbols
  PROVE  CheckStep(t, v) # CheckStep(u, v)
BY DEF Residues, Symbols, CheckStep, SHORTID_BASE, SHORTID_CHECK_MODULUS

\* Two symbols that differ lead to totals that differ: there are fewer than 37.
LEMMA SymbolsAreTold ==
  ASSUME NEW t \in Residues, NEW v \in Symbols, NEW w \in Symbols, v # w
  PROVE  CheckStep(t, v) # CheckStep(t, w)
BY DEF Residues, Symbols, CheckStep, SHORTID_BASE, SHORTID_CHECK_MODULUS

\* So do two neighbours and the same two swapped.
LEMMA SwapIsTold ==
  ASSUME NEW t \in Residues, NEW v \in Symbols, NEW w \in Symbols, v # w
  PROVE  CheckStep(CheckStep(t, v), w) # CheckStep(CheckStep(t, w), v)
BY DEF Residues, Symbols, CheckStep, SHORTID_BASE, SHORTID_CHECK_MODULUS

\* The last data symbol swapped with its check symbol does not check.
LEMMA CheckSwapIsTold ==
  ASSUME NEW t \in Residues, NEW v \in Symbols, NEW w \in Symbols, v # w,
         w = CheckStep(t, v)
  PROVE  v # CheckStep(t, w)
BY DEF Residues, Symbols, CheckStep, SHORTID_BASE, SHORTID_CHECK_MODULUS
-----------------------------------------------------------------------------
\* The totals of the loop: after none of the data symbols, after one, and so on.
T0(v) == 0
T1(v) == CheckStep(T0(v), v[1])
T2(v) == CheckStep(T1(v), v[2])
T3(v) == CheckStep(T2(v), v[3])
T4(v) == CheckStep(T3(v), v[4])
T5(v) == CheckStep(T4(v), v[5])
T6(v) == CheckStep(T5(v), v[6])
T7(v) == CheckStep(T6(v), v[7])

\* They are residues, and the last is the check value.
LEMMA TotalsAreResidues ==
  ASSUME NEW v \in Codes
  PROVE  /\ T0(v) \in Residues /\ T1(v) \in Residues /\ T2(v) \in Residues
         /\ T3(v) \in Residues /\ T4(v) \in Residues /\ T5(v) \in Residues
         /\ T6(v) \in Residues /\ T7(v) \in Residues
         /\ CheckValue(v) = T7(v)
<1>0. \A i \in 1..8 : v[i] \in Symbols
  BY DEF Codes, SHORTID_TOTAL_SYMBOLS
<1>1. T0(v) \in Residues
  BY DEF T0, Residues, SHORTID_CHECK_MODULUS
<1>2. T1(v) \in Residues
  BY <1>0, <1>1, StepIsResidue DEF T1
<1>3. T2(v) \in Residues
  BY <1>0, <1>2, StepIsResidue DEF T2
<1>4. T3(v) \in Residues
  BY <1>0, <1>3, StepIsResidue DEF T3
<1>5. T4(v) \in Residues
  BY <1>0, <1>4, StepIsResidue DEF T4
<1>6. T5(v) \in Residues
  BY <1>0, <1>5, StepIsResidue DEF T5
<1>7. T6(v) \in Residues
  BY <1>0, <1>6, StepIsResidue DEF T6
<1>8. T7(v) \in Residues
  BY <1>0, <1>7, StepIsResidue DEF T7
<1>9. CheckValue(v) = T7(v)
  BY DEF CheckValue, T0, T1, T2, T3, T4, T5, T6, T7
<1>10. QED BY <1>1, <1>2, <1>3, <1>4, <1>5, <1>6, <1>7, <1>8, <1>9

\* Two codes whose totals differ after n symbols and whose later data symbols are
\* the same have check values that differ.
LEMMA DifferenceLasts ==
  ASSUME NEW v \in Codes, NEW w \in Codes
  PROVE  /\ T1(v) # T1(w) /\ v[2] = w[2] => T2(v) # T2(w)
         /\ T2(v) # T2(w) /\ v[3] = w[3] => T3(v) # T3(w)
         /\ T3(v) # T3(w) /\ v[4] = w[4] => T4(v) # T4(w)
         /\ T4(v) # T4(w) /\ v[5] = w[5] => T5(v) # T5(w)
         /\ T5(v) # T5(w) /\ v[6] = w[6] => T6(v) # T6(w)
         /\ T6(v) # T6(w) /\ v[7] = w[7] => T7(v) # T7(w)
<1>0. \A i \in 1..8 : w[i] \in Symbols
  BY DEF Codes, SHORTID_TOTAL_SYMBOLS
<1>1. T1(v) # T1(w) /\ v[2] = w[2] => T2(v) # T2(w)
  BY <1>0, TotalsAreResidues, TotalsStayApart DEF T2
<1>2. T2(v) # T2(w) /\ v[3] = w[3] => T3(v) # T3(w)
  BY <1>0, TotalsAreResidues, TotalsStayApart DEF T3
<1>3. T3(v) # T3(w) /\ v[4] = w[4] => T4(v) # T4(w)
  BY <1>0, TotalsAreResidues, TotalsStayApart DEF T4
<1>4. T4(v) # T4(w) /\ v[5] = w[5] => T5(v) # T5(w)
  BY <1>0, TotalsAreResidues, TotalsStayApart DEF T5
<1>5. T5(v) # T5(w) /\ v[6] = w[6] => T6(v) # T6(w)
  BY <1>0, TotalsAreResidues, TotalsStayApart DEF T6
<1>6. T6(v) # T6(w) /\ v[7] = w[7] => T7(v) # T7(w)
  BY <1>0, TotalsAreResidues, TotalsStayApart DEF T7
<1>7. QED BY <1>1, <1>2, <1>3, <1>4, <1>5, <1>6

\* A short ID with one symbol wrong, the check symbol included, does not check
\* (shortid.c:98), whatever the ID and the wrong symbol are.
THEOREM OneWrongSymbolIsRefused ==
  ASSUME NEW v \in Codes, CheckHolds(v),
         NEW i \in 1..SHORTID_TOTAL_SYMBOLS, NEW x \in Symbols, x # v[i]
  PROVE  ~CheckHolds([v EXCEPT ![i] = x])
<1> DEFINE w == [v EXCEPT ![i] = x]
<1>1. w \in Codes
  BY DEF Codes
<1>2. \A j \in 1..8 : w[j] = IF j = i THEN x ELSE v[j]
  BY DEF Codes, SHORTID_TOTAL_SYMBOLS
<1>3. \A j \in 1..8 : v[j] \in Symbols
  BY DEF Codes, SHORTID_TOTAL_SYMBOLS
<1>4. v[8] = T7(v) /\ (CheckHolds(w) <=> w[8] = T7(w))
  BY <1>1, TotalsAreResidues DEF CheckHolds, SHORTID_TOTAL_SYMBOLS
<1> HIDE DEF w
<1>5. CASE i = 1
  <2>1. T0(w) = T0(v)
    BY <1>2, <1>5 DEF T0
  <2>2. T1(w) # T1(v)
    BY <1>1, <1>2, <1>3, <1>5, <2>1, TotalsAreResidues, SymbolsAreTold DEF T1
  <2>3. T7(w) # T7(v)
    BY <1>1, <1>2, <1>5, <2>2, DifferenceLasts
  <2>4. QED BY <1>2, <1>4, <1>5, <2>3 DEF w
<1>6. CASE i = 2
  <2>1. T1(w) = T1(v)
    BY <1>2, <1>6 DEF T0, T1
  <2>2. T2(w) # T2(v)
    BY <1>1, <1>2, <1>3, <1>6, <2>1, TotalsAreResidues, SymbolsAreTold DEF T2
  <2>3. T7(w) # T7(v)
    BY <1>1, <1>2, <1>6, <2>2, DifferenceLasts
  <2>4. QED BY <1>2, <1>4, <1>6, <2>3 DEF w
<1>7. CASE i = 3
  <2>1. T2(w) = T2(v)
    BY <1>2, <1>7 DEF T0, T1, T2
  <2>2. T3(w) # T3(v)
    BY <1>1, <1>2, <1>3, <1>7, <2>1, TotalsAreResidues, SymbolsAreTold DEF T3
  <2>3. T7(w) # T7(v)
    BY <1>1, <1>2, <1>7, <2>2, DifferenceLasts
  <2>4. QED BY <1>2, <1>4, <1>7, <2>3 DEF w
<1>8. CASE i = 4
  <2>1. T3(w) = T3(v)
    BY <1>2, <1>8 DEF T0, T1, T2, T3
  <2>2. T4(w) # T4(v)
    BY <1>1, <1>2, <1>3, <1>8, <2>1, TotalsAreResidues, SymbolsAreTold DEF T4
  <2>3. T7(w) # T7(v)
    BY <1>1, <1>2, <1>8, <2>2, DifferenceLasts
  <2>4. QED BY <1>2, <1>4, <1>8, <2>3 DEF w
<1>9. CASE i = 5
  <2>1. T4(w) = T4(v)
    BY <1>2, <1>9 DEF T0, T1, T2, T3, T4
  <2>2. T5(w) # T5(v)
    BY <1>1, <1>2, <1>3, <1>9, <2>1, TotalsAreResidues, SymbolsAreTold DEF T5
  <2>3. T7(w) # T7(v)
    BY <1>1, <1>2, <1>9, <2>2, DifferenceLasts
  <2>4. QED BY <1>2, <1>4, <1>9, <2>3 DEF w
<1>10. CASE i = 6
  <2>1. T5(w) = T5(v)
    BY <1>2, <1>10 DEF T0, T1, T2, T3, T4, T5
  <2>2. T6(w) # T6(v)
    BY <1>1, <1>2, <1>3, <1>10, <2>1, TotalsAreResidues, SymbolsAreTold DEF T6
  <2>3. T7(w) # T7(v)
    BY <1>1, <1>2, <1>10, <2>2, DifferenceLasts
  <2>4. QED BY <1>2, <1>4, <1>10, <2>3 DEF w
<1>11. CASE i = 7
  <2>1. T6(w) = T6(v)
    BY <1>2, <1>11 DEF T0, T1, T2, T3, T4, T5, T6
  <2>2. T7(w) # T7(v)
    BY <1>1, <1>2, <1>3, <1>11, <2>1, TotalsAreResidues, SymbolsAreTold DEF T7
  <2>3. T7(w) # T7(v)
    BY <1>1, <1>2, <1>11, <2>2, DifferenceLasts
  <2>4. QED BY <1>2, <1>4, <1>11, <2>3 DEF w
<1>12. CASE i = 8
  <2>1. T7(w) = T7(v)
    BY <1>2, <1>12 DEF T0, T1, T2, T3, T4, T5, T6, T7
  <2>2. QED BY <1>2, <1>4, <1>12, <2>1 DEF w
<1>13. QED
  BY <1>5, <1>6, <1>7, <1>8, <1>9, <1>10, <1>11, <1>12 DEF w, SHORTID_TOTAL_SYMBOLS

\* Nor does one with two neighbours swapped, the check symbol and the data symbol
\* before it included.
THEOREM OneSwapIsRefused ==
  ASSUME NEW v \in Codes, CheckHolds(v),
         NEW i \in 1..SHORTID_DATA_SYMBOLS, v[i] # v[i + 1]
  PROVE  ~CheckHolds([v EXCEPT ![i] = v[i + 1], ![i + 1] = v[i]])
<1> DEFINE w == [v EXCEPT ![i] = v[i + 1], ![i + 1] = v[i]]
<1>0. i \in 1..7
  BY DEF SHORTID_DATA_SYMBOLS
<1>1. w \in Codes
  BY <1>0 DEF Codes, SHORTID_TOTAL_SYMBOLS
<1>2. \A j \in 1..8 : w[j] = IF j = i + 1 THEN v[i] ELSE IF j = i THEN v[i + 1] ELSE v[j]
  BY <1>0 DEF Codes, SHORTID_TOTAL_SYMBOLS
<1>3. \A j \in 1..8 : v[j] \in Symbols
  BY DEF Codes, SHORTID_TOTAL_SYMBOLS
<1>4. v[8] = T7(v) /\ (CheckHolds(w) <=> w[8] = T7(w))
  BY <1>1, TotalsAreResidues DEF CheckHolds, SHORTID_TOTAL_SYMBOLS
<1> HIDE DEF w
<1>5. CASE i = 1
  <2>0. w[1] = v[2] /\ w[2] = v[1] /\ v[1] # v[2]
    BY <1>2, <1>5
  <2>1. T0(w) = T0(v)
    BY <1>2, <1>5 DEF T0
  <2>2. T2(w) # T2(v)
    BY <1>1, <1>3, <2>0, <2>1, TotalsAreResidues, SwapIsTold DEF T1, T2
  <2>3. T7(w) # T7(v)
    BY <1>1, <1>2, <1>5, <2>2, DifferenceLasts
  <2>4. QED BY <1>2, <1>4, <1>5, <2>3 DEF w
<1>6. CASE i = 2
  <2>0. w[2] = v[3] /\ w[3] = v[2] /\ v[2] # v[3]
    BY <1>2, <1>6
  <2>1. T1(w) = T1(v)
    BY <1>2, <1>6 DEF T0, T1
  <2>2. T3(w) # T3(v)
    BY <1>1, <1>3, <2>0, <2>1, TotalsAreResidues, SwapIsTold DEF T2, T3
  <2>3. T7(w) # T7(v)
    BY <1>1, <1>2, <1>6, <2>2, DifferenceLasts
  <2>4. QED BY <1>2, <1>4, <1>6, <2>3 DEF w
<1>7. CASE i = 3
  <2>0. w[3] = v[4] /\ w[4] = v[3] /\ v[3] # v[4]
    BY <1>2, <1>7
  <2>1. T2(w) = T2(v)
    BY <1>2, <1>7 DEF T0, T1, T2
  <2>2. T4(w) # T4(v)
    BY <1>1, <1>3, <2>0, <2>1, TotalsAreResidues, SwapIsTold DEF T3, T4
  <2>3. T7(w) # T7(v)
    BY <1>1, <1>2, <1>7, <2>2, DifferenceLasts
  <2>4. QED BY <1>2, <1>4, <1>7, <2>3 DEF w
<1>8. CASE i = 4
  <2>0. w[4] = v[5] /\ w[5] = v[4] /\ v[4] # v[5]
    BY <1>2, <1>8
  <2>1. T3(w) = T3(v)
    BY <1>2, <1>8 DEF T0, T1, T2, T3
  <2>2. T5(w) # T5(v)
    BY <1>1, <1>3, <2>0, <2>1, TotalsAreResidues, SwapIsTold DEF T4, T5
  <2>3. T7(w) # T7(v)
    BY <1>1, <1>2, <1>8, <2>2, DifferenceLasts
  <2>4. QED BY <1>2, <1>4, <1>8, <2>3 DEF w
<1>9. CASE i = 5
  <2>0. w[5] = v[6] /\ w[6] = v[5] /\ v[5] # v[6]
    BY <1>2, <1>9
  <2>1. T4(w) = T4(v)
    BY <1>2, <1>9 DEF T0, T1, T2, T3, T4
  <2>2. T6(w) # T6(v)
    BY <1>1, <1>3, <2>0, <2>1, TotalsAreResidues, SwapIsTold DEF T5, T6
  <2>3. T7(w) # T7(v)
    BY <1>1, <1>2, <1>9, <2>2, DifferenceLasts
  <2>4. QED BY <1>2, <1>4, <1>9, <2>3 DEF w
<1>10. CASE i = 6
  <2>0. w[6] = v[7] /\ w[7] = v[6] /\ v[6] # v[7]
    BY <1>2, <1>10
  <2>1. T5(w) = T5(v)
    BY <1>2, <1>10 DEF T0, T1, T2, T3, T4, T5
  <2>2. T7(w) # T7(v)
    BY <1>1, <1>3, <2>0, <2>1, TotalsAreResidues, SwapIsTold DEF T6, T7
  <2>3. T7(w) # T7(v)
    BY <1>1, <1>2, <1>10, <2>2, DifferenceLasts
  <2>4. QED BY <1>2, <1>4, <1>10, <2>3 DEF w
<1>11. CASE i = 7
  <2>0. w[7] = v[8] /\ w[8] = v[7] /\ v[7] # v[8]
    BY <1>2, <1>11
  <2>1. T6(w) = T6(v)
    BY <1>2, <1>11 DEF T0, T1, T2, T3, T4, T5, T6
  <2>2. v[8] = CheckStep(T6(v), v[7]) /\ T7(w) = CheckStep(T6(v), v[8])
    BY <1>4, <2>0, <2>1 DEF T7
  <2>3. v[7] # CheckStep(T6(v), v[8])
    BY <1>3, <2>0, <2>2, TotalsAreResidues, CheckSwapIsTold
  <2>4. QED BY <1>4, <2>0, <2>2, <2>3 DEF w
<1>12. QED
  BY <1>0, <1>5, <1>6, <1>7, <1>8, <1>9, <1>10, <1>11 DEF w
-----------------------------------------------------------------------------
(* Texts.                                                                  *)

\* The first and the last character that is no white space are at f and at l.
Ends(t, f, l) ==
  /\ f \in 1..Len(t) /\ l \in f..Len(t)
  /\ t[f] \notin Spaces /\ t[l] \notin Spaces
  /\ \A i \in 1..(f - 1) : t[i] \in Spaces
  /\ \A i \in (l + 1)..Len(t) : t[i] \in Spaces

AllSpace(t) == \A i \in 1..Len(t) : t[i] \in Spaces

LEMMA TrimOfSpace ==
  ASSUME NEW t \in Seq(Nat), AllSpace(t)
  PROVE  Trim(t) = <<>>
BY LenProperties DEF AllSpace, Trim

LEMMA EndsExist ==
  ASSUME NEW t \in Seq(Nat), ~AllSpace(t)
  PROVE  \E f, l \in Nat : Ends(t, f, l)
<1> DEFINE kept == {i \in 1..Len(t) : t[i] \notin Spaces}
<1>1. Len(t) \in Nat
  BY LenProperties
<1>2. kept # {} /\ kept \in SUBSET Nat /\ kept \in SUBSET 0..Len(t)
  BY <1>1 DEF AllSpace
<1>3. PICK f \in kept : \A i \in kept : f <= i
  BY <1>2, LeastMember
<1>4. PICK l \in kept : \A i \in kept : l >= i
  BY <1>1, <1>2, GreatestMember
<1>5. Ends(t, f, l)
  BY <1>1, <1>3, <1>4 DEF Ends
<1>6. QED
  BY <1>1, <1>3, <1>4, <1>5

LEMMA TrimIs ==
  ASSUME NEW t \in Seq(Nat), NEW f \in Nat, NEW l \in Nat, Ends(t, f, l)
  PROVE  Trim(t) = SubSeq(t, f, l)
<1> DEFINE kept == {i \in DOMAIN t : t[i] \notin Spaces}
           first == CHOOSE i \in kept : \A j \in kept : i <= j
           last == CHOOSE i \in kept : \A j \in kept : i >= j
<1>1. Len(t) \in Nat /\ DOMAIN t = 1..Len(t)
  BY LenProperties
<1>2. f \in kept /\ l \in kept /\ kept \subseteq Nat
  BY <1>1 DEF Ends
<1>3. (\A j \in kept : f <= j) /\ (\A j \in kept : l >= j)
  BY <1>1 DEF Ends
<1>4. kept # {} /\ Trim(t) = SubSeq(t, first, last)
  BY <1>2 DEF Trim
<1> HIDE DEF kept
<1>5. first \in kept /\ \A j \in kept : first <= j
  BY <1>2, <1>3
<1>6. last \in kept /\ \A j \in kept : last >= j
  BY <1>2, <1>3
<1> HIDE DEF first, last
<1>7. first = f /\ last = l
  BY <1>2, <1>3, <1>5, <1>6
<1>8. QED
  BY <1>4, <1>7

\* The last divider is at d, or there is none and d is 0.
LastDivider(t, dividers, d) ==
  /\ d \in 0..Len(t)
  /\ d > 0 => t[d] \in dividers
  /\ \A i \in (d + 1)..Len(t) : t[i] \notin dividers

LEMMA LastDividerExists ==
  ASSUME NEW t \in Seq(Nat), NEW dividers
  PROVE  \E d \in Nat : LastDivider(t, dividers, d)
<1> DEFINE divider == {0} \cup {i \in 1..Len(t) : t[i] \in dividers}
<1>1. Len(t) \in Nat
  BY LenProperties
<1>2. divider # {} /\ divider \in SUBSET 0..Len(t)
  BY <1>1
<1>3. PICK d \in divider : \A i \in divider : d >= i
  BY <1>1, <1>2, GreatestMember
<1>4. d \in 0..Len(t) /\ d \in Nat
  BY <1>1, <1>3
<1>5. \A i \in (d + 1)..Len(t) : t[i] \notin dividers
  <2> SUFFICES ASSUME NEW i \in (d + 1)..Len(t), t[i] \in dividers PROVE FALSE
    OBVIOUS
  <2>1. i \in divider
    BY <1>1, <1>4
  <2>2. QED
    BY <1>1, <1>3, <1>4, <2>1
<1>6. d > 0 => t[d] \in dividers
  BY <1>3, <1>4
<1>7. QED
  BY <1>4, <1>5, <1>6 DEF LastDivider

LEMMA AfterIs ==
  ASSUME NEW t \in Seq(Nat), NEW dividers, NEW d \in Nat, LastDivider(t, dividers, d)
  PROVE  After(t, dividers) = SubSeq(t, d + 1, Len(t))
<1> DEFINE divider == {0} \cup {i \in DOMAIN t : t[i] \in dividers}
           last == CHOOSE i \in divider : \A j \in divider : i >= j
<1>1. Len(t) \in Nat /\ DOMAIN t = 1..Len(t)
  BY LenProperties
<1>2. d \in divider /\ divider \subseteq Nat /\ \A j \in divider : d >= j
  BY <1>1 DEF LastDivider
<1>3. After(t, dividers) = SubSeq(t, 1 + last, Len(t))
  BY DEF After
<1> HIDE DEF divider
<1>4. last \in divider /\ \A j \in divider : last >= j
  BY <1>2
<1> HIDE DEF last
<1>5. last = d
  BY <1>2, <1>4
<1>6. QED
  BY <1>3, <1>5

\* t is g and then h.
Joined(t, g, h) ==
  /\ t \in Seq(Nat) /\ Len(t) = Len(g) + Len(h) /\ Len(g) \in Nat /\ Len(h) \in Nat
  /\ \A i \in 1..Len(g) : t[i] = g[i]
  /\ \A i \in 1..Len(h) : t[Len(g) + i] = h[i]

LEMMA ConcatTwo ==
  ASSUME NEW g \in Seq(Nat), NEW h \in Seq(Nat)
  PROVE  Joined(g \o h, g, h)
<1> DEFINE whole == g \o h
<1>1. Len(g) \in Nat /\ Len(h) \in Nat
  BY LenProperties
<1>2. /\ whole \in Seq(Nat) /\ Len(whole) = Len(g) + Len(h)
      /\ \A i \in 1..(Len(g) + Len(h)) :
           whole[i] = IF i <= Len(g) THEN g[i] ELSE h[i - Len(g)]
  BY ConcatProperties, Zenon
<1> HIDE DEF whole
<1>3. \A i \in 1..Len(g) : whole[i] = g[i]
  BY <1>1, <1>2
<1>4. ASSUME NEW i \in 1..Len(h) PROVE whole[Len(g) + i] = h[i]
  <2>1. /\ Len(g) + i \in 1..(Len(g) + Len(h)) /\ ~(Len(g) + i <= Len(g))
        /\ (Len(g) + i) - Len(g) = i
    BY <1>1
  <2>2. whole[Len(g) + i] = h[(Len(g) + i) - Len(g)]
    BY <1>2, <2>1, Zenon
  <2>3. QED
    BY <2>1, <2>2
<1>5. Joined(whole, g, h)
  BY <1>1, <1>2, <1>3, <1>4 DEF Joined
<1>6. QED
  BY <1>5 DEF whole

\* A part of a text.
LEMMA PartIs ==
  ASSUME NEW t \in Seq(Nat), NEW a \in Nat \ {0}, NEW b \in Nat, b <= Len(t), a <= b + 1
  PROVE  /\ SubSeq(t, a, b) \in Seq(Nat) /\ Len(SubSeq(t, a, b)) = b + 1 - a
         /\ \A i \in 1..(b + 1 - a) : SubSeq(t, a, b)[i] = t[a - 1 + i]
<1> DEFINE part == SubSeq(t, a, b)
<1>1. \A i \in a..b : t[i] \in Nat
  BY ElementOfSeq, LenProperties
<1>2. /\ part \in Seq(Nat) /\ Len(part) = IF a <= b THEN b - a + 1 ELSE 0
      /\ \A i \in 1..(b - a + 1) : part[i] = t[a + i - 1]
  BY <1>1, SubSeqProperties
<1> HIDE DEF part
<1>3. Len(part) = b + 1 - a
  BY <1>2
<1>4. ASSUME NEW i \in 1..(b + 1 - a) PROVE part[i] = t[a - 1 + i]
  <2>1. i \in 1..(b - a + 1) /\ a + i - 1 = a - 1 + i
    OBVIOUS
  <2>2. QED
    BY <1>2, <2>1
<1>5. QED
  BY <1>2, <1>3, <1>4 DEF part

\* What follows n characters of a text.
LEMMA EndIs ==
  ASSUME NEW t \in Seq(Nat), NEW c \in Seq(Nat), NEW n \in Nat,
         Len(t) = n + Len(c), \A i \in 1..Len(c) : t[n + i] = c[i]
  PROVE  SubSeq(t, n + 1, Len(t)) = c
<1> DEFINE a == n + 1
           part == SubSeq(t, a, Len(t))
<1>1. a \in Nat \ {0} /\ Len(t) \in Nat /\ Len(t) <= Len(t) /\ a <= Len(t) + 1
  BY LenProperties
<1> HIDE DEF a
<1>2. /\ part \in Seq(Nat) /\ Len(part) = Len(t) + 1 - a
      /\ \A i \in 1..(Len(t) + 1 - a) : part[i] = t[a - 1 + i]
  BY <1>1, PartIs, Zenon
<1> HIDE DEF part
<1>3. Len(t) + 1 - a = Len(c) /\ a - 1 = n
  BY <1>1, LenProperties DEF a
<1>4. part = c
  BY <1>2, <1>3, SeqEqual
<1>5. QED
  BY <1>4 DEF part, a

\* A text that is trimmed is one.
LEMMA TrimIsText ==
  ASSUME NEW t \in Seq(Nat)
  PROVE  Trim(t) \in Seq(Nat)
<1>1. CASE AllSpace(t)
  BY <1>1, TrimOfSpace, EmptySeq
<1>2. CASE ~AllSpace(t)
  <2>1. PICK f, l \in Nat : Ends(t, f, l)
    BY <1>2, EndsExist
  <2>2. f \in Nat \ {0} /\ l <= Len(t) /\ f <= l + 1
    BY <2>1, LenProperties DEF Ends
  <2>3. QED
    BY <2>1, <2>2, TrimIs, PartIs
<1>3. QED
  BY <1>1, <1>2
-----------------------------------------------------------------------------
(* Codes in URIs.                                                          *)

Mark == <<Slash, 115, Slash>>

LEMMA MarkIs ==
  /\ Mark \in Seq(Nat) /\ Len(Mark) = 3
  /\ Mark[1] = Slash /\ Mark[2] = 115 /\ Mark[3] = Slash
  /\ Slash \in Nat /\ Slash # 115
BY DEF Mark, Slash

\* At the end of the text, behind n characters of which the last are a mark, is
\* the code; a slash may follow.
CodeAtEnd(t, n, code) ==
  /\ n >= 3 /\ Len(code) \in Nat /\ Len(t) \in {n + Len(code), n + Len(code) + 1}
  /\ t[n] = Slash /\ t[n - 1] = 115 /\ t[n - 2] = Slash
  /\ \A i \in 1..Len(code) : t[n + i] = code[i]
  /\ Len(t) = n + Len(code) + 1 => t[Len(t)] = Slash

\* Then the code is found, if it is a segment.
LEMMA CodeIsFound ==
  ASSUME NEW u \in Seq(Nat), NEW n \in Nat, NEW code \in Seq(Nat), IsSegment(code),
         CodeAtEnd(Trim(u), n, code)
  PROVE  CodeOfUri(u) = code
<1> DEFINE whole == Trim(u)
           b == n + Len(code)
           body == WithoutSlash(whole)
<1>1. whole \in Seq(Nat)
  BY TrimIsText
<1>2. /\ Len(code) \in 1..(CODE_MAX - 1) /\ Len(code) \in Nat /\ Len(code) \in 1..Len(code)
      /\ \A i \in 1..Len(code) : code[i] \notin {Slash, 63, 35}
  BY LenProperties DEF IsSegment
<1>3. CodeAtEnd(whole, n, code)
  OBVIOUS
<1> HIDE DEF whole
<1>4. /\ n >= 3 /\ b \in Nat /\ Len(whole) \in {b, b + 1}
      /\ whole[n] = Slash /\ whole[n - 1] = 115 /\ whole[n - 2] = Slash
      /\ \A i \in 1..Len(code) : whole[n + i] = code[i]
      /\ Len(whole) = b + 1 => whole[Len(whole)] = Slash
  BY <1>2, <1>3 DEF CodeAtEnd
<1>5. whole # <<>>
  BY <1>2, <1>4, <1>1, EmptySeq
<1>6. /\ body \in Seq(Nat) /\ Len(body) = b
      /\ \A i \in 1..b : body[i] = whole[i]
  <2>1. CASE Len(whole) = b
    <3>0. whole[b] = code[Len(code)]
      BY <1>2, <1>4, Zenon
    <3>1. whole[Len(whole)] = code[Len(code)]
      BY <2>1, <3>0
    <3>2. whole[Len(whole)] # Slash
      BY <1>2, <3>1
    <3>3. body = whole
      BY <3>2 DEF WithoutSlash
    <3>4. QED
      BY <1>1, <2>1, <3>3
  <2>2. CASE Len(whole) = b + 1
    <3> DEFINE part == SubSeq(whole, 1, b)
    <3>1. whole[Len(whole)] = Slash /\ b + 1 - 1 = b
      BY <1>4, <2>2
    <3>2. body = part
      BY <1>5, <2>2, <3>1 DEF WithoutSlash
    <3>3. part \in Seq(Nat) /\ Len(part) = b /\ \A i \in 1..b : part[i] = whole[i]
      BY <1>1, <1>4, <2>2, PartIs, SMTT(30)
    <3>4. QED
      BY <3>2, <3>3
  <2>3. QED
    BY <1>4, <2>1, <2>2
<1> HIDE DEF body
<1>7. /\ body[n] = Slash /\ body[n - 1] = 115 /\ body[n - 2] = Slash
      /\ \A i \in 1..Len(code) : body[n + i] = code[i]
  <2>1. n \in 1..b /\ n - 1 \in 1..b /\ n - 2 \in 1..b
    BY <1>2, <1>4
  <2>2. \A i \in 1..Len(code) : n + i \in 1..b
    BY <1>2, <1>4
  <2>3. QED
    BY <1>4, <1>6, <2>1, <2>2, ZenonT(30)
<1>8. LastDivider(body, {Slash}, n)
  <2>1. n \in 0..Len(body)
    BY <1>2, <1>4, <1>6
  <2>2. ASSUME NEW i \in (n + 1)..Len(body) PROVE body[i] \notin {Slash}
    <3>1. i - n \in 1..Len(code) /\ n + (i - n) = i
      BY <1>2, <1>6
    <3>2. body[i] = code[i - n]
      BY <3>1, <1>7
    <3>3. QED
      BY <3>1, <3>2, <1>2
  <2>3. QED
    BY <1>7, <2>1, <2>2 DEF LastDivider
<1>9. After(body, {Slash}) = code
  <2>1. After(body, {Slash}) = SubSeq(body, n + 1, Len(body))
    BY <1>6, <1>8, AfterIs
  <2>2. SubSeq(body, n + 1, Len(body)) = code
    BY <1>6, <1>7, EndIs
  <2>3. QED
    BY <2>1, <2>2
<1>10. Len(body) - Len(code) = n
  BY <1>2, <1>6
<1>11. \A i \in DOMAIN code : code[i] \notin {63, 35}
  BY <1>2, LenProperties
<1>12. WithoutSlash(Trim(u)) = body
  BY DEF body, whole
<1>13. QED
  BY <1>2, <1>4, <1>7, <1>9, <1>10, <1>11, <1>12 DEF CodeOfUri

\* What may follow the code.
LEMMA TailIs ==
  ASSUME NEW tail \in {<<>>, <<Slash>>}
  PROVE  /\ tail \in Seq(Nat) /\ Len(tail) \in {0, 1}
         /\ \A i \in 1..Len(tail) : tail[i] = Slash
<1>1. CASE tail = <<>>
  BY <1>1, EmptySeq
<1>2. CASE tail = <<Slash>>
  <2>1. <<Slash>> \in Seq(Nat) /\ Len(<<Slash>>) = 1 /\ <<Slash>>[1] = Slash
    BY MarkIs
  <2>2. QED
    BY <1>2, <2>1
<1>3. QED
  BY <1>1, <1>2

\* A text laid together from what the rule names ends in the code.
LEMMA LaidTogether ==
  ASSUME NEW h \in Seq(Nat), NEW code \in Seq(Nat), NEW tail \in Seq(Nat),
         Len(tail) \in {0, 1}, \A i \in 1..Len(tail) : tail[i] = Slash
  PROVE  CodeAtEnd(h \o Mark \o code \o tail, Len(h) + 3, code)
<1> DEFINE front == h \o Mark
           body == front \o code
           whole == body \o tail
           n == Len(h) + 3
<1>1. Joined(front, h, Mark)
  BY MarkIs, ConcatTwo
<1>2. Joined(body, front, code)
  BY <1>1, ConcatTwo DEF Joined
<1>3. Joined(whole, body, tail)
  BY <1>2, ConcatTwo DEF Joined
<1> HIDE DEF front, body, whole
<1>4. Len(front) = n /\ Len(body) = n + Len(code) /\ Len(whole) = Len(body) + Len(tail)
  BY <1>1, <1>2, <1>3, MarkIs DEF Joined
<1>5. Len(h) \in Nat /\ Len(code) \in Nat /\ Len(front) \in Nat /\ Len(body) \in Nat
  BY <1>1, <1>2, <1>3 DEF Joined
<1>6. \A i \in 1..Len(front) : whole[i] = front[i]
  <2>1. \A i \in 1..Len(front) : i \in 1..Len(body)
    BY <1>4, <1>5
  <2>2. QED
    BY <2>1, <1>2, <1>3, Zenon DEF Joined
<1>7. whole[n] = Slash /\ whole[n - 1] = 115 /\ whole[n - 2] = Slash
  <2>1. n - 1 = Len(h) + 2 /\ n - 2 = Len(h) + 1
    BY <1>5
  <2>2. /\ front[Len(h) + 1] = Slash /\ front[Len(h) + 2] = 115
        /\ front[Len(h) + 3] = Slash
    BY <1>1, MarkIs DEF Joined
  <2>3. n \in 1..Len(front) /\ n - 1 \in 1..Len(front) /\ n - 2 \in 1..Len(front)
    BY <1>4, <1>5
  <2>4. QED
    BY <1>6, <2>1, <2>2, <2>3, ZenonT(30)
<1>8. \A i \in 1..Len(code) : whole[n + i] = code[i]
  <2>1. \A i \in 1..Len(code) : n + i \in 1..Len(body)
    BY <1>4, <1>5
  <2>2. \A i \in 1..Len(code) : body[n + i] = code[i]
    BY <1>2, <1>4, Zenon DEF Joined
  <2>3. QED
    BY <2>1, <2>2, <1>3, Zenon DEF Joined
<1>9. Len(whole) = n + Len(code) + 1 => whole[Len(whole)] = Slash
  <2> HAVE Len(whole) = n + Len(code) + 1
  <2>1. Len(tail) = 1 /\ Len(body) + 1 = Len(whole)
    BY <1>4, <1>5
  <2>2. 1 \in 1..Len(tail)
    BY <2>1
  <2>3. whole[Len(body) + 1] = tail[1] /\ tail[1] = Slash
    BY <2>2, <1>3, Zenon DEF Joined
  <2>4. QED
    BY <2>1, <2>3
<1>10. CodeAtEnd(whole, n, code)
  <2>1. n >= 3
    BY <1>5
  <2>2. Len(whole) \in {n + Len(code), n + Len(code) + 1}
    <3>1. CASE Len(tail) = 0
      BY <1>4, <1>5, <3>1
    <3>2. CASE Len(tail) = 1
      BY <1>4, <1>5, <3>2
    <3>3. QED
      BY <3>1, <3>2
  <2>3. QED
    BY <1>5, <1>7, <1>8, <1>9, <2>1, <2>2, Zenon DEF CodeAtEnd
<1>11. QED
  BY <1>10 DEF whole, body, front

\* And a text that ends in the code can be laid together so.
Laid(t, code) ==
  \E m \in 0..Len(t), tail \in {<<>>, <<Slash>>} :
    t = SubSeq(t, 1, m) \o <<Slash, 115, Slash>> \o code \o tail

LEMMA LaidApart ==
  ASSUME NEW t \in Seq(Nat), NEW n \in Nat, NEW code \in Seq(Nat), CodeAtEnd(t, n, code)
  PROVE  Laid(t, code)
<1> DEFINE h == SubSeq(t, 1, n - 3)
           tail == IF Len(t) = n + Len(code) THEN <<>> ELSE <<Slash>>
           front == h \o Mark
           body == front \o code
           whole == body \o tail
<1>0. /\ n >= 3 /\ Len(t) \in Nat /\ Len(code) \in Nat
      /\ Len(t) \in {n + Len(code), n + Len(code) + 1}
      /\ t[n] = Slash /\ t[n - 1] = 115 /\ t[n - 2] = Slash
      /\ \A i \in 1..Len(code) : t[n + i] = code[i]
      /\ Len(t) = n + Len(code) + 1 => t[Len(t)] = Slash
  BY LenProperties DEF CodeAtEnd
<1>1. h \in Seq(Nat) /\ Len(h) = n - 3 /\ \A i \in 1..(n - 3) : h[i] = t[i]
  BY <1>0, PartIs
<1>2. /\ tail \in {<<>>, <<Slash>>} /\ tail \in Seq(Nat)
      /\ Len(t) = n + Len(code) + Len(tail) /\ \A i \in 1..Len(tail) : tail[i] = Slash
  <2>1. tail \in {<<>>, <<Slash>>}
    OBVIOUS
  <2>2. tail \in Seq(Nat) /\ \A i \in 1..Len(tail) : tail[i] = Slash
    BY <2>1, TailIs
  <2>3. Len(tail) = IF Len(t) = n + Len(code) THEN 0 ELSE 1
    OBVIOUS
  <2>4. QED
    BY <1>0, <2>1, <2>2, <2>3
<1> HIDE DEF h, tail
<1>3. Joined(front, h, Mark)
  BY <1>1, MarkIs, ConcatTwo
<1>4. Joined(body, front, code)
  BY <1>3, ConcatTwo DEF Joined
<1>5. Joined(whole, body, tail)
  BY <1>2, <1>4, ConcatTwo DEF Joined
<1> HIDE DEF front, body, whole
<1>6. /\ Len(front) = n /\ Len(body) = n + Len(code) /\ Len(whole) = Len(t)
      /\ Len(tail) \in Nat /\ whole \in Seq(Nat)
  BY <1>0, <1>1, <1>2, <1>3, <1>4, <1>5, MarkIs DEF Joined
<1>7. ASSUME NEW i \in 1..n PROVE whole[i] = t[i]
  <2>1. front[i] = t[i]
    <3>1. CASE i <= n - 3
      <4>1. i \in 1..Len(h)
        BY <1>0, <1>1, <3>1
      <4>2. QED
        BY <4>1, <1>1, <1>3 DEF Joined
    <3>2. CASE i > n - 3
      <4>1. Len(h) + 1 = n - 2 /\ Len(h) + 2 = n - 1 /\ Len(h) + 3 = n
        BY <1>0, <1>1
      <4>2. /\ front[Len(h) + 1] = Slash /\ front[Len(h) + 2] = 115
            /\ front[Len(h) + 3] = Slash
        BY <1>3, MarkIs DEF Joined
      <4>3. i \in {n - 2, n - 1, n}
        BY <1>0, <3>2
      <4>4. QED
        BY <1>0, <4>1, <4>2, <4>3
    <3>3. QED
      BY <1>0, <3>1, <3>2
  <2>2. body[i] = front[i]
    BY <1>4, <1>6 DEF Joined
  <2>3. i \in 1..Len(body)
    BY <1>0, <1>6
  <2>4. whole[i] = body[i]
    BY <2>3, <1>5 DEF Joined
  <2>5. QED
    BY <2>1, <2>2, <2>4
<1>8. ASSUME NEW i \in 1..Len(code) PROVE whole[n + i] = t[n + i]
  <2>1. body[n + i] = code[i]
    BY <1>4, <1>6 DEF Joined
  <2>2. n + i \in 1..Len(body)
    BY <1>0, <1>6
  <2>3. whole[n + i] = body[n + i]
    BY <2>2, <1>5 DEF Joined
  <2>4. QED
    BY <1>0, <2>1, <2>3
<1>9. ASSUME NEW i \in 1..Len(tail) PROVE whole[n + Len(code) + i] = t[n + Len(code) + i]
  <2>1. whole[n + Len(code) + i] = Slash
    BY <1>2, <1>5, <1>6 DEF Joined
  <2>2. n + Len(code) + i = Len(t) /\ Len(t) = n + Len(code) + 1
    <3>1. Len(tail) = 1
      BY <1>0, <1>2, <1>6
    <3>2. i = 1
      BY <3>1
    <3>3. QED
      BY <1>0, <1>2, <3>1, <3>2
  <2>3. QED
    BY <1>0, <2>1, <2>2
<1>10. ASSUME NEW i \in 1..Len(t) PROVE whole[i] = t[i]
  <2>1. \/ i \in 1..n
        \/ i - n \in 1..Len(code) /\ n + (i - n) = i
        \/ i - (n + Len(code)) \in 1..Len(tail) /\ n + Len(code) + (i - (n + Len(code))) = i
    BY <1>0, <1>2, <1>6
  <2>2. QED
    BY <2>1, <1>7, <1>8, <1>9, Zenon
<1>11. whole = t
  BY <1>6, <1>10, SeqEqual
<1>12. n - 3 \in 0..Len(t)
  BY <1>0
<1>13. t = SubSeq(t, 1, n - 3) \o <<Slash, 115, Slash>> \o code \o tail
  BY <1>11 DEF whole, body, front, h, Mark
<1>14. QED
  BY <1>2, <1>12, <1>13 DEF Laid

\* A code that is found is a segment at the end of the text.
LEMMA FoundAtEnd ==
  ASSUME NEW u \in Seq(Nat), CodeOfUri(u) # <<>>
  PROVE  /\ CodeOfUri(u) \in Seq(Nat) /\ IsSegment(CodeOfUri(u))
         /\ \E n \in Nat : CodeAtEnd(Trim(u), n, CodeOfUri(u))
<1> DEFINE whole == Trim(u)
           body == WithoutSlash(whole)
           code == After(body, {Slash})
           start == Len(body) - Len(code)
<1>1. whole \in Seq(Nat)
  BY TrimIsText
<1>2. /\ CodeOfUri(u) = code
      /\ start >= 3 /\ Len(code) \in 1..(CODE_MAX - 1)
      /\ body[start - 1] = 115 /\ body[start - 2] = Slash
      /\ \A i \in DOMAIN code : code[i] \notin {63, 35}
  BY DEF CodeOfUri
<1> HIDE DEF whole
<1>3. /\ body \in Seq(Nat) /\ Len(whole) \in {Len(body), Len(body) + 1} /\ Len(body) \in Nat
      /\ Len(whole) = Len(body) + 1 => whole[Len(whole)] = Slash
      /\ \A i \in 1..Len(body) : body[i] = whole[i]
  <2>1. CASE whole # <<>> /\ whole[Len(whole)] = Slash
    <3> DEFINE l == Len(whole) - 1
               part == SubSeq(whole, 1, l)
    <3>1. l \in Nat /\ l <= Len(whole) /\ Len(whole) = l + 1
      BY <1>1, <2>1, LenProperties, EmptySeq
    <3>2. body = part
      BY <2>1 DEF WithoutSlash
    <3> HIDE DEF l
    <3>3. part \in Seq(Nat) /\ Len(part) = l /\ \A i \in 1..l : part[i] = whole[i]
      BY <1>1, <3>1, PartIs
    <3>4. QED
      BY <2>1, <3>1, <3>2, <3>3
  <2>2. CASE ~(whole # <<>> /\ whole[Len(whole)] = Slash)
    <3>1. body = whole
      BY <2>2 DEF WithoutSlash
    <3>2. QED
      BY <1>1, <3>1, LenProperties
  <2>3. QED
    BY <2>1, <2>2
<1> HIDE DEF body
<1>4. PICK d \in Nat : LastDivider(body, {Slash}, d)
  BY <1>3, LastDividerExists
<1>5. d \in 0..Len(body) /\ d + 1 \in Nat \ {0} /\ d + 1 <= Len(body) + 1
  BY <1>3, <1>4 DEF LastDivider
<1>6. code = SubSeq(body, d + 1, Len(body))
  BY <1>3, <1>4, AfterIs
<1> HIDE DEF code
<1>7. /\ code \in Seq(Nat) /\ Len(code) = Len(body) - d
      /\ \A i \in 1..(Len(body) - d) : code[i] = body[d + i]
  <2> DEFINE a == d + 1
             part == SubSeq(body, a, Len(body))
  <2>1. a \in Nat \ {0} /\ a <= Len(body) + 1 /\ Len(body) <= Len(body)
    BY <1>3, <1>5
  <2> HIDE DEF a
  <2>2. /\ part \in Seq(Nat) /\ Len(part) = Len(body) + 1 - a
        /\ \A i \in 1..(Len(body) + 1 - a) : part[i] = body[a - 1 + i]
    BY <1>3, <2>1, PartIs
  <2> HIDE DEF part
  <2>3. Len(body) + 1 - a = Len(body) - d /\ a - 1 = d
    BY <1>3, <1>5 DEF a
  <2>4. code = part
    BY <1>6 DEF a, part
  <2>5. QED
    BY <2>2, <2>3, <2>4
<1>8. start = d /\ d >= 3 /\ Len(code) \in Nat /\ DOMAIN code = 1..Len(code)
  BY <1>2, <1>3, <1>5, <1>7, LenProperties
<1> HIDE DEF start
<1>9. body[d] = Slash /\ body[d - 1] = 115 /\ body[d - 2] = Slash
  BY <1>2, <1>4, <1>8 DEF LastDivider
<1>10. \A i \in 1..Len(code) : code[i] = whole[d + i] /\ code[i] # Slash
  <2> TAKE i \in 1..Len(code)
  <2>1. d + i \in (d + 1)..Len(body) /\ d + i \in 1..Len(body)
    BY <1>3, <1>5, <1>7
  <2>2. body[d + i] # Slash
    BY <2>1, <1>4 DEF LastDivider
  <2>3. QED
    BY <2>1, <2>2, <1>3, <1>7
<1>11. IsSegment(code)
  <2>1. \A i \in DOMAIN code : code[i] \notin {Slash, 63, 35}
    BY <1>2, <1>8, <1>10
  <2>2. QED
    BY <2>1, <1>2 DEF IsSegment
<1>12. CodeAtEnd(whole, d, code)
  <2>1. d \in 1..Len(body) /\ d - 1 \in 1..Len(body) /\ d - 2 \in 1..Len(body)
    BY <1>3, <1>5, <1>8
  <2>2. whole[d] = Slash /\ whole[d - 1] = 115 /\ whole[d - 2] = Slash
    BY <1>3, <1>9, <2>1
  <2>3. Len(body) = d + Len(code)
    BY <1>3, <1>5, <1>7
  <2>4. QED
    BY <1>3, <1>8, <1>10, <2>2, <2>3 DEF CodeAtEnd
<1>13. QED
  BY <1>2, <1>7, <1>11, <1>12 DEF whole

\* The URI is a text.
AddressCorrect == address \in Seq(Nat)

LEMMA AddressIsCorrect == UriSpec => []AddressCorrect
<1>1. UriInit => AddressCorrect
  BY UriAssumption DEF UriInit, AddressCorrect
<1>2. AddressCorrect /\ [UriNext]_uriVars => AddressCorrect'
  <2> SUFFICES ASSUME AddressCorrect, [UriNext]_uriVars PROVE address' \in Seq(Nat)
    BY DEF AddressCorrect
  <2>1. CASE UriNext
    <3>1. PICK c \in UriChars : address' = Append(address, c)
      BY <2>1 DEF UriNext
    <3>2. c \in Nat
      BY UriAssumption
    <3>3. QED
      BY <3>1, <3>2, AppendProperties DEF AddressCorrect
  <2>2. CASE UNCHANGED uriVars
    BY <2>2 DEF uriVars, AddressCorrect
  <2>3. QED
    BY <2>1, <2>2
<1>3. QED
  BY <1>1, <1>2, PTL DEF UriSpec

\* For every URI, a code is found where the rule has one, that code and no other,
\* and nowhere else (ndef_short_id_from_uri).
THEOREM CodesFollowTheRule == UriSpec => []CodeFollowsRule
<1>1. AddressCorrect => CodeFollowsRule
  <2> SUFFICES ASSUME AddressCorrect PROVE CodeFollowsRule
    OBVIOUS
  <2> DEFINE code == CodeOfUri(address)
  <2>0. address \in Seq(Nat) /\ Trim(address) \in Seq(Nat)
    BY TrimIsText DEF AddressCorrect
  <2>1. code # <<>> => IsSegment(code) /\ Matches(code)
    <3> HAVE code # <<>>
    <3>1. PICK n \in Nat : CodeAtEnd(Trim(address), n, code)
      BY <2>0, FoundAtEnd
    <3>2. code \in Seq(Nat) /\ IsSegment(code)
      BY <2>0, FoundAtEnd
    <3> HIDE DEF code
    <3>3. Matches(code)
      <4> DEFINE t == Trim(address)
      <4> HIDE DEF t
      <4>1. t \in Seq(Nat) /\ CodeAtEnd(t, n, code)
        BY <2>0, <3>1 DEF t
      <4>2. Laid(t, code)
        BY <3>2, <4>1, LaidApart
      <4>3. QED
        BY <4>2, Zenon DEF Laid, Matches, t
    <3>4. QED
      BY <3>2, <3>3
  <2>2. ASSUME NEW segment \in Segments, IsSegment(segment), Matches(segment)
        PROVE  code = segment
    <3> DEFINE trimmed == Trim(address)
    <3>1. segment \in Seq(Nat)
      <4>1. PICK i \in 1..Len(address), j \in 1..Len(address) :
              segment = SubSeq(address, i, j)
        BY <2>2 DEF Segments
      <4>2. \A k \in i..j : address[k] \in Nat
        BY <2>0, <4>1, ElementOfSeq, LenProperties
      <4>3. i \in Int /\ j \in Int
        OBVIOUS
      <4>4. QED
        BY <4>1, <4>2, <4>3, SubSeqProperties
    <3>2. PICK n \in 0..Len(trimmed), tail \in {<<>>, <<Slash>>} :
            trimmed = SubSeq(trimmed, 1, n) \o Mark \o segment \o tail
      BY <2>2 DEF Matches, Mark
    <3> DEFINE h == SubSeq(trimmed, 1, n)
    <3>3. h \in Seq(Nat)
      BY <2>0, LenProperties, PartIs
    <3>4. /\ tail \in Seq(Nat) /\ Len(tail) \in {0, 1}
          /\ \A i \in 1..Len(tail) : tail[i] = Slash
      BY TailIs
    <3>5. trimmed = h \o Mark \o segment \o tail
      BY <3>2
    <3> HIDE DEF trimmed, h
    <3>6. CodeAtEnd(trimmed, Len(h) + 3, segment)
      <4>1. CodeAtEnd(h \o Mark \o segment \o tail, Len(h) + 3, segment)
        BY <3>1, <3>3, <3>4, LaidTogether
      <4>2. QED
        BY <4>1, <3>5
    <3>7. Len(h) + 3 \in Nat
      BY <3>3, LenProperties
    <3>8. QED
      BY <2>0, <2>2, <3>1, <3>6, <3>7, CodeIsFound DEF trimmed
  <2>3. QED
    BY <2>1, <2>2 DEF CodeFollowsRule
<1>2. QED
  BY <1>1, AddressIsCorrect, PTL
-----------------------------------------------------------------------------
(* The symbols in a text.                                                  *)

\* The characters from a to b that count.
Places(t, a, b) == {i \in a..b : ~IsStrippable(t[i])}

LEMMA CountedIsPlaces ==
  ASSUME NEW t \in Seq(Nat)
  PROVE  Counted(t) = Places(t, 1, Len(t)) /\ Len(t) \in Nat
BY LenProperties DEF Counted, Places

\* The symbols at the n places of a list.
At(t, p, n) == [k \in 1..n |-> Folded(t[p[k]])]

\* A text is squashed to the symbols at its places.
LEMMA SquashIs ==
  ASSUME NEW t \in Seq(Nat), NEW n \in Nat, n < SQUASH_BUFFER,
         NEW p, Enumerates(p, Counted(t), n)
  PROVE  Squash(t) = At(t, p, n)
<1> DEFINE counted == Counted(t)
           Nth(k) == CHOOSE i \in counted : Cardinality({j \in counted : j <= i}) = k
<1>1. counted \in SUBSET Int
  BY CountedIsPlaces DEF Places
<1>2. /\ Cardinality(counted) = n
      /\ \A k \in 1..n : Cardinality({j \in counted : j <= p[k]}) = k
  BY <1>1, EnumerationCounts
<1>3. /\ p \in [1..n -> counted]
      /\ \A i \in counted : \E k \in 1..n : p[k] = i
  BY DEF Enumerates
<1>4. Squash(t) = [k \in 1..n |-> Folded(t[Nth(k)])]
  BY <1>2 DEF Squash
<1> HIDE DEF counted
<1>5. ASSUME NEW k \in 1..n PROVE Nth(k) = p[k]
  <2>1. p[k] \in counted /\ Cardinality({j \in counted : j <= p[k]}) = k
    BY <1>2, <1>3
  <2> DEFINE i == Nth(k)
  <2>2. i \in counted /\ Cardinality({j \in counted : j <= i}) = k
    BY <2>1, Zenon
  <2> HIDE DEF i
  <2>3. PICK m \in 1..n : p[m] = i
    BY <1>3, <2>2
  <2>4. m = k
    BY <1>2, <2>2, <2>3
  <2>5. QED
    BY <2>3, <2>4 DEF i
<1> HIDE DEF Nth
<1>6. QED
  BY <1>4, <1>5 DEF At

\* So is a part of one.
LEMMA PartIsSquashed ==
  ASSUME NEW t \in Seq(Nat), NEW a \in Nat \ {0}, NEW b \in Nat, b <= Len(t), a <= b + 1,
         NEW n \in Nat, n < SQUASH_BUFFER, NEW p, Enumerates(p, Places(t, a, b), n)
  PROVE  Squash(SubSeq(t, a, b)) = At(t, p, n)
<1> DEFINE part == SubSeq(t, a, b)
           S == Places(t, a, b)
           f == [i \in S |-> i - (a - 1)]
           q == [k \in 1..n |-> f[p[k]]]
<1>1. /\ part \in Seq(Nat) /\ Len(part) = b + 1 - a /\ Len(part) \in Nat
      /\ \A i \in 1..(b + 1 - a) : part[i] = t[a - 1 + i]
  BY PartIs
<1> HIDE DEF part
<1>2. Counted(part) = {i \in 1..(b + 1 - a) : ~IsStrippable(t[a - 1 + i])}
  BY <1>1, CountedIsPlaces DEF Places
<1>3. S \in SUBSET Int /\ Counted(part) \in SUBSET Int
  BY <1>2 DEF Places
<1>4. \A i \in S : i - (a - 1) \in 1..(b + 1 - a) /\ a - 1 + (i - (a - 1)) = i
  BY DEF Places
<1>5. f \in [S -> Counted(part)]
  BY <1>2, <1>4 DEF Places
<1>6. \A i, j \in S : i < j => f[i] < f[j]
  BY <1>3
<1>7. \A j \in Counted(part) : \E i \in S : f[i] = j
  <2> TAKE j \in Counted(part)
  <2>1. j \in 1..(b + 1 - a) /\ ~IsStrippable(t[a - 1 + j])
    BY <1>2
  <2>2. a - 1 + j \in a..b /\ (a - 1 + j) - (a - 1) = j
    BY <2>1
  <2>3. a - 1 + j \in S
    BY <2>1, <2>2 DEF Places
  <2>4. QED
    BY <2>2, <2>3
<1>8. Enumerates(q, Counted(part), n)
  <2>1. Enumerates(p, S, n)
    OBVIOUS
  <2> HIDE DEF S, f
  <2>2. QED
    BY <2>1, <1>3, <1>5, <1>6, <1>7, EnumerationMoves
<1> HIDE DEF S, f
<1> HIDE DEF q
<1>9. Squash(part) = At(part, q, n)
  BY <1>1, <1>8, SquashIs
<1>10. ASSUME NEW k \in 1..n PROVE part[q[k]] = t[p[k]]
  <2>1. p[k] \in S
    BY DEF S, Enumerates
  <2>2. q[k] = p[k] - (a - 1)
    BY <2>1 DEF q, f
  <2>3. q[k] \in 1..(b + 1 - a) /\ a - 1 + q[k] = p[k]
    BY <1>4, <2>1, <2>2
  <2>4. QED
    BY <1>1, <2>3
<1>11. At(part, q, n) = At(t, p, n)
  BY <1>10 DEF At
<1>12. QED
  BY <1>9, <1>11 DEF part

\* The end of a part.
LEMMA EndOfPart ==
  ASSUME NEW t \in Seq(Nat), NEW a \in Nat \ {0}, NEW b \in Nat, b <= Len(t), a <= b + 1,
         NEW d \in 0..(b + 1 - a)
  PROVE  SubSeq(SubSeq(t, a, b), d + 1, b + 1 - a) = SubSeq(t, a + d, b)
<1> DEFINE part == SubSeq(t, a, b)
           c == d + 1
           n == b + 1 - a
           end == SubSeq(part, c, n)
           e == a + d
           other == SubSeq(t, e, b)
<1>1. /\ part \in Seq(Nat) /\ Len(part) = b + 1 - a
      /\ \A i \in 1..(b + 1 - a) : part[i] = t[a - 1 + i]
  BY PartIs
<1>2. c \in Nat \ {0} /\ n \in Nat /\ n <= Len(part) /\ c <= n + 1
  BY <1>1
<1>3. e \in Nat \ {0} /\ e <= b + 1
  OBVIOUS
<1> HIDE DEF part, c, n, e
<1>4. /\ end \in Seq(Nat) /\ Len(end) = n + 1 - c
      /\ \A i \in 1..(n + 1 - c) : end[i] = part[c - 1 + i]
  BY <1>1, <1>2, PartIs
<1>5. /\ other \in Seq(Nat) /\ Len(other) = b + 1 - e
      /\ \A i \in 1..(b + 1 - e) : other[i] = t[e - 1 + i]
  BY <1>3, PartIs
<1> HIDE DEF end, other
<1>6. n + 1 - c = b + 1 - e
  BY DEF n, c, e
<1>7. ASSUME NEW i \in 1..(b + 1 - e) PROVE end[i] = other[i]
  <2>1. c - 1 + i \in 1..(b + 1 - a) /\ a - 1 + (c - 1 + i) = e - 1 + i
    BY DEF c, e
  <2>2. QED
    BY <1>1, <1>4, <1>5, <1>6, <2>1
<1>8. end = other
  BY <1>4, <1>5, <1>6, <1>7, SeqEqual
<1>9. QED
  BY <1>8 DEF end, other, part, c, n, e

\* From a on, behind white space, the symbols are one token.
OneTokenFrom(t, a) ==
  /\ a > 1 /\ t[a - 1] \in Spaces
  /\ \A j \in a..Len(t) : t[j] \in Spaces =>
       \/ \A i \in a..(j - 1) : IsStrippable(t[i])
       \/ \A k \in j..Len(t) : t[k] \in Spaces

\* A text is read by eight symbols that are all in it, or are the token at its end.
LEMMA SymbolsAreRead ==
  ASSUME NEW t \in Seq(Nat), NEW a \in 1..Len(t), NEW p,
         Enumerates(p, Places(t, a, Len(t)), 8), a = 1 \/ OneTokenFrom(t, a)
  PROVE  /\ Trim(t) # <<>>
         /\ Squash(CodePart(Trim(t))) = At(t, p, 8)
<1> DEFINE S == Places(t, a, Len(t))
           s == At(t, p, 8)
           trimmed == Trim(t)
<1>0. Len(t) \in Nat /\ a \in Nat /\ 8 \in Nat /\ 8 < SQUASH_BUFFER /\ SQUASH_BUFFER \in Nat
  BY LenProperties, BufferAssumption DEF SHORTID_TOTAL_SYMBOLS
<1>1. /\ p \in [1..8 -> S] /\ \A k, m \in 1..8 : k < m => p[k] < p[m]
      /\ \A i \in S : \E k \in 1..8 : p[k] = i
  BY DEF Enumerates
<1>2. /\ S \in SUBSET Int /\ Enumerates(p, S, 8)
      /\ \A i \in S : i \in a..Len(t) /\ t[i] \notin Spaces
  BY DEF Places, IsStrippable
<1>3. p[1] \in S
  BY <1>1
<1>4. ~AllSpace(t)
  BY <1>0, <1>2, <1>3 DEF AllSpace
<1>5. PICK f, l \in Nat : Ends(t, f, l)
  BY <1>4, EndsExist
<1>6. /\ f \in 1..Len(t) /\ l \in f..Len(t) /\ t[f] \notin Spaces /\ t[l] \notin Spaces
      /\ \A i \in 1..(f - 1) : t[i] \in Spaces
      /\ \A i \in (l + 1)..Len(t) : t[i] \in Spaces
      /\ f \in Nat \ {0} /\ l <= Len(t) /\ f <= l + 1
  BY <1>0, <1>5 DEF Ends
<1>7. trimmed = SubSeq(t, f, l)
  BY <1>5, TrimIs
<1>8. /\ trimmed \in Seq(Nat) /\ Len(trimmed) = l + 1 - f
      /\ \A i \in 1..(l + 1 - f) : trimmed[i] = t[f - 1 + i]
  BY <1>6, <1>7, PartIs, SMTT(30)
<1>9. \A i \in S : i \in f..l
  <2> SUFFICES ASSUME NEW i \in S, i \notin f..l PROVE FALSE
    OBVIOUS
  <2>1. i \in 1..Len(t) /\ t[i] \notin Spaces
    BY <1>0, <1>2
  <2>2. i \in 1..(f - 1) \/ i \in (l + 1)..Len(t)
    BY <1>0, <1>6, <2>1
  <2>3. QED
    BY <1>6, <2>1, <2>2
<1> HIDE DEF trimmed
<1>10. trimmed # <<>>
  BY <1>6, <1>8, EmptySeq
<1>11. PICK d \in Nat : LastDivider(trimmed, Spaces, d)
  BY <1>8, LastDividerExists
<1> DEFINE D == f - 1 + d
           token == SubSeq(t, D + 1, l)
<1>12. /\ d \in 0..(l + 1 - f)
       /\ d > 0 => trimmed[d] \in Spaces
       /\ \A i \in (d + 1)..(l + 1 - f) : trimmed[i] \notin Spaces
  BY <1>8, <1>11 DEF LastDivider
<1>13. D \in Nat /\ D + 1 \in Nat \ {0} /\ D + 1 <= l + 1 /\ D >= f - 1 /\ d = D - (f - 1)
  BY <1>6, <1>12
<1>14. After(trimmed, Spaces) = token
  <2>1. After(trimmed, Spaces) = SubSeq(trimmed, d + 1, l + 1 - f)
    BY <1>8, <1>11, AfterIs
  <2>2. SubSeq(SubSeq(t, f, l), d + 1, l + 1 - f) = SubSeq(t, f + d, l)
    BY <1>6, <1>12, EndOfPart
  <2>3. f + d = D + 1
    BY <1>6
  <2>4. QED
    BY <1>7, <2>1, <2>2, <2>3
<1>15. CodePart(trimmed) = IF Len(Squash(token)) = 8 THEN token ELSE trimmed
  BY <1>14 DEF CodePart, SHORTID_TOTAL_SYMBOLS
<1>19. \A m \in 0..8 : 8 - m \in Nat /\ 8 - m < SQUASH_BUFFER
  BY <1>0
<1> HIDE DEF D, token, s
<1>16. CASE a = 1
  <2>1. S = Places(t, f, l)
    BY <1>0, <1>6, <1>9, <1>16 DEF Places
  <2>2. Squash(trimmed) = s
    <3>1. Enumerates(p, Places(t, f, l), 8)
      BY <1>2, <2>1
    <3>2. Squash(SubSeq(t, f, l)) = At(t, p, 8)
      BY <3>1, <1>0, <1>6, PartIsSquashed
    <3>3. QED
      BY <3>2, <1>7 DEF s
  <2> DEFINE before == {k \in 0..8 : k = 0 \/ p[k] <= D}
  <2>3. PICK m \in before : \A k \in before : m >= k
    <3>1. 0 \in before /\ before \in SUBSET 0..8
      OBVIOUS
    <3> HIDE DEF before
    <3>2. QED
      BY <3>1, GreatestMember
  <2>4. m \in 0..8 /\ (\A k \in 1..m : p[k] <= D) /\ (\A k \in (m + 1)..8 : p[k] > D)
    <3>1. m \in 0..8 /\ (m > 0 => p[m] <= D)
      OBVIOUS
    <3>2. \A k \in 1..8 : p[k] \in Int
      BY <1>1, <1>2
    <3>3. ASSUME NEW k \in 1..m PROVE p[k] <= D
      <4>1. k \in 1..8 /\ m \in 1..8 /\ m > 0 /\ (k = m \/ k < m)
        BY <3>1
      <4>2. p[k] \in Int /\ p[m] \in Int /\ p[k] <= p[m]
        <5>1. p[k] \in Int /\ p[m] \in Int
          BY <4>1, <3>2
        <5>2. k < m => p[k] < p[m]
          BY <4>1, <1>1, Zenon
        <5>3. QED
          BY <4>1, <5>1, <5>2
      <4>3. QED
        BY <4>1, <4>2, <3>1, <1>13
    <3>4. ASSUME NEW k \in (m + 1)..8 PROVE p[k] > D
      <4>1. k \in 1..8 /\ ~(m >= k)
        BY <3>1
      <4>2. k \notin before
        BY <2>3, <4>1
      <4>3. QED
        BY <4>1, <4>2, <3>2, <1>13, SMTT(30)
    <3>5. QED
      BY <3>1, <3>3, <3>4
  <2> DEFINE q == [k \in 1..(8 - m) |-> p[m + k]]
  <2>5. Places(t, D + 1, l) = {i \in S : i > D}
    BY <1>0, <1>6, <1>9, <1>13, <1>16 DEF Places
  <2>6. Enumerates(q, {i \in S : i > D}, 8 - m)
    <3> HIDE DEF S
    <3>1. D \in Int
      BY <1>13
    <3>2. QED
      BY <1>0, <1>2, <2>4, <3>1, EnumerationRest
  <2>7. Squash(token) = At(t, q, 8 - m)
    <3> DEFINE n == 8 - m
    <3>1. n \in Nat /\ n < SQUASH_BUFFER
      BY <1>19, <2>4
    <3>2. Enumerates(q, Places(t, D + 1, l), n)
      BY <2>5, <2>6
    <3> HIDE DEF q, n
    <3>3. Squash(SubSeq(t, D + 1, l)) = At(t, q, n)
      BY <3>1, <3>2, <1>6, <1>13, PartIsSquashed
    <3>4. QED
      BY <3>3 DEF token, n
  <2>8. CASE m = 0
    <3>1. 8 - m = 8 /\ \A k \in 1..8 : q[k] = p[k]
      BY <2>8
    <3> HIDE DEF q
    <3>2. Squash(token) = s
      BY <2>7, <3>1 DEF s, At
    <3>3. Squash(CodePart(trimmed)) = s
      BY <1>15, <2>2, <3>2
    <3>4. QED
      BY <1>10, <3>3 DEF s, trimmed
  <2>9. CASE m # 0
    <3>1. Len(Squash(token)) = 8 - m
      BY <2>4, <2>7 DEF At
    <3>2. CodePart(trimmed) = trimmed
      BY <1>15, <2>4, <2>9, <3>1
    <3>3. Squash(CodePart(trimmed)) = s
      BY <2>2, <3>2
    <3>4. QED
      BY <1>10, <3>3 DEF s, trimmed
  <2>10. QED
    BY <2>8, <2>9
<1>17. CASE OneTokenFrom(t, a)
  <2>0. /\ a > 1 /\ t[a - 1] \in Spaces
        /\ \A j \in a..Len(t) : t[j] \in Spaces =>
             \/ \A i \in a..(j - 1) : IsStrippable(t[i])
             \/ \A k \in j..Len(t) : t[k] \in Spaces
    BY <1>17 DEF OneTokenFrom
  <2>1. p[1] \in f..l /\ p[1] \in a..Len(t) /\ t[p[1]] \notin Spaces /\ ~IsStrippable(t[p[1]])
    BY <1>2, <1>3, <1>9 DEF Places
  <2>2. D >= a - 1
    <3>1. CASE f > a - 1
      BY <1>0, <1>6, <1>13, <3>1
    <3>2. CASE f <= a - 1
      <4> DEFINE x == a - f
      <4>1. x \in 1..(l + 1 - f) /\ f - 1 + x = a - 1
        BY <1>0, <1>6, <2>1, <3>2
      <4>2. trimmed[x] \in Spaces
        BY <4>1, <1>8, <2>0
      <4>3. ~(x \in (d + 1)..(l + 1 - f))
        BY <1>12, <4>2
      <4>4. d >= x
        BY <4>1, <4>3, <1>12
      <4>5. QED
        BY <4>1, <4>4, <1>0, <1>6, <1>13
    <3>3. QED
      BY <1>0, <1>6, <3>1, <3>2
  <2>3. p[1] > D
    <3> SUFFICES ASSUME p[1] <= D PROVE FALSE
      BY <2>1, <1>13
    <3>1. d > 0 /\ d \in 1..(l + 1 - f)
      BY <1>6, <1>12, <1>13, <2>1
    <3>2. trimmed[d] = t[D] /\ t[D] \in Spaces
      BY <3>1, <1>8, <1>12 DEF D
    <3>3. D \in a..Len(t) /\ l \in D..Len(t)
      BY <1>0, <1>6, <1>13, <2>1
    <3>4. p[1] \in a..(D - 1)
      <4>1. p[1] # D
        BY <2>1, <3>2
      <4>2. QED
        BY <4>1, <2>1, <1>13
    <3>5. QED
      BY <1>6, <2>0, <2>1, <3>2, <3>3, <3>4
  <2>4. \A i \in S : i > D
    <3> TAKE i \in S
    <3>1. PICK k \in 1..8 : p[k] = i
      BY <1>1
    <3>2. p[1] <= p[k]
      <4>1. (k = 1 \/ 1 < k) /\ 1 \in 1..8
        OBVIOUS
      <4> HIDE DEF S
      <4>2. p[1] \in Int /\ p[k] \in Int
        BY <4>1, <1>1, <1>2
      <4>3. 1 < k => p[1] < p[k]
        BY <4>1, <1>1, Zenon
      <4>4. QED
        BY <4>1, <4>2, <4>3
    <3>3. QED
      BY <2>3, <3>1, <3>2, <1>2, <1>13, <1>3
  <2>5. Places(t, D + 1, l) = S
    BY <1>0, <1>6, <1>9, <1>13, <2>2, <2>4 DEF Places
  <2>6. Squash(token) = s
    <3>1. Enumerates(p, Places(t, D + 1, l), 8)
      BY <1>2, <2>5
    <3>2. Squash(SubSeq(t, D + 1, l)) = At(t, p, 8)
      BY <3>1, <1>0, <1>6, <1>13, PartIsSquashed
    <3>3. QED
      BY <3>2 DEF token, s
  <2>7. Len(s) = 8
    BY DEF s, At
  <2>8. Squash(CodePart(trimmed)) = s
    BY <1>15, <2>6, <2>7
  <2>9. QED
    BY <1>10, <2>8 DEF s, trimmed
<1>18. QED
  BY <1>16, <1>17 DEF trimmed
-----------------------------------------------------------------------------
(* What is read.                                                           *)

\* The alphabet runs through the digits and capitals but for four.
LEMMA AlphabetIs ==
  ASSUME NEW v \in Symbols
  PROVE  SHORTID_ALPHABET[v + 1] = IF v < 10 THEN 48 + v
                                   ELSE IF v < 18 THEN 55 + v
                                   ELSE IF v < 20 THEN 56 + v
                                   ELSE IF v < 22 THEN 57 + v
                                   ELSE IF v < 27 THEN 58 + v
                                   ELSE 59 + v
<1>1. \/ v \in {0, 1, 2, 3, 4, 5, 6, 7}
      \/ v \in {8, 9, 10, 11, 12, 13, 14, 15}
      \/ v \in {16, 17, 18, 19, 20, 21, 22, 23}
      \/ v \in {24, 25, 26, 27, 28, 29, 30, 31}
  BY DEF Symbols, SHORTID_BASE
<1>2. CASE v \in {0, 1, 2, 3, 4, 5, 6, 7}
  BY <1>2 DEF SHORTID_ALPHABET
<1>3. CASE v \in {8, 9, 10, 11, 12, 13, 14, 15}
  BY <1>3 DEF SHORTID_ALPHABET
<1>4. CASE v \in {16, 17, 18, 19, 20, 21, 22, 23}
  BY <1>4 DEF SHORTID_ALPHABET
<1>5. CASE v \in {24, 25, 26, 27, 28, 29, 30, 31}
  BY <1>5 DEF SHORTID_ALPHABET
<1>6. QED
  BY <1>1, <1>2, <1>3, <1>4, <1>5

\* Its characters count, stand for themselves and are told apart.
LEMMA AlphabetIsPlain ==
  /\ \A v \in Symbols :
       LET c == SHORTID_ALPHABET[v + 1]
       IN  c \in Nat \ {Slash, 63, 35} /\ ~IsStrippable(c) /\ Folded(c) = c
  /\ \A v, w \in Symbols : SHORTID_ALPHABET[v + 1] = SHORTID_ALPHABET[w + 1] => v = w
<1>1. ASSUME NEW v \in Symbols
      PROVE  LET c == SHORTID_ALPHABET[v + 1]
             IN  c \in Nat \ {Slash, 63, 35} /\ ~IsStrippable(c) /\ Folded(c) = c
  <2> DEFINE c == SHORTID_ALPHABET[v + 1]
  <2>1. c \in 48..57 \cup 65..72 \cup 74..75 \cup 77..78 \cup 80..84 \cup 86..90
    BY AlphabetIs DEF Symbols, SHORTID_BASE
  <2> HIDE DEF c
  <2>2. c \in Nat \ {Slash, 63, 35}
    BY <2>1 DEF Slash
  <2>3. ~IsStrippable(c)
    BY <2>1 DEF IsStrippable, Spaces, Hyphen
  <2>4. Folded(c) = c
    BY <2>1 DEF Folded
  <2>5. QED
    BY <2>2, <2>3, <2>4 DEF c
<1>2. ASSUME NEW v \in Symbols, NEW w \in Symbols,
             SHORTID_ALPHABET[v + 1] = SHORTID_ALPHABET[w + 1]
      PROVE  v = w
  BY <1>2, AlphabetIs DEF Symbols, SHORTID_BASE
<1>3. QED
  BY <1>1, <1>2

\* The value of a character is the place of its symbol, if it has one.
LEMMA ValueIs ==
  /\ \A v \in Symbols : symbol_value(SHORTID_ALPHABET[v + 1]) = v
  /\ \A c : symbol_value(c) >= 0 =>
       symbol_value(c) \in Symbols /\ SHORTID_ALPHABET[symbol_value(c) + 1] = c
<1>1. ASSUME NEW c, NEW v \in Symbols, SHORTID_ALPHABET[v + 1] = c
      PROVE  symbol_value(c) = v
  <2> DEFINE w == CHOOSE w \in Symbols : SHORTID_ALPHABET[w + 1] = c
  <2>1. symbol_value(c) = w
    BY <1>1 DEF symbol_value
  <2>2. w \in Symbols /\ SHORTID_ALPHABET[w + 1] = c
    BY <1>1
  <2> HIDE DEF w
  <2>3. QED
    BY <1>1, <2>1, <2>2, AlphabetIsPlain
<1>2. ASSUME NEW c, symbol_value(c) >= 0
      PROVE  symbol_value(c) \in Symbols /\ SHORTID_ALPHABET[symbol_value(c) + 1] = c
  <2>1. CASE \E v \in Symbols : SHORTID_ALPHABET[v + 1] = c
    BY <1>1, <2>1
  <2>2. CASE ~\E v \in Symbols : SHORTID_ALPHABET[v + 1] = c
    BY <1>2, <2>2 DEF symbol_value
  <2>3. QED
    BY <2>1, <2>2
<1>3. QED
  BY <1>1, <1>2

LEMMA CanonicalIs ==
  ASSUME NEW v \in Codes
  PROVE  /\ Canonical(v) \in [1..8 -> Nat] /\ \A i \in 1..8 : v[i] \in Symbols
         /\ \A i \in 1..8 : /\ Canonical(v)[i] = SHORTID_ALPHABET[v[i] + 1]
                            /\ symbol_value(Canonical(v)[i]) = v[i]
<1>1. \A i \in 1..8 : v[i] \in Symbols
  BY DEF Codes, SHORTID_TOTAL_SYMBOLS
<1>2. Canonical(v) = [i \in 1..8 |-> SHORTID_ALPHABET[v[i] + 1]]
  BY DEF Canonical, SHORTID_TOTAL_SYMBOLS
<1>3. \A i \in 1..8 : SHORTID_ALPHABET[v[i] + 1] \in Nat
  BY <1>1, AlphabetIsPlain
<1>4. QED
  BY <1>1, <1>2, <1>3, ValueIs

\* The code of an ID is read as it.
LEMMA CodeIsRead ==
  ASSUME NEW v \in Codes, CheckHolds(v), NEW raw, Trim(raw) # <<>>,
         Squash(CodePart(Trim(raw))) = Canonical(v)
  PROVE  Validate(raw) = [error |-> "ShortIdOk", out |-> Canonical(v)]
<1> DEFINE code == Squash(CodePart(Trim(raw)))
           values == [i \in DOMAIN code |-> symbol_value(code[i])]
<1>1. DOMAIN code = 1..8 /\ Len(code) = 8
  BY CanonicalIs
<1>2. \A i \in 1..8 : values[i] = v[i] /\ v[i] \in Symbols
  BY <1>1, CanonicalIs
<1>3. values = v
  BY <1>1, <1>2 DEF Codes, SHORTID_TOTAL_SYMBOLS
<1>4. \A i \in 1..8 : ~(v[i] < 0)
  <2>1. \A x \in Symbols : ~(x < 0)
    BY DEF Symbols, SHORTID_BASE
  <2>2. QED
    BY <1>2, <2>1
<1>5. code = Canonical(v)
  OBVIOUS
<1> HIDE DEF code
<1>6. Validate(raw) = IF Trim(raw) = <<>> THEN Error("ShortIdErrEmpty")
      ELSE IF Len(code) # SHORTID_TOTAL_SYMBOLS THEN Error("ShortIdErrLength")
      ELSE IF \E i \in DOMAIN values : values[i] < 0 THEN Error("ShortIdErrAlphabet")
      ELSE IF ~CheckHolds(values) THEN Error("ShortIdErrCheck")
      ELSE [error |-> "ShortIdOk", out |-> code]
  BY Zenon DEF Validate, code
<1>7. DOMAIN values = 1..8
  BY <1>1
<1> HIDE DEF values
<1>8. QED
  BY <1>1, <1>3, <1>4, <1>5, <1>6, <1>7 DEF SHORTID_TOTAL_SYMBOLS

\* These are the symbols of an ID but for one, or two neighbours are swapped.
Slip(s, v) ==
  /\ s \in [1..8 -> Int]
  /\ \/ \E i \in 1..8 : /\ s[i] # Canonical(v)[i]
                        /\ \A j \in 1..8 \ {i} : s[j] = Canonical(v)[j]
     \/ \E i \in 1..7 : /\ Canonical(v)[i] # Canonical(v)[i + 1]
                        /\ s[i] = Canonical(v)[i + 1] /\ s[i + 1] = Canonical(v)[i]
                        /\ \A j \in 1..8 \ {i, i + 1} : s[j] = Canonical(v)[j]

\* They are not read.
LEMMA SlipIsNotRead ==
  ASSUME NEW v \in Codes, CheckHolds(v), NEW raw,
         Slip(Squash(CodePart(Trim(raw))), v)
  PROVE  Validate(raw).error # "ShortIdOk"
<1> DEFINE code == Squash(CodePart(Trim(raw)))
           values == [i \in DOMAIN code |-> symbol_value(code[i])]
<1>1. Slip(code, v) /\ DOMAIN code = 1..8
  BY DEF Slip
<1> HIDE DEF code
<1>2. Validate(raw) = IF Trim(raw) = <<>> THEN Error("ShortIdErrEmpty")
      ELSE IF Len(code) # SHORTID_TOTAL_SYMBOLS THEN Error("ShortIdErrLength")
      ELSE IF \E i \in DOMAIN values : values[i] < 0 THEN Error("ShortIdErrAlphabet")
      ELSE IF ~CheckHolds(values) THEN Error("ShortIdErrCheck")
      ELSE [error |-> "ShortIdOk", out |-> code]
  BY Zenon DEF Validate, code
<1>3. SUFFICES (\A i \in DOMAIN values : ~(values[i] < 0)) => ~CheckHolds(values)
  BY <1>2 DEF Error
<1>4. SUFFICES ASSUME \A i \in DOMAIN values : ~(values[i] < 0) PROVE ~CheckHolds(values)
  OBVIOUS
<1>5. \A i \in 1..8 : values[i] = symbol_value(code[i]) /\ ~(values[i] < 0)
  BY <1>1, <1>4
<1>6. ASSUME NEW c PROVE symbol_value(c) \in Int
  <2>1. CASE \E x \in Symbols : SHORTID_ALPHABET[x + 1] = c
    BY <2>1, ValueIs DEF Symbols, SHORTID_BASE
  <2>2. CASE ~\E x \in Symbols : SHORTID_ALPHABET[x + 1] = c
    BY <2>2 DEF symbol_value
  <2>3. QED
    BY <2>1, <2>2
<1>7. \A i \in 1..8 : values[i] \in Symbols /\ SHORTID_ALPHABET[values[i] + 1] = code[i]
  <2> TAKE i \in 1..8
  <2>1. values[i] = symbol_value(code[i]) /\ symbol_value(code[i]) >= 0
    BY <1>5, <1>6
  <2>2. QED
    BY <2>1, ValueIs
<1>8. values = [i \in 1..8 |-> values[i]]
  BY <1>1
<1>9. values \in Codes
  BY <1>7, <1>8 DEF Codes, SHORTID_TOTAL_SYMBOLS
<1> HIDE DEF values
<1>10. \A i, j \in 1..8 : code[i] = Canonical(v)[j] => values[i] = v[j]
  BY <1>5, CanonicalIs
<1>11. \A i \in 1..8 : code[i] # Canonical(v)[i] => values[i] # v[i]
  BY <1>7, CanonicalIs
<1>12. CASE \E i \in 1..8 : /\ code[i] # Canonical(v)[i]
                            /\ \A j \in 1..8 \ {i} : code[j] = Canonical(v)[j]
  <2>1. PICK i \in 1..8 : /\ code[i] # Canonical(v)[i]
                          /\ \A j \in 1..8 \ {i} : code[j] = Canonical(v)[j]
    BY <1>12
  <2>2. values[i] \in Symbols /\ values[i] # v[i]
    BY <1>7, <1>11, <2>1
  <2>3. \A j \in 1..8 \ {i} : values[j] = v[j]
    BY <1>10, <2>1
  <2>4. values = [v EXCEPT ![i] = values[i]]
    BY <1>9, <2>3 DEF Codes, SHORTID_TOTAL_SYMBOLS
  <2>5. ~CheckHolds([v EXCEPT ![i] = values[i]])
    BY <2>2, OneWrongSymbolIsRefused DEF SHORTID_TOTAL_SYMBOLS
  <2>6. QED
    BY <2>4, <2>5
<1>13. CASE \E i \in 1..7 : /\ Canonical(v)[i] # Canonical(v)[i + 1]
                            /\ code[i] = Canonical(v)[i + 1] /\ code[i + 1] = Canonical(v)[i]
                            /\ \A j \in 1..8 \ {i, i + 1} : code[j] = Canonical(v)[j]
  <2>1. PICK i \in 1..7 : /\ Canonical(v)[i] # Canonical(v)[i + 1]
                          /\ code[i] = Canonical(v)[i + 1] /\ code[i + 1] = Canonical(v)[i]
                          /\ \A j \in 1..8 \ {i, i + 1} : code[j] = Canonical(v)[j]
    BY <1>13
  <2>2. i \in 1..8 /\ i + 1 \in 1..8 /\ i # i + 1
    OBVIOUS
  <2>3. values[i] = v[i + 1] /\ values[i + 1] = v[i] /\ v[i] # v[i + 1]
    BY <1>10, <1>11, <2>1, <2>2, CanonicalIs
  <2>4. \A j \in 1..8 \ {i, i + 1} : values[j] = v[j]
    BY <1>10, <2>1
  <2>5. values = [v EXCEPT ![i] = v[i + 1], ![i + 1] = v[i]]
    BY <1>9, <2>2, <2>3, <2>4 DEF Codes, SHORTID_TOTAL_SYMBOLS
  <2>6. ~CheckHolds([v EXCEPT ![i] = v[i + 1], ![i + 1] = v[i]])
    BY <2>3, OneSwapIsRefused DEF SHORTID_DATA_SYMBOLS
  <2>7. QED
    BY <2>5, <2>6
<1>14. QED
  BY <1>1, <1>12, <1>13 DEF Slip
-----------------------------------------------------------------------------
(* What is done to the copy of a label.                                    *)

\* These are the symbols in a text.
Spells(t, s) == \E p : Enumerates(p, Counted(t), 8) /\ At(t, p, 8) = s

\* None of its characters parts a URI.
Plain(t) == \A i \in 1..Len(t) : t[i] \notin {Slash, 63, 35}

\* Case and likeness do not matter to whether a character counts.
LEMMA FoldedCounts ==
  ASSUME NEW c \in Nat
  PROVE  Folded(c) \in Nat /\ (IsStrippable(Folded(c)) <=> IsStrippable(c))
<1> DEFINE upper == IF c \in 97..122 THEN c - 32 ELSE c
<1>1. /\ upper \in Nat
      /\ upper # c => upper \in 65..90 /\ c \in 97..122
  OBVIOUS
<1>2. Folded(c) = CASE upper = 79         -> 48
                    [] upper \in {73, 76} -> 49
                    [] OTHER              -> upper
  BY DEF Folded
<1> HIDE DEF upper
<1>3. Folded(c) = IF upper = 79 THEN 48 ELSE IF upper \in {73, 76} THEN 49 ELSE upper
  BY <1>2
<1>4. QED
  BY <1>1, <1>3 DEF IsStrippable, Spaces, Hyphen

\* Texts of one shape have their symbols at the same places.
SameButSymbols(t, u) ==
  /\ Len(u) = Len(t)
  /\ \A i \in 1..Len(t) : \/ u[i] = t[i]
                          \/ ~IsStrippable(u[i]) /\ ~IsStrippable(t[i])

LEMMA SameShape ==
  ASSUME NEW t \in Seq(Nat), NEW u \in Seq(Nat), SameButSymbols(t, u)
  PROVE  Counted(u) = Counted(t) /\ (OneToken(t) => OneToken(u))
<1>1. Len(t) \in Nat /\ DOMAIN t = 1..Len(t) /\ DOMAIN u = 1..Len(t)
  BY LenProperties DEF SameButSymbols
<1>2. \A i \in 1..Len(t) : /\ IsStrippable(u[i]) <=> IsStrippable(t[i])
                           /\ u[i] \in Spaces <=> t[i] \in Spaces
  BY DEF SameButSymbols, IsStrippable
<1>3. Counted(u) = Counted(t)
  BY <1>1, <1>2 DEF Counted
<1>4. ASSUME OneToken(t) PROVE OneToken(u)
  <2> SUFFICES ASSUME NEW j \in 1..Len(t), u[j] \in Spaces
               PROVE  \/ \A i \in 1..(j - 1) : IsStrippable(u[i])
                      \/ \A k \in j..Len(t) : u[k] \in Spaces
    BY <1>1 DEF SameButSymbols, OneToken
  <2>1. \/ \A i \in 1..(j - 1) : IsStrippable(t[i])
        \/ \A k \in j..Len(t) : t[k] \in Spaces
    BY <1>1, <1>2, <1>4 DEF OneToken
  <2>2. (\A i \in 1..(j - 1) : i \in 1..Len(t)) /\ \A k \in j..Len(t) : k \in 1..Len(t)
    BY <1>1
  <2>3. QED
    BY <1>2, <2>1, <2>2
<1>5. QED
  BY <1>3, <1>4

\* Where the listed symbols are.
LEMMA ListedPlaces ==
  ASSUME NEW t \in Seq(Nat), NEW p, Enumerates(p, Counted(t), 8)
  PROVE  /\ \A m \in 1..8 : p[m] \in Int /\ p[m] \in 1..Len(t) /\ ~IsStrippable(t[p[m]])
         /\ \A k, m \in 1..8 : k < m => p[k] < p[m]
         /\ \A k, m \in 1..8 : p[k] = p[m] => k = m
         /\ \A x \in Counted(t) : \E k \in 1..8 : p[k] = x
<1>1. /\ p \in [1..8 -> Counted(t)] /\ \A k, m \in 1..8 : k < m => p[k] < p[m]
      /\ \A x \in Counted(t) : \E k \in 1..8 : p[k] = x
  BY DEF Enumerates
<1>2. \A x \in Counted(t) : x \in Int /\ x \in 1..Len(t) /\ ~IsStrippable(t[x])
  BY CountedIsPlaces DEF Places
<1>3. \A m \in 1..8 : p[m] \in Int /\ p[m] \in 1..Len(t) /\ ~IsStrippable(t[p[m]])
  BY <1>1, <1>2
<1>4. ASSUME NEW k \in 1..8, NEW m \in 1..8, p[k] = p[m] PROVE k = m
  <2>1. (k < m => p[k] < p[m]) /\ (m < k => p[m] < p[k])
    BY <1>1, Zenon
  <2>2. p[k] \in Int /\ p[m] \in Int
    BY <1>3
  <2>3. QED
    BY <1>4, <2>1, <2>2
<1>5. QED
  BY <1>1, <1>3, <1>4

\* One of its symbols is written otherwise, as another symbol or the same.
Respelled(t, u, p, k, c) ==
  /\ u \in Seq(Nat) /\ Plain(u) /\ Len(u) = Len(t)
  /\ Enumerates(p, Counted(u), 8) /\ (OneToken(t) => OneToken(u))
  /\ \A m \in 1..8 : At(u, p, 8)[m] = IF m = k THEN Folded(c) ELSE At(t, p, 8)[m]

LEMMA RespelledText ==
  ASSUME NEW t \in Seq(Nat), Plain(t), NEW p, Enumerates(p, Counted(t), 8),
         NEW k \in 1..8, NEW c \in Nat \ {Slash, 63, 35}, ~IsStrippable(c), NEW u,
         u = [t EXCEPT ![p[k]] = c]
  PROVE  Respelled(t, u, p, k, c)
<1>1. Len(t) \in Nat /\ DOMAIN t = 1..Len(t) /\ t \in [1..Len(t) -> Nat]
  BY LenProperties
<1>2. \A m \in 1..8 : p[m] \in 1..Len(t) /\ ~IsStrippable(t[p[m]]) /\ p[m] \in Int
  BY ListedPlaces
<1>3. \A m \in 1..8 : p[m] = p[k] => m = k
  BY ListedPlaces
<1>5. u \in Seq(Nat) /\ Len(u) = Len(t)
  <2>1. PICK i \in 1..Len(t) : i = p[k]
    BY <1>2
  <2>2. [t EXCEPT ![i] = c] \in Seq(Nat) /\ Len([t EXCEPT ![i] = c]) = Len(t)
    BY ExceptSeq
  <2>3. QED
    BY <2>1, <2>2
<1>6. \A i \in 1..Len(t) : u[i] = IF i = p[k] THEN c ELSE t[i]
  BY <1>1
<1>7. Plain(u)
  BY <1>5, <1>6 DEF Plain
<1>8. SameButSymbols(t, u)
  BY <1>2, <1>5, <1>6 DEF SameButSymbols
<1>9. Counted(u) = Counted(t) /\ (OneToken(t) => OneToken(u))
  BY <1>5, <1>8, SameShape
<1>10. \A m \in 1..8 : At(u, p, 8)[m] = IF m = k THEN Folded(c) ELSE At(t, p, 8)[m]
  <2>1. \A m \in 1..8 : At(u, p, 8)[m] = Folded(u[p[m]]) /\ At(t, p, 8)[m] = Folded(t[p[m]])
    BY DEF At
  <2>2. \A m \in 1..8 : u[p[m]] = IF m = k THEN c ELSE t[p[m]]
    BY <1>2, <1>3, <1>6
  <2>3. TAKE m \in 1..8
  <2>4. CASE m = k
    BY <2>1, <2>2, <2>4
  <2>5. CASE m # k
    <3>1. u[p[m]] = t[p[m]]
      BY <2>2, <2>5
    <3>2. QED
      BY <2>1, <2>5, <3>1
  <2>6. QED
    BY <2>4, <2>5
<1>11. QED
  BY <1>5, <1>7, <1>9, <1>10 DEF Respelled

\* Two of its symbols that follow each other are swapped.
Swapped(t, u, p, i, j) ==
  /\ u \in Seq(Nat) /\ Plain(u) /\ Len(u) = Len(t)
  /\ Enumerates(p, Counted(u), 8) /\ (OneToken(t) => OneToken(u))
  /\ \E k \in 1..7 : /\ p[k] = i /\ p[k + 1] = j
                     /\ At(u, p, 8)[k] = Folded(t[j])
                     /\ At(u, p, 8)[k + 1] = Folded(t[i])
                     /\ \A m \in 1..8 \ {k, k + 1} : At(u, p, 8)[m] = At(t, p, 8)[m]

LEMMA SwappedText ==
  ASSUME NEW t \in Seq(Nat), Plain(t), NEW p, Enumerates(p, Counted(t), 8),
         NEW i \in Counted(t), NEW j \in Counted(t), i < j,
         Counted(t) \cap (i + 1)..(j - 1) = {}, NEW u,
         u = [t EXCEPT ![i] = t[j], ![j] = t[i]]
  PROVE  Swapped(t, u, p, i, j)
<1>1. Len(t) \in Nat /\ DOMAIN t = 1..Len(t) /\ t \in [1..Len(t) -> Nat]
  BY LenProperties
<1>2. /\ \A k \in 1..8 : p[k] \in Int /\ p[k] \in Counted(t)
      /\ \A k, m \in 1..8 : k < m => p[k] < p[m]
      /\ \A k, m \in 1..8 : p[k] = p[m] => k = m
      /\ \A x \in Counted(t) : \E k \in 1..8 : p[k] = x
  <2>1. \A k \in 1..8 : p[k] \in Counted(t)
    BY DEF Enumerates
  <2>2. QED
    BY <2>1, ListedPlaces
<1>3. \A x \in Counted(t) : x \in 1..Len(t) /\ x \in Int /\ ~IsStrippable(t[x])
  BY <1>1 DEF Counted
<1>4. PICK k \in 1..8 : p[k] = i
  BY <1>2
<1>5. PICK l \in 1..8 : p[l] = j
  BY <1>2
<1>6. k < l
  <2>1. k # l
    BY <1>3, <1>4, <1>5
  <2>2. ~(l < k)
    BY <1>2, <1>4, <1>5, SMTT(30)
  <2>3. QED
    BY <2>1, <2>2
<1>7. l = k + 1 /\ k \in 1..7
  <2> SUFFICES ASSUME l # k + 1 PROVE FALSE
    BY <1>6
  <2>1. k + 1 \in 1..8 /\ k < k + 1 /\ k + 1 < l
    BY <1>6
  <2>2. p[k + 1] \in Counted(t) /\ i < p[k + 1] /\ p[k + 1] < j
    BY <1>2, <1>4, <1>5, <2>1
  <2>3. p[k + 1] \in (i + 1)..(j - 1)
    BY <1>3, <2>2
  <2>4. QED
    BY <2>2, <2>3
<1>8. i \in 1..Len(t) /\ j \in 1..Len(t) /\ t[i] \in Nat /\ t[j] \in Nat
  BY <1>1, <1>3
<1>9. u \in Seq(Nat) /\ Len(u) = Len(t)
  <2> DEFINE v == [t EXCEPT ![i] = t[j]]
  <2>1. v \in Seq(Nat) /\ Len(v) = Len(t)
    BY <1>8, ExceptSeq
  <2>2. u = [v EXCEPT ![j] = t[i]]
    OBVIOUS
  <2> HIDE DEF v
  <2>3. QED
    BY <1>8, <2>1, <2>2, ExceptSeq
<1>10. \A x \in 1..Len(t) : u[x] = IF x = j THEN t[i] ELSE IF x = i THEN t[j] ELSE t[x]
  BY <1>1, <1>3
<1>11. Plain(u)
  BY <1>3, <1>9, <1>10 DEF Plain
<1>12. SameButSymbols(t, u)
  BY <1>3, <1>9, <1>10 DEF SameButSymbols
<1>13. Counted(u) = Counted(t) /\ (OneToken(t) => OneToken(u))
  BY <1>9, <1>12, SameShape
<1>14. \A m \in 1..8 : At(u, p, 8)[m] = Folded(u[p[m]]) /\ At(t, p, 8)[m] = Folded(t[p[m]])
  BY DEF At
<1>15. \A m \in 1..8 \ {k, k + 1} : p[m] # i /\ p[m] # j
  BY <1>2, <1>4, <1>5, <1>7
<1>16. u[i] = t[j] /\ u[j] = t[i]
  BY <1>3, <1>10
<1>17. \A m \in 1..8 \ {k, k + 1} : u[p[m]] = t[p[m]]
  BY <1>2, <1>3, <1>10, <1>15
<1>18. /\ At(u, p, 8)[k] = Folded(t[j]) /\ At(u, p, 8)[k + 1] = Folded(t[i])
       /\ \A m \in 1..8 \ {k, k + 1} : At(u, p, 8)[m] = At(t, p, 8)[m]
  <2>1. k + 1 \in 1..8 /\ p[k + 1] = j
    BY <1>5, <1>7
  <2>2. At(u, p, 8)[k] = Folded(t[j]) /\ At(u, p, 8)[k + 1] = Folded(t[i])
    <3>1. At(u, p, 8)[k] = Folded(u[p[k]]) /\ At(u, p, 8)[k + 1] = Folded(u[p[k + 1]])
      BY <1>14, <2>1, Zenon
    <3>2. u[p[k]] = t[j] /\ u[p[k + 1]] = t[i]
      BY <1>4, <1>16, <2>1, Zenon
    <3>3. QED
      BY <3>1, <3>2, Zenon
  <2>3. \A m \in 1..8 \ {k, k + 1} : At(u, p, 8)[m] = At(t, p, 8)[m]
    <3> TAKE m \in 1..8 \ {k, k + 1}
    <3>1. u[p[m]] = t[p[m]]
      BY <1>17
    <3>2. QED
      BY <1>14, <3>1
  <2>4. QED
    BY <2>2, <2>3
<1>19. QED
  BY <1>4, <1>5, <1>7, <1>9, <1>11, <1>13, <1>18 DEF Swapped

\* u is t with c put in at i.
Inserted(t, i, c, u) ==
  /\ u \in Seq(Nat) /\ Len(u) = Len(t) + 1
  /\ \A j \in 1..(i - 1) : u[j] = t[j]
  /\ u[i] = c
  /\ \A j \in i..Len(t) : u[j + 1] = t[j]

LEMMA InsertedIs ==
  ASSUME NEW t \in Seq(Nat), NEW i \in 1..(Len(t) + 1), NEW c \in Nat
  PROVE  Inserted(t, i, c, InsertAt(t, i, c))
<1> DEFINE g == SubSeq(t, 1, i - 1)
           m == <<c>>
           h == SubSeq(t, i, Len(t))
           front == g \o m
           u == front \o h
<1>0. Len(t) \in Nat /\ i \in Nat /\ i - 1 \in Nat
  BY LenProperties
<1>1. g \in Seq(Nat) /\ Len(g) = i - 1 /\ \A j \in 1..(i - 1) : g[j] = t[j]
  BY <1>0, PartIs
<1>2. /\ h \in Seq(Nat) /\ Len(h) = Len(t) + 1 - i
      /\ \A j \in 1..(Len(t) + 1 - i) : h[j] = t[i - 1 + j]
  BY <1>0, PartIs
<1>3. m \in Seq(Nat) /\ Len(m) = 1 /\ m[1] = c
  OBVIOUS
<1> HIDE DEF g, m, h
<1>4. Joined(front, g, m)
  BY <1>1, <1>3, ConcatTwo
<1>5. Joined(u, front, h)
  BY <1>2, <1>4, ConcatTwo DEF Joined
<1>6. InsertAt(t, i, c) = u
  BY DEF InsertAt, g, m, h
<1> HIDE DEF front, u
<1>7. Len(front) = i /\ u \in Seq(Nat) /\ Len(u) = Len(t) + 1
  BY <1>0, <1>1, <1>2, <1>3, <1>4, <1>5 DEF Joined
<1>8. ASSUME NEW j \in 1..(i - 1) PROVE u[j] = t[j]
  <2>1. j \in 1..Len(g) /\ j \in 1..Len(front)
    BY <1>0, <1>1, <1>7
  <2>2. front[j] = g[j] /\ u[j] = front[j]
    BY <2>1, <1>4, <1>5 DEF Joined
  <2>3. QED
    BY <2>2, <1>1
<1>9. u[i] = c
  <2>1. i \in 1..Len(front) /\ 1 \in 1..Len(m) /\ Len(g) + 1 = i
    BY <1>0, <1>1, <1>3, <1>7
  <2>2. front[Len(g) + 1] = m[1] /\ u[i] = front[i]
    BY <2>1, <1>4, <1>5 DEF Joined
  <2>3. QED
    BY <2>1, <2>2, <1>3
<1>10. ASSUME NEW j \in i..Len(t) PROVE u[j + 1] = t[j]
  <2>1. /\ j + 1 - i \in 1..Len(h) /\ i + (j + 1 - i) = j + 1
        /\ i - 1 + (j + 1 - i) = j
    BY <1>0, <1>2
  <2>2. u[Len(front) + (j + 1 - i)] = h[j + 1 - i]
    BY <2>1, <1>5 DEF Joined
  <2>3. h[j + 1 - i] = t[i - 1 + (j + 1 - i)]
    BY <2>1, <1>2
  <2>4. QED
    BY <2>1, <2>2, <2>3, <1>7
<1>11. QED
  BY <1>6, <1>7, <1>8, <1>9, <1>10 DEF Inserted

LEMMA RemovedIs ==
  ASSUME NEW t \in Seq(Nat), NEW i \in 1..Len(t)
  PROVE  /\ RemoveAt(t, i) \in Seq(Nat) /\ Len(RemoveAt(t, i)) = Len(t) - 1
         /\ \A j \in 1..(i - 1) : RemoveAt(t, i)[j] = t[j]
         /\ \A j \in (i + 1)..Len(t) : RemoveAt(t, i)[j - 1] = t[j]
<1> DEFINE a == i + 1
           g == SubSeq(t, 1, i - 1)
           h == SubSeq(t, a, Len(t))
           u == g \o h
<1>0. Len(t) \in Nat /\ i \in Nat /\ i - 1 \in Nat /\ a \in Nat \ {0} /\ a <= Len(t) + 1
  BY LenProperties
<1>1. g \in Seq(Nat) /\ Len(g) = i - 1 /\ \A j \in 1..(i - 1) : g[j] = t[j]
  BY <1>0, PartIs
<1>a. a = i + 1
  OBVIOUS
<1> HIDE DEF a
<1>2. /\ h \in Seq(Nat) /\ Len(h) = Len(t) + 1 - a
      /\ \A j \in 1..(Len(t) + 1 - a) : h[j] = t[a - 1 + j]
  BY <1>0, PartIs
<1> HIDE DEF g, h
<1>3. Joined(u, g, h)
  BY <1>1, <1>2, ConcatTwo
<1>4. RemoveAt(t, i) = u
  BY DEF RemoveAt, g, h, a
<1> HIDE DEF u
<1>5. u \in Seq(Nat) /\ Len(u) = Len(t) - 1
  BY <1>0, <1>a, <1>1, <1>2, <1>3 DEF Joined
<1>6. ASSUME NEW j \in 1..(i - 1) PROVE u[j] = t[j]
  BY <1>1, <1>3 DEF Joined
<1>7. ASSUME NEW j \in (i + 1)..Len(t) PROVE u[j - 1] = t[j]
  <2>1. j - i \in 1..Len(h) /\ (i - 1) + (j - i) = j - 1 /\ a - 1 + (j - i) = j
    BY <1>0, <1>a, <1>2
  <2>2. u[Len(g) + (j - i)] = h[j - i]
    BY <2>1, <1>3 DEF Joined
  <2>3. h[j - i] = t[a - 1 + (j - i)]
    BY <2>1, <1>2
  <2>4. QED
    BY <2>1, <2>2, <2>3, <1>1
<1>8. QED
  BY <1>4, <1>5, <1>6, <1>7

\* One text has the characters of the other that count, in their order, at the places
\* f moves them to.  Then both have the same symbols.
Moves(f, t, u) ==
  /\ f \in [Counted(t) -> Counted(u)]
  /\ \A x, y \in Counted(t) : x < y => f[x] < f[y]
  /\ \A y \in Counted(u) : \E x \in Counted(t) : f[x] = y
  /\ \A x \in Counted(t) : u[f[x]] = t[x]

LEMMA MovedText ==
  ASSUME NEW t \in Seq(Nat), NEW u \in Seq(Nat), NEW p, Enumerates(p, Counted(t), 8),
         NEW f, Moves(f, t, u)
  PROVE  /\ Enumerates([k \in 1..8 |-> f[p[k]]], Counted(u), 8)
         /\ At(u, [k \in 1..8 |-> f[p[k]]], 8) = At(t, p, 8)
<1> DEFINE S == Counted(t)
           T == Counted(u)
           q == [k \in 1..8 |-> f[p[k]]]
<1>1. S \in SUBSET Int /\ T \in SUBSET Int /\ 8 \in Nat
  BY CountedIsPlaces DEF Places
<1>2. Enumerates(q, T, 8)
  <2>1. f \in [S -> T] /\ Enumerates(p, S, 8)
    BY DEF Moves
  <2>2. \A i, j \in S : i < j => f[i] < f[j]
    BY DEF Moves
  <2>3. \A j \in T : \E i \in S : f[i] = j
    BY DEF Moves
  <2> HIDE DEF S, T
  <2>4. QED
    BY <1>1, <2>1, <2>2, <2>3, EnumerationMoves
<1>3. \A k \in 1..8 : p[k] \in S
  BY DEF Enumerates
<1>4. At(u, q, 8) = At(t, p, 8)
  BY <1>3 DEF Moves, At
<1>5. QED
  BY <1>2, <1>4

\* One text has the listed symbols of another.
KeepsSymbols(t, p, u) ==
  \E q : Enumerates(q, Counted(u), 8) /\ At(u, q, 8) = At(t, p, 8)

\* A character that does not count is put in.
LEMMA InsertedText ==
  ASSUME NEW t \in Seq(Nat), Plain(t), NEW p, Enumerates(p, Counted(t), 8),
         NEW i \in 1..(Len(t) + 1), NEW c \in Nat \ {Slash, 63, 35}, IsStrippable(c),
         NEW u, u = InsertAt(t, i, c)
  PROVE  /\ u \in Seq(Nat) /\ Plain(u) /\ Len(u) = Len(t) + 1
         /\ KeepsSymbols(t, p, u)
<1> DEFINE f == [x \in Counted(t) |-> IF x < i THEN x ELSE x + 1]
<1>0. Len(t) \in Nat /\ i \in Nat
  BY LenProperties
<1>1. /\ u \in Seq(Nat) /\ Len(u) = Len(t) + 1
      /\ \A j \in 1..(i - 1) : u[j] = t[j]
      /\ u[i] = c
      /\ \A j \in i..Len(t) : u[j + 1] = t[j]
  <2>1. c \in Nat
    OBVIOUS
  <2>2. Inserted(t, i, c, u)
    BY <2>1, InsertedIs
  <2>3. QED
    BY <2>2 DEF Inserted
<1>2. \A j \in 1..Len(u) :
        \/ j \in 1..(i - 1) /\ u[j] = t[j]
        \/ j = i /\ u[j] = c
        \/ j - 1 \in i..Len(t) /\ u[j] = t[j - 1]
  <2> TAKE j \in 1..Len(u)
  <2>1. j \in 1..(i - 1) \/ j = i \/ (j - 1 \in i..Len(t) /\ (j - 1) + 1 = j)
    BY <1>0, <1>1
  <2>2. QED
    BY <1>1, <2>1
<1>3. Plain(u)
  <2> SUFFICES ASSUME NEW j \in 1..Len(u) PROVE u[j] \notin {Slash, 63, 35}
    BY DEF Plain
  <2>1. 1..(i - 1) \subseteq 1..Len(t) /\ i..Len(t) \subseteq 1..Len(t)
    BY <1>0
  <2>2. QED
    BY <1>2, <2>1 DEF Plain
<1>4. /\ Counted(t) = {x \in 1..Len(t) : ~IsStrippable(t[x])}
      /\ Counted(u) = {x \in 1..Len(u) : ~IsStrippable(u[x])}
  BY <1>1, CountedIsPlaces DEF Places
<1>5. \A x \in Counted(t) : f[x] \in Counted(u) /\ u[f[x]] = t[x]
  <2> TAKE x \in Counted(t)
  <2>1. x \in 1..Len(t) /\ ~IsStrippable(t[x]) /\ f[x] = IF x < i THEN x ELSE x + 1
    BY <1>4
  <2> HIDE DEF f
  <2>2. f[x] \in 1..Len(u) /\ u[f[x]] = t[x]
    <3>1. CASE x < i
      BY <1>0, <1>1, <2>1, <3>1
    <3>2. CASE ~(x < i)
      BY <1>0, <1>1, <2>1, <3>2
    <3>3. QED
      BY <3>1, <3>2
  <2>3. QED
    BY <1>4, <2>1, <2>2
<1>6. \A x, y \in Counted(t) : x < y => f[x] < f[y]
  BY <1>0, <1>4
<1>7. \A j \in Counted(u) : \E x \in Counted(t) : f[x] = j
  <2> TAKE j \in Counted(u)
  <2>1. j \in 1..Len(u) /\ ~IsStrippable(u[j])
    BY <1>4
  <2>2. CASE j \in 1..(i - 1) /\ u[j] = t[j]
    BY <1>0, <1>4, <2>1, <2>2
  <2>3. CASE j - 1 \in i..Len(t) /\ u[j] = t[j - 1]
    <3>1. j - 1 \in Counted(t) /\ ~(j - 1 < i) /\ (j - 1) + 1 = j
      BY <1>0, <1>4, <2>1, <2>3
    <3>2. QED
      BY <3>1
  <2>4. QED
    BY <1>2, <2>1, <2>2, <2>3
<1>8. Moves(f, t, u)
  BY <1>5, <1>6, <1>7 DEF Moves
<1> HIDE DEF f
<1>9. /\ Enumerates([k \in 1..8 |-> f[p[k]]], Counted(u), 8)
      /\ At(u, [k \in 1..8 |-> f[p[k]]], 8) = At(t, p, 8)
  BY <1>1, <1>8, MovedText, SMTT(30)
<1>10. QED
  BY <1>1, <1>3, <1>9 DEF KeepsSymbols

\* One is taken out.
LEMMA RemovedText ==
  ASSUME NEW t \in Seq(Nat), Plain(t), NEW p, Enumerates(p, Counted(t), 8),
         NEW i \in 1..Len(t), IsStrippable(t[i]), NEW u, u = RemoveAt(t, i)
  PROVE  /\ u \in Seq(Nat) /\ Plain(u) /\ Len(u) = Len(t) - 1
         /\ OneToken(t) => OneToken(u)
         /\ KeepsSymbols(t, p, u)
<1> DEFINE f == [x \in Counted(t) |-> IF x < i THEN x ELSE x - 1]
           Back(j) == IF j < i THEN j ELSE j + 1
<1>0. Len(t) \in Nat /\ i \in Nat
  BY LenProperties
<1>1. /\ u \in Seq(Nat) /\ Len(u) = Len(t) - 1
      /\ \A j \in 1..(i - 1) : u[j] = t[j]
      /\ \A j \in (i + 1)..Len(t) : u[j - 1] = t[j]
  BY RemovedIs
<1>2. \A j \in 1..Len(u) : Back(j) \in 1..Len(t) /\ Back(j) # i /\ u[j] = t[Back(j)]
  <2> TAKE j \in 1..Len(u)
  <2>1. CASE j < i
    <3>1. j \in 1..(i - 1) /\ j \in 1..Len(t) /\ j # i
      BY <1>0, <1>1, <2>1
    <3>2. QED
      BY <1>1, <2>1, <3>1
  <2>2. CASE ~(j < i)
    <3>1. j + 1 \in (i + 1)..Len(t) /\ (j + 1) - 1 = j
      BY <1>0, <1>1, <2>2
    <3>2. u[(j + 1) - 1] = t[j + 1]
      BY <1>1, <3>1
    <3>3. QED
      BY <1>0, <2>2, <3>1, <3>2
  <2>3. QED
    BY <2>1, <2>2
<1>3. Plain(u)
  BY <1>2 DEF Plain
<1>4. /\ Counted(t) = {x \in 1..Len(t) : ~IsStrippable(t[x])}
      /\ Counted(u) = {x \in 1..Len(u) : ~IsStrippable(u[x])}
  BY <1>1, CountedIsPlaces DEF Places
<1>5. \A x \in Counted(t) : f[x] \in Counted(u) /\ u[f[x]] = t[x]
  <2> TAKE x \in Counted(t)
  <2>1. /\ x \in 1..Len(t) /\ ~IsStrippable(t[x]) /\ x # i
        /\ f[x] = IF x < i THEN x ELSE x - 1
    BY <1>4
  <2> HIDE DEF f
  <2>2. f[x] \in 1..Len(u) /\ u[f[x]] = t[x]
    <3>1. CASE x < i
      BY <1>0, <1>1, <2>1, <3>1
    <3>2. CASE ~(x < i)
      BY <1>0, <1>1, <2>1, <3>2
    <3>3. QED
      BY <3>1, <3>2
  <2>3. QED
    BY <1>4, <2>1, <2>2
<1>6. \A x, y \in Counted(t) : x < y => f[x] < f[y]
  <2> SUFFICES ASSUME NEW x \in Counted(t), NEW y \in Counted(t), x < y
               PROVE  f[x] < f[y]
    OBVIOUS
  <2>1. x \in Int /\ y \in Int /\ x # i /\ y # i
    BY <1>4
  <2>2. QED
    BY <1>0, <2>1
<1>7. \A j \in Counted(u) : \E x \in Counted(t) : f[x] = j
  <2> TAKE j \in Counted(u)
  <2>1. j \in 1..Len(u) /\ ~IsStrippable(u[j])
    BY <1>4
  <2>2. Back(j) \in Counted(t)
    BY <1>2, <1>4, <2>1
  <2>3. f[Back(j)] = j
    BY <1>0, <2>1, <2>2
  <2>4. QED
    BY <2>2, <2>3
<1>8. Moves(f, t, u)
  BY <1>5, <1>6, <1>7 DEF Moves
<1> HIDE DEF f
<1>9. /\ Enumerates([k \in 1..8 |-> f[p[k]]], Counted(u), 8)
      /\ At(u, [k \in 1..8 |-> f[p[k]]], 8) = At(t, p, 8)
  BY <1>1, <1>8, MovedText
<1>10. ASSUME OneToken(t) PROVE OneToken(u)
  <2>1. DOMAIN t = 1..Len(t) /\ DOMAIN u = 1..Len(u)
    BY <1>1, LenProperties
  <2> SUFFICES ASSUME NEW j \in 1..Len(u), u[j] \in Spaces
               PROVE  \/ \A x \in 1..(j - 1) : IsStrippable(u[x])
                      \/ \A k \in j..Len(u) : u[k] \in Spaces
    BY <2>1 DEF OneToken
  <2>2. Back(j) \in 1..Len(t) /\ t[Back(j)] \in Spaces
    BY <1>2
  <2>3. \/ \A x \in 1..(Back(j) - 1) : IsStrippable(t[x])
        \/ \A k \in Back(j)..Len(t) : t[k] \in Spaces
    BY <1>10, <2>1, <2>2 DEF OneToken
  <2>4. CASE \A x \in 1..(Back(j) - 1) : IsStrippable(t[x])
    <3>1. ASSUME NEW x \in 1..(j - 1) PROVE IsStrippable(u[x])
      <4>1. x \in 1..Len(u) /\ Back(x) \in 1..(Back(j) - 1)
        BY <1>0, <1>1
      <4>2. QED
        BY <1>2, <2>4, <4>1
    <3>2. QED
      BY <3>1
  <2>5. CASE \A k \in Back(j)..Len(t) : t[k] \in Spaces
    <3>1. ASSUME NEW k \in j..Len(u) PROVE u[k] \in Spaces
      <4>1. k \in 1..Len(u) /\ Back(k) \in 1..Len(t) /\ Back(k) >= Back(j)
        BY <1>0, <1>1, <1>2, SMTT(30)
      <4>2. Back(k) \in Back(j)..Len(t)
        BY <4>1, <2>2
      <4>3. QED
        BY <1>2, <2>5, <4>1, <4>2
    <3>2. QED
      BY <3>1
  <2>6. QED
    BY <2>3, <2>4, <2>5
<1>11. QED
  BY <1>1, <1>3, <1>9, <1>10 DEF KeepsSymbols
-----------------------------------------------------------------------------
(* Labels.                                                                 *)

\* The text has the symbols of an ID, or with a slip these but for that.
Copies(t, v, n) ==
  \E p : /\ Enumerates(p, Counted(t), 8)
         /\ n = 0 => At(t, p, 8) = Canonical(v)
         /\ n = 1 => Slip(At(t, p, 8), v)

\* The display form does.
LEMMA DisplayCopies ==
  ASSUME NEW v \in Codes
  PROVE  LET t == FormatDisplay(Canonical(v))
         IN  t \in Seq(Nat) /\ Plain(t) /\ Len(t) = 9 /\ Copies(t, v, 0)
<1> DEFINE c == Canonical(v)
           t == FormatDisplay(c)
           p == [k \in 1..8 |-> k]
<1>1. /\ c \in [1..8 -> Nat]
      /\ \A i \in 1..8 : c[i] \in Nat \ {Slash, 63, 35} /\ ~IsStrippable(c[i]) /\ Folded(c[i]) = c[i]
  BY CanonicalIs, AlphabetIsPlain
<1> HIDE DEF c
<1>2. c \in Seq(Nat) /\ Len(c) = 8
  <2>1. 8 \in Nat /\ c = [i \in 1..8 |-> c[i]]
    BY <1>1
  <2>2. QED
    BY <1>1, <2>1, SeqDef, LenProperties
<1>3. Plain(c)
  BY <1>1, <1>2 DEF Plain
<1>4. Counted(c) = 1..8
  BY <1>1, <1>2, CountedIsPlaces DEF Places
<1>5. Enumerates(p, Counted(c), 8)
  BY <1>4 DEF Enumerates
<1>6. At(c, p, 8) = c
  BY <1>1 DEF At
<1>7. Hyphen \in Nat \ {Slash, 63, 35} /\ IsStrippable(Hyphen) /\ 5 \in 1..(Len(c) + 1)
  BY <1>2 DEF Hyphen, Slash, IsStrippable
<1>8. t = InsertAt(c, 5, Hyphen)
  BY <1>2 DEF FormatDisplay, InsertAt
<1> HIDE DEF t, p
<1>9. t \in Seq(Nat) /\ Plain(t) /\ Len(t) = Len(c) + 1 /\ KeepsSymbols(c, p, t)
  BY <1>2, <1>3, <1>5, <1>7, <1>8, InsertedText
<1>10. Copies(t, v, 0)
  BY <1>6, <1>9 DEF Copies, KeepsSymbols, c
<1>11. QED
  BY <1>2, <1>9, <1>10 DEF t, c

\* The symbols in a text are characters.
LEMMA AtIs ==
  ASSUME NEW t \in Seq(Nat), NEW p, Enumerates(p, Counted(t), 8)
  PROVE  At(t, p, 8) \in [1..8 -> Nat] /\ \A k \in 1..8 : At(t, p, 8)[k] = Folded(t[p[k]])
<1>1. \A k \in 1..8 : p[k] \in 1..Len(t)
  BY ListedPlaces
<1>2. \A k \in 1..8 : t[p[k]] \in Nat
  BY <1>1, LenProperties
<1>3. QED
  BY <1>2, FoldedCounts DEF At

\* What a symbol is written as does not matter.
LEMMA RespelledCopies ==
  ASSUME NEW t \in Seq(Nat), Plain(t), NEW v, NEW n, Copies(t, v, n),
         NEW i \in Counted(t), NEW c \in Nat \ {Slash, 63, 35}, Folded(c) = Folded(t[i])
  PROVE  LET u == [t EXCEPT ![i] = c]
         IN  /\ u \in Seq(Nat) /\ Plain(u) /\ Len(u) = Len(t)
             /\ OneToken(t) => OneToken(u)
             /\ Copies(u, v, n)
<1> DEFINE u == [t EXCEPT ![i] = c]
<1>1. PICK p : /\ Enumerates(p, Counted(t), 8)
               /\ n = 0 => At(t, p, 8) = Canonical(v)
               /\ n = 1 => Slip(At(t, p, 8), v)
  BY DEF Copies
<1>2. PICK k \in 1..8 : p[k] = i
  BY <1>1, ListedPlaces
<1>3. ~IsStrippable(t[i]) /\ t[i] \in Nat
  BY CountedIsPlaces, LenProperties DEF Places
<1>4. ~IsStrippable(c)
  BY <1>3, FoldedCounts
<1>5. u = [t EXCEPT ![p[k]] = c]
  BY <1>2
<1> HIDE DEF u
<1>6. Respelled(t, u, p, k, c)
  BY <1>1, <1>4, <1>5, RespelledText
<1>7. At(u, p, 8) = At(t, p, 8)
  <2>1. At(t, p, 8)[k] = Folded(c)
    BY <1>2 DEF At
  <2>2. \A m \in 1..8 : At(u, p, 8)[m] = At(t, p, 8)[m]
    BY <1>6, <2>1 DEF Respelled
  <2>3. QED
    BY <2>2 DEF At
<1>8. Copies(u, v, n)
  BY <1>1, <1>6, <1>7 DEF Copies, Respelled
<1>9. QED
  BY <1>6, <1>8 DEF u, Respelled

\* A symbol mistaken for another is a slip.
LEMMA MistakenCopies ==
  ASSUME NEW t \in Seq(Nat), Plain(t), NEW v, Copies(t, v, 0),
         NEW i \in Counted(t), NEW c \in Nat \ {Slash, 63, 35}, ~IsStrippable(c),
         Folded(c) # Folded(t[i])
  PROVE  LET u == [t EXCEPT ![i] = c]
         IN  /\ u \in Seq(Nat) /\ Plain(u) /\ Len(u) = Len(t)
             /\ OneToken(t) => OneToken(u)
             /\ Copies(u, v, 1)
<1> DEFINE u == [t EXCEPT ![i] = c]
<1>1. PICK p : Enumerates(p, Counted(t), 8) /\ At(t, p, 8) = Canonical(v)
  BY DEF Copies
<1>2. PICK k \in 1..8 : p[k] = i
  BY <1>1, ListedPlaces
<1>3. u = [t EXCEPT ![p[k]] = c]
  BY <1>2
<1> HIDE DEF u
<1>4. Respelled(t, u, p, k, c)
  BY <1>1, <1>3, RespelledText
<1>5. At(u, p, 8) \in [1..8 -> Int]
  BY <1>4, AtIs DEF Respelled
<1>6. At(u, p, 8)[k] # Canonical(v)[k]
  <2>1. At(t, p, 8)[k] = Folded(t[i])
    BY <1>2 DEF At
  <2>2. At(u, p, 8)[k] = Folded(c)
    BY <1>4 DEF Respelled
  <2>3. QED
    BY <1>1, <2>1, <2>2
<1>7. \A m \in 1..8 \ {k} : At(u, p, 8)[m] = Canonical(v)[m]
  BY <1>1, <1>4 DEF Respelled
<1>8. Slip(At(u, p, 8), v)
  BY <1>5, <1>6, <1>7 DEF Slip
<1>9. Copies(u, v, 1)
  BY <1>4, <1>8 DEF Copies, Respelled
<1>10. QED
  BY <1>4, <1>9 DEF u, Respelled

\* So are two that are swapped.
LEMMA SwappedCopies ==
  ASSUME NEW t \in Seq(Nat), Plain(t), NEW v, Copies(t, v, 0),
         NEW i \in Counted(t), NEW j \in Counted(t), i < j,
         Counted(t) \cap (i + 1)..(j - 1) = {}, Folded(t[i]) # Folded(t[j])
  PROVE  LET u == [t EXCEPT ![i] = t[j], ![j] = t[i]]
         IN  /\ u \in Seq(Nat) /\ Plain(u) /\ Len(u) = Len(t)
             /\ OneToken(t) => OneToken(u)
             /\ Copies(u, v, 1)
<1> DEFINE u == [t EXCEPT ![i] = t[j], ![j] = t[i]]
<1>1. PICK p : Enumerates(p, Counted(t), 8) /\ At(t, p, 8) = Canonical(v)
  BY DEF Copies
<1>2. u = [t EXCEPT ![i] = t[j], ![j] = t[i]]
  OBVIOUS
<1> HIDE DEF u
<1>3. Swapped(t, u, p, i, j)
  BY <1>1, <1>2, SwappedText
<1>4. PICK k \in 1..7 : /\ p[k] = i /\ p[k + 1] = j
                        /\ At(u, p, 8)[k] = Folded(t[j])
                        /\ At(u, p, 8)[k + 1] = Folded(t[i])
                        /\ \A m \in 1..8 \ {k, k + 1} : At(u, p, 8)[m] = At(t, p, 8)[m]
  BY <1>3 DEF Swapped
<1>5. At(u, p, 8) \in [1..8 -> Int]
  BY <1>3, AtIs DEF Swapped
<1>6. Canonical(v)[k] = Folded(t[i]) /\ Canonical(v)[k + 1] = Folded(t[j])
  <2>1. k \in 1..8 /\ k + 1 \in 1..8
    OBVIOUS
  <2>2. At(t, p, 8)[k] = Folded(t[i]) /\ At(t, p, 8)[k + 1] = Folded(t[j])
    BY <1>4, <2>1 DEF At
  <2>3. QED
    BY <1>1, <2>2
<1>7. Slip(At(u, p, 8), v)
  <2> DEFINE s == At(u, p, 8)
             w == Canonical(v)
  <2>1. s \in [1..8 -> Int] /\ s[k] = w[k + 1] /\ s[k + 1] = w[k]
    BY <1>4, <1>5, <1>6, Zenon
  <2>2. \A m \in 1..8 \ {k, k + 1} : s[m] = w[m]
    BY <1>1, <1>4, Zenon
  <2>3. w[k] # w[k + 1]
    BY <1>6, Zenon
  <2> HIDE DEF s
  <2>4. QED
    BY <2>1, <2>2, <2>3, Zenon DEF Slip, s
<1>8. Copies(u, v, 1)
  BY <1>3, <1>7 DEF Copies, Swapped
<1>9. QED
  BY <1>3, <1>8 DEF u, Swapped

\* What may be in front of a text, for its symbols to be read.
Precedes(pre, t) ==
  /\ pre \in Seq(Nat)
  /\ \/ pre = <<>>
     \/ pre # <<>> /\ pre[Len(pre)] \in Spaces /\ OneToken(t)

\* The symbols in a text are read, with a prefix or without.
LEMMA TextIsRead ==
  ASSUME NEW t \in Seq(Nat), NEW pre, Precedes(pre, t), NEW p, Enumerates(p, Counted(t), 8)
  PROVE  /\ Trim(pre \o t) # <<>>
         /\ Squash(CodePart(Trim(pre \o t))) = At(t, p, 8)
<1> DEFINE whole == pre \o t
           c == Len(pre)
           a == c + 1
           S == Counted(t)
           T == Places(whole, a, Len(whole))
           f == [x \in S |-> x + c]
           q == [k \in 1..8 |-> f[p[k]]]
<1>0. pre \in Seq(Nat) /\ c \in Nat /\ Len(t) \in Nat /\ DOMAIN t = 1..Len(t)
  BY LenProperties DEF Precedes
<1>1. Joined(whole, pre, t)
  BY <1>0, ConcatTwo
<1> HIDE DEF whole
<1>2. /\ whole \in Seq(Nat) /\ Len(whole) = c + Len(t)
      /\ \A i \in 1..c : whole[i] = pre[i]
      /\ \A i \in 1..Len(t) : whole[c + i] = t[i]
  BY <1>1 DEF Joined
<1>3. /\ \A k \in 1..8 : p[k] \in 1..Len(t)
      /\ \A k \in 1..8 : p[k] \in S
  BY ListedPlaces DEF Enumerates
<1>4. a \in 1..Len(whole)
  <2>1. p[1] \in 1..Len(t)
    BY <1>3
  <2>2. QED
    BY <1>0, <1>2, <2>1
<1>5. S = {i \in 1..Len(t) : ~IsStrippable(t[i])}
  BY CountedIsPlaces DEF Places
<1>6. \A x \in S : x \in Int /\ x + c \in T /\ whole[x + c] = t[x]
  <2> TAKE x \in S
  <2>1. x \in 1..Len(t) /\ ~IsStrippable(t[x]) /\ x + c = c + x /\ c + x \in a..Len(whole)
    BY <1>0, <1>2, <1>5
  <2>2. whole[x + c] = t[x]
    BY <1>2, <2>1
  <2>3. QED
    BY <2>1, <2>2 DEF Places
<1>7. \A y \in T : \E x \in S : f[x] = y
  <2> TAKE y \in T
  <2>1. y \in a..Len(whole) /\ ~IsStrippable(whole[y])
    BY DEF Places
  <2>2. y - c \in 1..Len(t) /\ c + (y - c) = y /\ (y - c) + c = y
    BY <1>0, <1>2, <2>1
  <2>3. whole[y] = t[y - c]
    BY <1>2, <2>2
  <2>4. y - c \in S
    BY <1>5, <2>1, <2>2, <2>3
  <2>5. QED
    BY <2>2, <2>4
<1>8. Enumerates(q, T, 8)
  <2>1. S \in SUBSET Int /\ T \in SUBSET Int /\ 8 \in Nat /\ Enumerates(p, S, 8)
    BY <1>5 DEF Places
  <2>2. f \in [S -> T]
    BY <1>6
  <2>3. \A x, y \in S : x < y => f[x] < f[y]
    BY <1>0, <1>6
  <2> HIDE DEF S, T, f
  <2>4. QED
    BY <1>7, <2>1, <2>2, <2>3, EnumerationMoves
<1>9. At(whole, q, 8) = At(t, p, 8)
  <2>1. \A k \in 1..8 : whole[q[k]] = t[p[k]]
    BY <1>3, <1>6
  <2> HIDE DEF q
  <2>2. QED
    BY <2>1 DEF At
<1>10. a = 1 \/ OneTokenFrom(whole, a)
  <2>1. CASE pre = <<>>
    BY <2>1
  <2>2. CASE pre # <<>> /\ pre[Len(pre)] \in Spaces /\ OneToken(t)
    <3>1. c > 0 /\ a - 1 = c /\ c \in 1..c
      BY <1>0, <2>2, EmptySeq
    <3>2. a > 1 /\ whole[a - 1] \in Spaces
      BY <1>0, <1>2, <2>2, <3>1, SMTT(30)
    <3>3. ASSUME NEW j \in a..Len(whole), whole[j] \in Spaces
          PROVE  \/ \A i \in a..(j - 1) : IsStrippable(whole[i])
                 \/ \A k \in j..Len(whole) : whole[k] \in Spaces
      <4>1. \A i \in a..Len(whole) : i - c \in 1..Len(t) /\ whole[i] = t[i - c]
        <5> TAKE i \in a..Len(whole)
        <5>1. i - c \in 1..Len(t) /\ c + (i - c) = i
          BY <1>0, <1>2
        <5>2. QED
          BY <1>2, <5>1
      <4>2. \/ \A i \in 1..(j - c - 1) : IsStrippable(t[i])
            \/ \A k \in (j - c)..Len(t) : t[k] \in Spaces
        BY <1>0, <2>2, <3>3, <4>1 DEF OneToken
      <4>3. ASSUME NEW i \in a..(j - 1) PROVE i \in a..Len(whole) /\ i - c \in 1..(j - c - 1)
        BY <1>0, <1>2
      <4>4. ASSUME NEW k \in j..Len(whole)
            PROVE  k \in a..Len(whole) /\ k - c \in (j - c)..Len(t)
        BY <1>0, <1>2
      <4>5. QED
        BY <4>1, <4>2, <4>3, <4>4
    <3>4. QED
      BY <3>2, <3>3 DEF OneTokenFrom
  <2>3. QED
    BY <2>1, <2>2 DEF Precedes
<1> HIDE DEF a, c, q, T, f
<1>11. Enumerates(q, Places(whole, a, Len(whole)), 8)
  BY <1>8 DEF T
<1>12. Trim(whole) # <<>> /\ Squash(CodePart(Trim(whole))) = At(whole, q, 8)
  BY <1>2, <1>4, <1>10, <1>11, SymbolsAreRead
<1>13. QED
  BY <1>9, <1>12 DEF whole
-----------------------------------------------------------------------------
\* What the changes preserve: the copy has the symbols of its ID, which checks, or
\* these with one slip, and is one token behind a prefix.
LabelCorrect ==
  /\ id \in Codes /\ CheckHolds(id)
  /\ text \in Seq(Nat) /\ Plain(text) /\ changes \in 0..MaxChanges
  /\ Len(text) <= SHORTID_TOTAL_SYMBOLS + 1 + changes
  /\ slips \in {0, 1} /\ Copies(text, id, slips)
  /\ prefix \in {<<>>, Prefix} /\ (prefix # <<>> => OneToken(text))

LEMMA PrefixIs ==
  /\ Prefix \in Seq(Nat) /\ Plain(Prefix) /\ Prefix # <<>> /\ Prefix[Len(Prefix)] \in Spaces
  /\ Chars \subseteq Nat \ {Slash, 63, 35} /\ MaxChanges \in Nat
  /\ Len(Prefix) + SHORTID_TOTAL_SYMBOLS + 1 + MaxChanges < CODE_MAX
<1>1. Prefix \in Seq(Nat \ {Slash, 63, 35})
  BY TypedAssumption
<1>2. Prefix \in Seq(Nat) /\ Plain(Prefix)
  <2>1. Nat \ {Slash, 63, 35} \subseteq Nat
    OBVIOUS
  <2>2. Prefix \in Seq(Nat)
    BY <1>1, <2>1, SeqMonotonic
  <2>3. \A i \in 1..Len(Prefix) : Prefix[i] \in Nat \ {Slash, 63, 35}
    BY <1>1, ElementOfSeq
  <2>4. QED
    BY <2>2, <2>3 DEF Plain
<1>3. QED
  BY <1>2, TypedAssumption

\* A correct copy is read so.
LEMMA CorrectCopyIsRead ==
  ASSUME LabelCorrect
  PROVE  CleanCopyIsRead /\ SlipIsRefused
<1>1. Precedes(prefix, text) /\ text \in Seq(Nat)
  BY PrefixIs, EmptySeq DEF LabelCorrect, Precedes
<1>2. PICK p : /\ Enumerates(p, Counted(text), 8)
               /\ slips = 0 => At(text, p, 8) = Canonical(id)
               /\ slips = 1 => Slip(At(text, p, 8), id)
  BY Zenon DEF LabelCorrect, Copies
<1>3. Trim(Typed) # <<>> /\ Squash(CodePart(Trim(Typed))) = At(text, p, 8)
  BY <1>1, <1>2, TextIsRead DEF Typed
<1>4. id \in Codes /\ CheckHolds(id)
  BY DEF LabelCorrect
<1>5. CleanCopyIsRead
  BY <1>2, <1>3, <1>4, CodeIsRead DEF CleanCopyIsRead
<1>6. SlipIsRefused
  <2> SUFFICES ASSUME slips = 1 PROVE Validate(Typed).error # "ShortIdOk"
    BY DEF SlipIsRefused
  <2>1. Slip(Squash(CodePart(Trim(Typed))), id)
    BY <1>2, <1>3
  <2>2. QED
    BY <1>4, <2>1, SlipIsNotRead
<1>7. QED
  BY <1>5, <1>6

LEMMA LabelInitCorrect == LabelInit => LabelCorrect
<1> SUFFICES ASSUME LabelInit PROVE LabelCorrect
  OBVIOUS
<1>1. id \in Codes /\ CheckHolds(id)
  BY IdsAssumption DEF LabelInit
<1>2. text \in Seq(Nat) /\ Plain(text) /\ Len(text) = 9 /\ Copies(text, id, 0)
  BY <1>1, DisplayCopies DEF LabelInit
<1>3. /\ changes \in 0..MaxChanges /\ slips \in {0, 1} /\ slips = 0
      /\ prefix = <<>> /\ changes = 0
  BY PrefixIs DEF LabelInit
<1>4. Len(text) <= SHORTID_TOTAL_SYMBOLS + 1 + changes
  BY <1>2, <1>3 DEF SHORTID_TOTAL_SYMBOLS
<1>5. QED
  BY <1>1, <1>2, <1>3, <1>4 DEF LabelCorrect

LEMMA LabelNextCorrect == LabelCorrect /\ LabelNext => LabelCorrect'
<1> SUFFICES ASSUME LabelCorrect, LabelNext PROVE LabelCorrect'
  OBVIOUS
<1>1. /\ text \in Seq(Nat) /\ Plain(text) /\ Len(text) \in Nat /\ DOMAIN text = 1..Len(text)
      /\ Len(text) <= SHORTID_TOTAL_SYMBOLS + 1 + changes
      /\ slips \in {0, 1} /\ Copies(text, id, slips)
      /\ prefix \in {<<>>, Prefix} /\ (prefix # <<>> => OneToken(text))
      /\ Chars \subseteq Nat \ {Slash, 63, 35} /\ MaxChanges \in Nat
  BY LenProperties, PrefixIs DEF LabelCorrect
<1>2. ASSUME Change
      PROVE  /\ id' \in Codes /\ CheckHolds(id') /\ id' = id
             /\ changes' \in 0..MaxChanges /\ changes' = changes + 1 /\ changes \in Nat
  BY <1>2, <1>1 DEF Change, LabelCorrect
\* The text keeps what a change is to keep.
<1>3. ASSUME Change, text' \in Seq(Nat), Plain(text'), Len(text') <= Len(text) + 1,
             slips' \in {0, 1}, Copies(text', id, slips'),
             prefix' \in {<<>>, Prefix}, prefix' # <<>> => OneToken(text')
      PROVE  LabelCorrect'
  <2>1. Len(text') <= SHORTID_TOTAL_SYMBOLS + 1 + changes'
    BY <1>1, <1>2, <1>3, LenProperties DEF SHORTID_TOTAL_SYMBOLS
  <2>2. Copies(text', id', slips')
    BY <1>2, <1>3
  <2>3. QED
    BY <1>2, <1>3, <2>1, <2>2 DEF LabelCorrect
<1>4. CASE Respell
  <2>1. PICK i \in Counted(text), c \in Chars :
          Folded(c) = Folded(text[i]) /\ text' = [text EXCEPT ![i] = c]
    BY <1>4 DEF Respell, SymbolsAt
  <2>2. c \in Nat \ {Slash, 63, 35}
    BY <1>1
  <2>3. /\ text' \in Seq(Nat) /\ Plain(text') /\ Len(text') = Len(text)
        /\ OneToken(text) => OneToken(text')
        /\ Copies(text', id, slips)
    BY <1>1, <2>1, <2>2, RespelledCopies
  <2>4. Change /\ slips' = slips /\ prefix' = prefix
    BY <1>4 DEF Respell
  <2>5. QED
    BY <1>1, <1>3, <2>3, <2>4
<1>5. CASE Separate
  <2>1. PICK i \in 1..(Len(text) + 1), c \in {c \in Chars : IsStrippable(c)} :
          text' = InsertAt(text, i, c) /\ (prefix = <<>> \/ OneToken(text'))
    BY <1>5 DEF Separate, Separated
  <2>2. c \in Nat \ {Slash, 63, 35} /\ IsStrippable(c)
    BY <1>1
  <2>3. text' \in Seq(Nat) /\ Plain(text') /\ Len(text') = Len(text) + 1
        /\ Copies(text', id, slips)
    BY <1>1, <2>1, <2>2, InsertedText DEF Copies, KeepsSymbols
  <2>4. Change /\ slips' = slips /\ prefix' = prefix
    BY <1>5 DEF Separate
  <2>5. QED
    BY <1>1, <1>3, <2>1, <2>3, <2>4
<1>6. CASE Join
  <2>1. PICK i \in 1..Len(text) : i \notin Counted(text) /\ text' = RemoveAt(text, i)
    BY <1>1, <1>6 DEF Join, SymbolsAt
  <2>2. IsStrippable(text[i])
    BY <1>1, <2>1 DEF Counted
  <2>3. text' \in Seq(Nat) /\ Plain(text') /\ Len(text') = Len(text) - 1
        /\ (OneToken(text) => OneToken(text')) /\ Copies(text', id, slips)
    <3>1. PICK p : /\ Enumerates(p, Counted(text), 8)
                   /\ slips = 0 => At(text, p, 8) = Canonical(id)
                   /\ slips = 1 => Slip(At(text, p, 8), id)
      BY <1>1 DEF Copies
    <3>2. /\ text' \in Seq(Nat) /\ Plain(text') /\ Len(text') = Len(text) - 1
          /\ OneToken(text) => OneToken(text')
          /\ KeepsSymbols(text, p, text')
      BY <1>1, <2>1, <2>2, <3>1, RemovedText
    <3>3. QED
      BY <3>1, <3>2, Zenon DEF Copies, KeepsSymbols
  <2>4. Change /\ slips' = slips /\ prefix' = prefix
    BY <1>6 DEF Join
  <2>5. QED
    BY <1>1, <1>3, <2>3, <2>4
<1>7. CASE AddPrefix
  <2>1. Change /\ prefix' = Prefix /\ OneToken(text) /\ text' = text /\ slips' = slips
    BY <1>7 DEF AddPrefix
  <2>2. QED
    BY <1>1, <1>3, <2>1
<1>8. CASE Mistake
  <2>1. PICK i \in Counted(text), c \in Chars :
          /\ ~IsStrippable(c) /\ Folded(c) # Folded(text[i])
          /\ text' = [text EXCEPT ![i] = c]
    BY <1>8 DEF Mistake, SymbolsAt
  <2>2. c \in Nat \ {Slash, 63, 35} /\ Change /\ slips = 0 /\ slips' = 1 /\ prefix' = prefix
    BY <1>1, <1>8 DEF Mistake
  <2>3. /\ text' \in Seq(Nat) /\ Plain(text') /\ Len(text') = Len(text)
        /\ OneToken(text) => OneToken(text')
        /\ Copies(text', id, 1)
    BY <1>1, <2>1, <2>2, MistakenCopies
  <2>4. QED
    BY <1>1, <1>3, <2>2, <2>3
<1>9. CASE Swap
  <2>1. PICK i \in Counted(text), j \in Counted(text) :
          /\ i < j /\ Counted(text) \cap (i + 1)..(j - 1) = {}
          /\ Folded(text[i]) # Folded(text[j])
          /\ text' = [text EXCEPT ![i] = text[j], ![j] = text[i]]
    BY <1>9 DEF Swap, SymbolsAt
  <2>2. Change /\ slips = 0 /\ slips' = 1 /\ prefix' = prefix
    BY <1>9 DEF Swap
  <2>3. /\ text' \in Seq(Nat) /\ Plain(text') /\ Len(text') = Len(text)
        /\ OneToken(text) => OneToken(text')
        /\ Copies(text', id, 1)
    BY <1>1, <2>1, <2>2, SwappedCopies
  <2>4. QED
    BY <1>1, <1>3, <2>2, <2>3
<1>10. QED
  BY <1>4, <1>5, <1>6, <1>7, <1>8, <1>9 DEF LabelNext

LEMMA LabelIsCorrect == LabelSpec => []LabelCorrect
<1>1. LabelCorrect /\ UNCHANGED labelVars => LabelCorrect'
  BY Zenon DEF LabelCorrect, labelVars
<1>2. LabelCorrect /\ [LabelNext]_labelVars => LabelCorrect'
  BY <1>1, LabelNextCorrect
<1>3. QED
  BY <1>2, LabelInitCorrect, PTL DEF LabelSpec

\* However the copy of a label is spelled, grouped and prefixed, whatever the ID, it
\* is read as the ID on the label (shortid_validate).
THEOREM CleanCopiesAreRead == LabelSpec => []CleanCopyIsRead
<1>1. LabelCorrect => CleanCopyIsRead
  BY CorrectCopyIsRead
<1>2. QED
  BY <1>1, LabelIsCorrect, PTL

\* And with one symbol wrong, or one swapped with the next, it is refused, however it
\* is spelled, grouped and prefixed before and after the slip.
THEOREM SlipsAreRefused == LabelSpec => []SlipIsRefused
<1>1. LabelCorrect => SlipIsRefused
  BY CorrectCopyIsRead
<1>2. QED
  BY <1>1, LabelIsCorrect, PTL
-----------------------------------------------------------------------------
(* Labels and tags.                                                        *)

\* What is behind the last character that is no white space does not matter.
LEMMA TrimOfCut ==
  ASSUME NEW t \in Seq(Nat), NEW f \in Nat, NEW l \in Nat, Ends(t, f, l)
  PROVE  Trim(SubSeq(t, 1, l)) = Trim(t)
<1> DEFINE part == SubSeq(t, 1, l)
<1>0. /\ Len(t) \in Nat /\ f \in 1..Len(t) /\ l \in f..Len(t)
      /\ t[f] \notin Spaces /\ t[l] \notin Spaces
      /\ \A i \in 1..(f - 1) : t[i] \in Spaces
  BY LenProperties DEF Ends
<1>1. part \in Seq(Nat) /\ Len(part) = l /\ \A i \in 1..l : part[i] = t[i]
  BY <1>0, PartIs
<1>2. SubSeq(part, f, l) = SubSeq(t, f, l)
  <2>1. 1 \in Nat \ {0} /\ l <= Len(t) /\ 1 <= l + 1 /\ f - 1 \in 0..(l + 1 - 1)
    BY <1>0
  <2>2. SubSeq(SubSeq(t, 1, l), (f - 1) + 1, l + 1 - 1) = SubSeq(t, 1 + (f - 1), l)
    BY <2>1, EndOfPart
  <2>3. (f - 1) + 1 = f /\ l + 1 - 1 = l /\ 1 + (f - 1) = f
    BY <1>0
  <2>4. QED
    BY <2>2, <2>3
<1> HIDE DEF part
<1>3. Ends(part, f, l)
  BY <1>0, <1>1, SMTT(30) DEF Ends
<1>4. Trim(part) = SubSeq(part, f, l)
  BY <1>1, <1>3, TrimIs
<1>5. QED
  BY <1>2, <1>4, TrimIs DEF part

\* A text at the end of a URI, where the rule has a code, is read as it would be
\* without the URI.
LEMMA UriReadsText ==
  ASSUME NEW u \in Seq(Nat), NEW n \in Nat, NEW t \in Seq(Nat), CodeAtEnd(u, n, t),
         Plain(t), Len(t) < CODE_MAX, ~AllSpace(t)
  PROVE  ShortIdFromUri(u) = Validate(t)
<1>1. /\ Len(u) \in Nat /\ Len(t) \in Nat /\ n >= 3
      /\ Len(u) \in {n + Len(t), n + Len(t) + 1}
      /\ u[n] = Slash /\ u[n - 1] = 115 /\ u[n - 2] = Slash
      /\ \A i \in 1..Len(t) : u[n + i] = t[i]
      /\ Len(u) = n + Len(t) + 1 => u[Len(u)] = Slash
  BY LenProperties DEF CodeAtEnd
<1>2. Slash \notin Spaces
  BY DEF Slash, Spaces
<1>3. PICK first, last \in Nat : Ends(t, first, last)
  BY EndsExist
<1>4. /\ first \in 1..Len(t) /\ last \in first..Len(t) /\ t[last] \notin Spaces
      /\ \A i \in (last + 1)..Len(t) : t[i] \in Spaces
  BY <1>3 DEF Ends
<1>5. PICK f, l \in Nat : Ends(u, f, l)
  <2>1. n \in 1..Len(u) /\ u[n] \notin Spaces
    BY <1>1, <1>2
  <2>2. ~AllSpace(u)
    BY <2>1 DEF AllSpace
  <2>3. QED
    BY <2>2, EndsExist
<1>6. /\ f \in 1..Len(u) /\ l \in f..Len(u) /\ u[l] \notin Spaces
      /\ \A i \in 1..(f - 1) : u[i] \in Spaces
      /\ \A i \in (l + 1)..Len(u) : u[i] \in Spaces
  BY <1>5 DEF Ends
<1> DEFINE trimmed == Trim(u)
           m == n - (f - 1)
<1>7. f <= n - 2
  <2>1. n - 2 \notin 1..(f - 1)
    BY <1>1, <1>2, <1>6
  <2>2. QED
    BY <1>1, <1>6, <2>1
<1>8. /\ trimmed \in Seq(Nat) /\ Len(trimmed) = l + 1 - f
      /\ \A i \in 1..(l + 1 - f) : trimmed[i] = u[f - 1 + i]
  <2>1. f \in Nat \ {0} /\ l <= Len(u) /\ f <= l + 1
    BY <1>1, <1>6
  <2>2. trimmed = SubSeq(u, f, l)
    BY <1>5, TrimIs
  <2>3. QED
    BY <2>1, <2>2, PartIs
<1> HIDE DEF trimmed
\* So much of the text as is left at the end of the trimmed URI is the code.
<1>9. ASSUME NEW code \in Seq(Nat), Len(code) \in 1..Len(t),
             \A i \in 1..Len(code) : code[i] = t[i],
             \/ l = n + Len(code)
             \/ l = Len(u) /\ Len(code) = Len(t) /\ Len(u) = n + Len(t) + 1
      PROVE  CodeOfUri(u) = code
  <2>1. m \in Nat /\ m >= 3 /\ l >= n + Len(code) /\ Len(code) \in Nat
    <3>1. Len(code) \in Nat
      BY LenProperties
    <3>2. m \in Nat /\ m >= 3
      BY <1>1, <1>6, <1>7
    <3>3. CASE l = n + Len(code)
      BY <3>1, <3>2, <3>3
    <3>4. CASE l = Len(u) /\ Len(code) = Len(t) /\ Len(u) = n + Len(t) + 1
      BY <3>1, <3>2, <3>4
    <3>5. QED
      BY <1>9, <3>3, <3>4
  <2>2. \A i \in 1..(n + Len(code)) : i >= f => trimmed[i - (f - 1)] = u[i]
    <3> SUFFICES ASSUME NEW i \in 1..(n + Len(code)), i >= f
                 PROVE  trimmed[i - (f - 1)] = u[i]
      OBVIOUS
    <3>1. i - (f - 1) \in 1..(l + 1 - f) /\ f - 1 + (i - (f - 1)) = i
      BY <2>1, <1>6
    <3>2. QED
      BY <1>8, <3>1
  <2>3. trimmed[m] = Slash /\ trimmed[m - 1] = 115 /\ trimmed[m - 2] = Slash
    <3>1. /\ n \in 1..(n + Len(code)) /\ n >= f
          /\ n - 1 \in 1..(n + Len(code)) /\ n - 1 >= f
          /\ n - 2 \in 1..(n + Len(code)) /\ n - 2 >= f
          /\ m - 1 = (n - 1) - (f - 1) /\ m - 2 = (n - 2) - (f - 1)
      BY <1>1, <1>6, <1>7, <2>1, SMTT(30)
    <3>2. /\ trimmed[n - (f - 1)] = u[n] /\ trimmed[(n - 1) - (f - 1)] = u[n - 1]
          /\ trimmed[(n - 2) - (f - 1)] = u[n - 2]
      BY <2>2, <3>1
    <3>3. QED
      BY <1>1, <3>1, <3>2
  <2>4. ASSUME NEW i \in 1..Len(code) PROVE trimmed[m + i] = code[i]
    <3>1. /\ n + i \in 1..(n + Len(code)) /\ n + i >= f /\ (n + i) - (f - 1) = m + i
          /\ i \in 1..Len(t)
      BY <1>1, <1>6, <1>7, <1>9, <2>1, SMTT(30)
    <3>2. trimmed[(n + i) - (f - 1)] = u[n + i]
      BY <2>2, <3>1
    <3>3. QED
      BY <1>1, <1>9, <3>1, <3>2
  <2>5. CodeAtEnd(trimmed, m, code)
    <3>1. CASE l = n + Len(code)
      <4>1. Len(trimmed) = m + Len(code) /\ Len(trimmed) # m + Len(code) + 1
        BY <1>1, <1>6, <1>8, <2>1, <3>1
      <4> HIDE DEF m
      <4>2. QED
        BY <2>1, <2>3, <2>4, <4>1 DEF CodeAtEnd
    <3>2. CASE l = Len(u) /\ Len(code) = Len(t) /\ Len(u) = n + Len(t) + 1
      <4>1. Len(trimmed) = m + Len(code) + 1 /\ Len(trimmed) = l - (f - 1)
        BY <1>1, <1>6, <1>8, <2>1, <3>2
      <4>2. Len(trimmed) \in 1..(l + 1 - f) /\ f - 1 + Len(trimmed) = l
        BY <1>1, <1>6, <1>8
      <4>3. trimmed[Len(trimmed)] = Slash
        <5>1. trimmed[Len(trimmed)] = u[f - 1 + Len(trimmed)]
          BY <1>8, <4>2
        <5>2. u[Len(u)] = Slash
          BY <1>1, <3>2
        <5>3. QED
          BY <3>2, <4>2, <5>1, <5>2
      <4> HIDE DEF m
      <4>4. QED
        BY <2>1, <2>3, <2>4, <4>1, <4>3 DEF CodeAtEnd
    <3>3. QED
      BY <1>9, <3>1, <3>2
  <2>6. IsSegment(code)
    <3>1. Len(code) \in 1..(CODE_MAX - 1)
      BY <1>1, <1>9, CodeAssumption
    <3>2. DOMAIN code = 1..Len(code)
      BY LenProperties
    <3>3. \A i \in 1..Len(code) : i \in 1..Len(t)
      BY <1>1, <1>9
    <3>4. QED
      BY <1>9, <3>1, <3>2, <3>3 DEF IsSegment, Plain
  <2> HIDE DEF m
  <2>7. QED
    BY <2>1, <2>5, <2>6, CodeIsFound DEF trimmed
<1>10. CASE Len(u) = n + Len(t) + 1
  <2>1. l = Len(u)
    <3>1. u[Len(u)] \notin Spaces
      BY <1>1, <1>2, <1>10
    <3>2. ~(Len(u) \in (l + 1)..Len(u))
      BY <1>6, <3>1
    <3>3. QED
      BY <1>1, <1>6, <3>2
  <2>2. Len(t) \in 1..Len(t)
    BY <1>1, <1>4
  <2>3. CodeOfUri(u) = t
    BY <1>9, <1>10, <2>1, <2>2
  <2>4. t # <<>>
    BY <2>2, EmptySeq
  <2>5. QED
    BY <2>3, <2>4 DEF ShortIdFromUri
<1>11. CASE Len(u) = n + Len(t)
  <2> DEFINE code == SubSeq(t, 1, last)
  <2>1. code \in Seq(Nat) /\ Len(code) = last /\ \A i \in 1..last : code[i] = t[i]
    <3>1. last <= Len(t) /\ 1 <= last + 1
      BY <1>1, <1>4
    <3>2. QED
      BY <3>1, PartIs
  <2>2. Trim(code) = Trim(t)
    BY <1>3, TrimOfCut
  <2> HIDE DEF code
  <2>3. l = n + last
    <3>1. n + last \in 1..Len(u) /\ u[n + last] \notin Spaces
      BY <1>1, <1>4, <1>11, SMTT(30)
    <3>2. l >= n + last
      <4>1. ~(n + last \in (l + 1)..Len(u))
        BY <1>6, <3>1
      <4>2. QED
        BY <1>1, <1>4, <3>1, <4>1
    <3>3. ~(l > n + last)
      <4> SUFFICES ASSUME l > n + last PROVE FALSE
        OBVIOUS
      <4>1. l - n \in (last + 1)..Len(t) /\ l - n \in 1..Len(t) /\ n + (l - n) = l
        BY <1>1, <1>4, <1>6, <1>11
      <4>2. u[n + (l - n)] = t[l - n] /\ t[l - n] \in Spaces
        BY <1>1, <1>4, <4>1
      <4>3. QED
        BY <1>6, <4>1, <4>2
    <3>4. QED
      BY <1>4, <3>2, <3>3
  <2>4. CodeOfUri(u) = code
    <3>1. Len(code) \in 1..Len(t) /\ \A i \in 1..Len(code) : code[i] = t[i]
      BY <1>4, <2>1
    <3>2. QED
      BY <1>9, <2>1, <2>3, <3>1
  <2>5. code # <<>>
    BY <1>4, <2>1, EmptySeq
  <2>6. Validate(code) = Validate(t)
    BY <2>2 DEF Validate
  <2>7. QED
    BY <2>4, <2>5, <2>6 DEF ShortIdFromUri
<1>12. QED
  BY <1>1, <1>10, <1>11

\* A tag says what its label says, for every host, every copy and every ID.
LEMMA CorrectTagReadsLikeLabel ==
  ASSUME LabelCorrect
  PROVE  TagReadsLikeLabel
<1> SUFFICES ASSUME NEW host \in Hosts, NEW tail \in {<<>>, <<Slash>>}
             PROVE  ShortIdFromUri(host \o <<Slash, 115, Slash>> \o Typed \o tail)
                      = Validate(Typed)
  BY DEF TagReadsLikeLabel
<1> DEFINE u == host \o Mark \o Typed \o tail
<1>1. /\ text \in Seq(Nat) /\ Plain(text) /\ changes \in 0..MaxChanges
      /\ Len(text) <= SHORTID_TOTAL_SYMBOLS + 1 + changes
      /\ Copies(text, id, slips) /\ prefix \in {<<>>, Prefix}
      /\ Len(text) \in Nat
  BY LenProperties DEF LabelCorrect
<1>2. prefix \in Seq(Nat) /\ Plain(prefix) /\ Len(prefix) <= Len(Prefix) /\ Len(Prefix) \in Nat
  <2>1. Len(Prefix) \in Nat
    BY PrefixIs, LenProperties
  <2>2. CASE prefix = <<>>
    BY <2>1, <2>2, EmptySeq DEF Plain
  <2>3. CASE prefix = Prefix
    BY <2>1, <2>3, PrefixIs
  <2>4. QED
    BY <1>1, <2>2, <2>3
<1>3. Joined(Typed, prefix, text)
  BY <1>1, <1>2, ConcatTwo DEF Typed
<1>4. Typed \in Seq(Nat) /\ Len(Typed) < CODE_MAX
  <2>1. Len(Typed) = Len(prefix) + Len(text) /\ Len(prefix) \in Nat
    BY <1>3 DEF Joined
  <2>2. /\ MaxChanges \in Nat /\ CODE_MAX \in Nat
        /\ Len(Prefix) + SHORTID_TOTAL_SYMBOLS + 1 + MaxChanges < CODE_MAX
    BY PrefixIs, CodeAssumption
  <2>3. QED
    BY <1>1, <1>2, <1>3, <2>1, <2>2 DEF Joined, SHORTID_TOTAL_SYMBOLS
<1>5. \A i \in 1..Len(Typed) : \/ i \in 1..Len(prefix) /\ Typed[i] = prefix[i]
                               \/ /\ i - Len(prefix) \in 1..Len(text)
                                  /\ Typed[i] = text[i - Len(prefix)]
  <2> TAKE i \in 1..Len(Typed)
  <2>1. \/ i \in 1..Len(prefix)
        \/ i - Len(prefix) \in 1..Len(text) /\ Len(prefix) + (i - Len(prefix)) = i
    BY <1>3 DEF Joined
  <2>2. QED
    BY <1>3, <2>1 DEF Joined
<1>6. Plain(Typed)
  <2>1. /\ \A i \in 1..Len(prefix) : prefix[i] \notin {Slash, 63, 35}
        /\ \A i \in 1..Len(text) : text[i] \notin {Slash, 63, 35}
    BY <1>1, <1>2 DEF Plain
  <2>2. \A i \in 1..Len(Typed) : Typed[i] \notin {Slash, 63, 35}
    BY <1>5, <2>1, Zenon
  <2>3. QED
    BY <2>2 DEF Plain
<1>7. ~AllSpace(Typed)
  <2>1. PICK p : Enumerates(p, Counted(text), 8)
    BY <1>1 DEF Copies
  <2>2. p[1] \in 1..Len(text) /\ text[p[1]] \notin Spaces
    BY <1>1, <2>1, ListedPlaces DEF IsStrippable
  <2>3. Len(prefix) + p[1] \in 1..Len(Typed) /\ Typed[Len(prefix) + p[1]] = text[p[1]]
    BY <1>3, <2>2 DEF Joined
  <2>4. QED
    BY <2>2, <2>3 DEF AllSpace
<1>8. CodeAtEnd(u, Len(host) + 3, Typed) /\ u \in Seq(Nat) /\ Len(host) + 3 \in Nat
  <2>1. host \in Seq(Nat) /\ tail \in Seq(Nat) /\ Mark \in Seq(Nat)
    BY HostsAssumption, TailIs, MarkIs, ZenonT(30)
  <2>2. Len(tail) \in {0, 1} /\ \A i \in 1..Len(tail) : tail[i] = Slash
    BY TailIs
  <2>3. CodeAtEnd(u, Len(host) + 3, Typed)
    BY <1>4, <2>1, <2>2, LaidTogether
  <2>4. u \in Seq(Nat)
    BY <1>4, <2>1, ConcatProperties
  <2>5. QED
    BY <2>1, <2>3, <2>4, LenProperties
<1>9. u = host \o <<Slash, 115, Slash>> \o Typed \o tail
  BY DEF Mark
<1> HIDE DEF u
<1>10. ShortIdFromUri(u) = Validate(Typed)
  BY <1>4, <1>6, <1>7, <1>8, UriReadsText
<1>11. QED
  BY <1>9, <1>10

\* For every host and every copy, with or without a slash at the end, a tag is read as
\* what is typed is (ndef_short_id_from_uri).
THEOREM TagsReadLikeLabels == LabelSpec => []TagReadsLikeLabel
<1>1. LabelCorrect => TagReadsLikeLabel
  BY CorrectTagReadsLikeLabel
<1>2. QED
  BY <1>1, LabelIsCorrect, PTL
=============================================================================
