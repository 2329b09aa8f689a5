------------------------ MODULE NdefRoundTripProofs ------------------------
(***************************************************************************)
(* That a tag the encoder wrote reads back, for every URI, every table of  *)
(* prefixes and every tag, whatever it held before.                        *)
(***************************************************************************)
EXTENDS NdefRoundTrip, NumberLemmas, SequenceTheorems, TLAPS

Codes == 0..(PrefixCount - 1)

\* One turn of the loop over the table, from the best code so far.
Better(u, code, best) ==
  IF \/ code = 0
     \/ Len(UriPrefixes[code]) > Len(UriPrefixes[best]) /\ IsPrefix(UriPrefixes[code], u)
  THEN code ELSE best

\* What the loop remembers up to its n-th turn.
Turns(u, n) ==
  {best \in [0..n -> Codes] : \A code \in 0..n : best[code] = Better(u, code, best[code - 1])}

\* The loop can be run through.
LEMMA LoopRuns ==
  ASSUME NEW u, NEW n \in Codes
  PROVE  Turns(u, n) # {}
<1> DEFINE stuck == {m \in Codes : Turns(u, m) = {}}
<1>1. SUFFICES ASSUME stuck # {} PROVE FALSE
  OBVIOUS
<1>2. stuck \in SUBSET Nat
  BY DEF Codes
<1>3. PICK m \in stuck : \A k \in stuck : m <= k
  BY <1>1, <1>2, LeastMember
<1>4. m \in Codes /\ m \in Nat /\ Turns(u, m) = {} /\ PrefixCount \in Nat
  BY PrefixAssumption DEF Codes
<1>5. CASE m = 0
  <2> DEFINE best == [code \in 0..0 |-> 0]
  <2>1. best \in [0..m -> Codes]
    BY <1>4, <1>5
  <2>2. \A code \in 0..m : best[code] = Better(u, code, best[code - 1])
    BY <1>5 DEF Better
  <2>3. QED
    BY <1>4, <2>1, <2>2 DEF Turns
<1>6. CASE m # 0
  <2>1. m - 1 \in Codes /\ m - 1 \notin stuck
    BY <1>3, <1>4, <1>6 DEF Codes
  <2>2. PICK best \in Turns(u, m - 1) : TRUE
    BY <2>1
  <2>3. /\ best \in [0..(m - 1) -> Codes]
        /\ \A code \in 0..(m - 1) : best[code] = Better(u, code, best[code - 1])
    BY <2>2 DEF Turns
  <2> DEFINE last == Better(u, m, best[m - 1])
             longer == [code \in 0..m |-> IF code = m THEN last ELSE best[code]]
  <2>4. last \in Codes
    BY <1>4, <1>6, <2>3 DEF Better
  <2>5. longer \in [0..m -> Codes]
    BY <1>4, <2>3, <2>4
  <2>6. ASSUME NEW code \in 0..m
        PROVE  longer[code] = Better(u, code, longer[code - 1])
    <3>1. CASE code = 0
      BY <1>4, <1>6, <2>3, <3>1 DEF Better
    <3>2. CASE code # 0
      <4>1. code - 1 \in 0..m /\ code - 1 # m
        BY <1>4, <3>2
      <4>2. longer[code - 1] = best[code - 1]
        BY <4>1
      <4>3. QED
        BY <1>4, <2>3, <4>2, <3>2
    <3>3. QED
      BY <3>1, <3>2
  <2>7. QED
    BY <1>4, <2>5, <2>6 DEF Turns
<1>7. QED
  BY <1>5, <1>6

\* What it remembers is the longest prefix among those it has looked at.
LEMMA TurnsKeepLongest ==
  ASSUME NEW u \in Seq(Byte), NEW n \in Codes, NEW best, NEW c \in 0..n,
         \A code \in 0..n : best[code] = Better(u, code, best[code - 1])
  PROVE  /\ best[c] \in Codes /\ IsPrefix(UriPrefixes[best[c]], u)
         /\ \A other \in 0..c : IsPrefix(UriPrefixes[other], u) =>
              Len(UriPrefixes[other]) <= Len(UriPrefixes[best[c]])
<1> DEFINE Longest(k) ==
             /\ best[k] \in Codes /\ IsPrefix(UriPrefixes[best[k]], u)
             /\ \A other \in 0..k : IsPrefix(UriPrefixes[other], u) =>
                  Len(UriPrefixes[other]) <= Len(UriPrefixes[best[k]])
           wrong == {k \in 0..n : ~Longest(k)}
<1>1. n \in Nat /\ 0..n \subseteq Codes
  BY PrefixAssumption DEF Codes
<1>2. \A code \in Codes : Len(UriPrefixes[code]) \in Nat
  BY TableAssumption, LenProperties DEF Codes
<1>3. SUFFICES ASSUME wrong # {} PROVE FALSE
  BY <1>1
<1>4. wrong \in SUBSET Nat
  OBVIOUS
<1>5. PICK m \in wrong : \A k \in wrong : m <= k
  BY <1>3, <1>4, LeastMember
<1>6. m \in 0..n /\ m \in Codes /\ ~Longest(m)
  BY <1>1
<1>7. CASE m = 0
  <2>1. best[0] = 0
    BY <1>6, <1>7 DEF Better
  <2>2. Len(UriPrefixes[0]) = 0 /\ UriPrefixes[0] \in Seq(Byte) /\ Len(u) \in Nat
    BY <1>6, <1>7, TableAssumption, LenProperties DEF Codes
  <2>3. SubSeq(UriPrefixes[0], 1, 0) = SubSeq(u, 1, 0)
    BY <2>2, SubSeqEmpty
  <2>4. IsPrefix(UriPrefixes[0], u)
    BY <2>2, <2>3 DEF IsPrefix
  <2>5. \A other \in 0..0 : Len(UriPrefixes[other]) <= Len(UriPrefixes[0])
    BY <2>2
  <2>6. QED
    BY <1>6, <1>7, <2>1, <2>4, <2>5, Zenon
<1>8. CASE m # 0
  <2>1. m - 1 \in 0..n /\ m - 1 \notin wrong
    BY <1>5, <1>6, <1>8
  <2>2. Longest(m - 1)
    BY <2>1
  <2>3. best[m] = Better(u, m, best[m - 1]) /\ best[m - 1] \in Codes
    BY <1>6, <2>1, <2>2
  <2>4. Len(UriPrefixes[m]) \in Nat /\ Len(UriPrefixes[best[m - 1]]) \in Nat
    BY <1>2, <1>6, <2>3
  <2>5. ASSUME NEW other \in 0..m PROVE other = m \/ other \in 0..(m - 1)
    BY <1>6
  <2>6. \A other \in 0..m : Len(UriPrefixes[other]) \in Nat
    BY <1>1, <1>2, <1>6
  <2> HIDE DEF wrong
  <2>7. CASE Len(UriPrefixes[m]) > Len(UriPrefixes[best[m - 1]])
               /\ IsPrefix(UriPrefixes[m], u)
    <3>1. best[m] = m
      BY <2>3, <2>7 DEF Better
    <3>2. ASSUME NEW other \in 0..m, IsPrefix(UriPrefixes[other], u)
          PROVE  Len(UriPrefixes[other]) <= Len(UriPrefixes[m])
      BY <2>2, <2>4, <2>5, <2>6, <2>7, <3>2
    <3>3. QED
      BY <1>6, <2>7, <3>1, <3>2, Zenon
  <2>8. CASE ~(Len(UriPrefixes[m]) > Len(UriPrefixes[best[m - 1]])
               /\ IsPrefix(UriPrefixes[m], u))
    <3>1. best[m] = best[m - 1]
      BY <1>8, <2>3, <2>8 DEF Better
    <3>2. ASSUME NEW other \in 0..m, IsPrefix(UriPrefixes[other], u)
          PROVE  Len(UriPrefixes[other]) <= Len(UriPrefixes[best[m - 1]])
      BY <2>2, <2>4, <2>5, <2>8, <3>2
    <3>3. QED
      BY <1>6, <2>2, <3>1, <3>2, Zenon
  <2>9. QED
    BY <2>7, <2>8
<1>9. QED
  BY <1>7, <1>8

\* The loop over the table ends with the longest prefix.
LEMMA AbbreviateIsLongest ==
  ASSUME NEW u \in Seq(Byte)
  PROVE  /\ Abbreviate(u) \in Codes
         /\ IsPrefix(UriPrefixes[Abbreviate(u)], u)
         /\ \A other \in Codes : IsPrefix(UriPrefixes[other], u) =>
              Len(UriPrefixes[other]) <= Len(UriPrefixes[Abbreviate(u)])
<1> DEFINE Loop(g) ==
             g = [code \in 0..(PrefixCount - 1) |->
                    IF \/ code = 0
                       \/ /\ Len(UriPrefixes[code]) > Len(UriPrefixes[g[code - 1]])
                          /\ IsPrefix(UriPrefixes[code], u)
                    THEN code ELSE g[code - 1]]
           best == CHOOSE g : Loop(g)
           n == PrefixCount - 1
<1>1. n \in Codes /\ Codes = 0..n
  BY TableAssumption, PrefixAssumption DEF Codes
<1>2. PICK g \in Turns(u, n) : TRUE
  BY <1>1, LoopRuns
<1>3. Loop(g)
  BY <1>1, <1>2 DEF Turns, Better
<1>4. Loop(best)
  BY <1>3, Zenon
<1>5. Abbreviate(u) = best[n]
  BY Zenon DEF Abbreviate
<1> HIDE DEF best
<1>6. \A code \in 0..n : best[code] = Better(u, code, best[code - 1])
  BY <1>4 DEF Better
<1>7. n \in 0..n
  BY <1>1
<1>8. QED
  BY <1>1, <1>5, <1>6, <1>7, TurnsKeepLongest
-----------------------------------------------------------------------------
(* The image.                                                              *)

Swallowed(u) == Len(UriPrefixes[Abbreviate(u)])

\* The sizes of an image that can be built.
LEMMA Sizes ==
  ASSUME NEW u \in Seq(Byte), ImageSize(u) # 0
  PROVE  /\ Len(u) \in Nat /\ IsPrintable(u)
         /\ Abbreviate(u) \in Codes
         /\ Swallowed(u) \in 0..Len(u)
         /\ PayloadLength(u) = 1 + (Len(u) - Swallowed(u))
         /\ PayloadLength(u) \in 1..ShortRecordMax
         /\ RecordLength(u) = 4 + PayloadLength(u)
         /\ RecordLength(u) < LongLength
         /\ ImageSize(u) = 7 + PayloadLength(u)
         /\ Padding(ImageSize(u)) \in Nat
<1>1. Len(u) \in Nat
  BY LenProperties
<1>2. Abbreviate(u) \in Codes /\ IsPrefix(UriPrefixes[Abbreviate(u)], u)
  BY <1>1, AbbreviateIsLongest
<1>3. UriPrefixes[Abbreviate(u)] \in Seq(Byte)
  BY <1>2, TableAssumption DEF Codes
<1>4. Swallowed(u) \in 0..Len(u)
  BY <1>1, <1>2, <1>3, LenProperties DEF IsPrefix, Swallowed
<1>5. PayloadLength(u) = 1 + (Len(u) - Swallowed(u))
  BY DEF PayloadLength, Swallowed
<1>6. /\ IsPrintable(u) /\ ~(PayloadLength(u) > ShortRecordMax)
      /\ ~(RecordLength(u) >= LongLength) /\ ImageSize(u) = 2 + RecordLength(u) + 1
  BY DEF ImageSize
<1>7. RecordLength(u) = 4 + PayloadLength(u) /\ LongLength \in Nat
  BY ByteAssumption DEF RecordLength, Byte
<1>8. PayloadLength(u) \in 1..ShortRecordMax /\ RecordLength(u) < LongLength
  BY <1>1, <1>4, <1>5, <1>6, <1>7, CodecAssumption
<1>9. ImageSize(u) = 7 + PayloadLength(u) /\ ImageSize(u) \in Nat
  BY <1>1, <1>4, <1>5, <1>6, <1>7
<1>10. Padding(ImageSize(u)) \in Nat
  BY <1>9, CodecAssumption DEF Padding
<1>11. QED
  BY <1>1, <1>2, <1>4, <1>5, <1>6, <1>7, <1>8, <1>9, <1>10

\* Byte by byte, what an image holds.
LEMMA ImageBytes ==
  ASSUME NEW u \in Seq(Byte), ImageSize(u) # 0
  PROVE  /\ Image(u) \in Seq(Nat)
         /\ Len(Image(u)) = ImageSize(u) + Padding(ImageSize(u))
         /\ Image(u)[1] = TLV_NDEF /\ Image(u)[2] = RecordLength(u)
         /\ Image(u)[3] = RecordHeader /\ Image(u)[4] = 1
         /\ Image(u)[5] = PayloadLength(u) /\ Image(u)[6] = TypeUri
         /\ Image(u)[7] = Abbreviate(u)
         /\ \A i \in 1..(PayloadLength(u) - 1) : Image(u)[7 + i] = u[Swallowed(u) + i]
         /\ Image(u)[ImageSize(u)] = TLV_TERMINATOR
         /\ \A i \in (ImageSize(u) + 1)..Len(Image(u)) : Image(u)[i] = 0
<1> DEFINE code == Abbreviate(u)
           fields == <<TLV_NDEF, RecordLength(u), RecordHeader, 1, PayloadLength(u),
                       TypeUri, code>>
           rest == SubSeq(u, Swallowed(u) + 1, Len(u))
           padding == [i \in 1..Padding(ImageSize(u)) |-> 0]
<1>1. Image(u) = ((fields \o rest) \o <<TLV_TERMINATOR>>) \o padding
  BY DEF Image, Swallowed
<1>2. fields \in Seq(Nat) /\ Len(fields) = 7
  <2>1. TLV_NDEF \in Nat /\ TypeUri \in Nat /\ RecordHeader \in Nat
    BY ByteAssumption, HeaderAssumption DEF Byte
  <2>2. code \in Nat
    BY Sizes, PrefixAssumption DEF Codes
  <2>3. PayloadLength(u) \in Nat /\ RecordLength(u) \in Nat
    BY Sizes, CodecAssumption
  <2>4. QED
    BY <2>1, <2>2, <2>3
<1>3. /\ rest \in Seq(Nat) /\ Len(rest) = PayloadLength(u) - 1
      /\ \A i \in 1..(PayloadLength(u) - 1) : rest[i] = u[Swallowed(u) + i]
  <2>1. \A i \in (Swallowed(u) + 1)..Len(u) : u[i] \in Nat
    <3>1. \A i \in 1..Len(u) : u[i] \in Byte
      BY Sizes, ElementOfSeq
    <3>2. QED
      BY <3>1, Sizes, ByteAssumption DEF Byte
  <2>2. Swallowed(u) + 1 \in Int /\ Len(u) \in Int
    BY Sizes
  <2>3. /\ rest \in Seq(Nat)
        /\ Len(rest) = IF Swallowed(u) + 1 <= Len(u) THEN Len(u) - (Swallowed(u) + 1) + 1 ELSE 0
        /\ \A i \in 1..(Len(u) - (Swallowed(u) + 1) + 1) : rest[i] = u[(Swallowed(u) + 1) + i - 1]
    BY <2>1, <2>2, SubSeqProperties
  <2>4. QED
    BY <2>3, Sizes, SMTT(30)
<1>4. padding \in Seq(Nat) /\ Len(padding) = Padding(ImageSize(u))
  BY Sizes
<1>5. <<TLV_TERMINATOR>> \in Seq(Nat) /\ Len(<<TLV_TERMINATOR>>) = 1
  BY ByteAssumption DEF Byte
<1>6. /\ fields[1] = TLV_NDEF /\ fields[2] = RecordLength(u)
      /\ fields[3] = RecordHeader /\ fields[4] = 1
      /\ fields[5] = PayloadLength(u) /\ fields[6] = TypeUri /\ fields[7] = code
  OBVIOUS
<1> DEFINE end == <<TLV_TERMINATOR>>
           front == fields \o rest
           body == front \o end
<1>7. end[1] = TLV_TERMINATOR
  OBVIOUS
<1> HIDE DEF fields, rest, padding, end
<1>8. /\ front \in Seq(Nat) /\ Len(front) = 6 + PayloadLength(u)
      /\ \A i \in 1..7 : front[i] = fields[i]
      /\ \A i \in 1..(PayloadLength(u) - 1) : front[7 + i] = rest[i]
  <2>1. /\ front \in Seq(Nat) /\ Len(front) = Len(fields) + Len(rest)
        /\ \A i \in 1..(Len(fields) + Len(rest)) :
             front[i] = IF i <= Len(fields) THEN fields[i] ELSE rest[i - Len(fields)]
    BY <1>2, <1>3, ConcatProperties, Zenon
  <2>2. PayloadLength(u) \in Nat /\ PayloadLength(u) >= 1
    BY Sizes, CodecAssumption
  <2> HIDE DEF front
  <2>3. Len(front) = 6 + PayloadLength(u)
    BY <2>1, <2>2, <1>2, <1>3
  <2>4. \A i \in 1..7 : front[i] = fields[i]
    <3> TAKE i \in 1..7
    <3>1. i \in 1..(Len(fields) + Len(rest)) /\ i <= Len(fields)
      BY <2>2, <1>2, <1>3
    <3>2. QED
      BY <2>1, <3>1, Zenon
  <2>5. \A i \in 1..(PayloadLength(u) - 1) : front[7 + i] = rest[i]
    <3> TAKE i \in 1..(PayloadLength(u) - 1)
    <3>1. /\ 7 + i \in 1..(Len(fields) + Len(rest)) /\ ~(7 + i <= Len(fields))
          /\ (7 + i) - Len(fields) = i
      BY <2>2, <1>2, <1>3
    <3>2. front[7 + i] = rest[(7 + i) - Len(fields)]
      BY <2>1, <3>1, Zenon
    <3>3. QED
      BY <3>1, <3>2, Zenon
  <2>6. QED
    BY <2>1, <2>3, <2>4, <2>5
<1> HIDE DEF front
<1>9. /\ body \in Seq(Nat) /\ Len(body) = 7 + PayloadLength(u)
      /\ \A i \in 1..(6 + PayloadLength(u)) : body[i] = front[i]
      /\ body[7 + PayloadLength(u)] = TLV_TERMINATOR
  <2>1. /\ body \in Seq(Nat) /\ Len(body) = Len(front) + Len(end)
        /\ \A i \in 1..(Len(front) + Len(end)) :
             body[i] = IF i <= Len(front) THEN front[i] ELSE end[i - Len(front)]
    BY <1>5, <1>8, ConcatProperties, Zenon DEF end
  <2>2. PayloadLength(u) \in Nat /\ Len(end) = 1
    BY Sizes, CodecAssumption, <1>5 DEF end
  <2> HIDE DEF body
  <2>3. body \in Seq(Nat) /\ Len(body) = 7 + PayloadLength(u)
    BY <2>1, <2>2, <1>8
  <2>4. \A i \in 1..(6 + PayloadLength(u)) : body[i] = front[i]
    BY <2>1, <2>2, <1>8
  <2>5. body[7 + PayloadLength(u)] = end[1]
    <3> DEFINE last == 7 + PayloadLength(u)
    <3>1. last \in 1..(Len(front) + Len(end)) /\ ~(last <= Len(front))
      BY <2>2, <1>8, SMTT(30)
    <3>2. last - Len(front) = 1
      BY <2>2, <1>8
    <3> HIDE DEF last
    <3>3. body[last] = end[1]
      BY <2>1, <3>1, <3>2, Zenon
    <3>4. QED
      BY <3>3 DEF last
  <2>6. QED
    BY <2>3, <2>4, <2>5, <1>7
<1> HIDE DEF body
<1>10. /\ Image(u) \in Seq(Nat)
       /\ Len(Image(u)) = 7 + PayloadLength(u) + Padding(ImageSize(u))
       /\ \A i \in 1..(7 + PayloadLength(u)) : Image(u)[i] = body[i]
       /\ \A i \in 1..Padding(ImageSize(u)) : Image(u)[7 + PayloadLength(u) + i] = 0
  <2>1. Image(u) = body \o padding
    BY <1>1 DEF body, front, end
  <2> DEFINE whole == body \o padding
  <2>2. /\ whole \in Seq(Nat) /\ Len(whole) = Len(body) + Len(padding)
        /\ \A i \in 1..(Len(body) + Len(padding)) :
             whole[i] = IF i <= Len(body) THEN body[i] ELSE padding[i - Len(body)]
    BY <1>4, <1>9, ConcatProperties, Zenon
  <2>3. PayloadLength(u) \in Nat /\ Padding(ImageSize(u)) \in Nat
    BY Sizes, CodecAssumption
  <2>4. Image(u) = whole
    BY <2>1
  <2>5. \A i \in 1..Padding(ImageSize(u)) : padding[i] = 0
    BY DEF padding
  <2> HIDE DEF whole
  <2>6. \A i \in 1..Padding(ImageSize(u)) : Image(u)[7 + PayloadLength(u) + i] = 0
    <3> TAKE i \in 1..Padding(ImageSize(u))
    <3>1. /\ 7 + PayloadLength(u) + i \in 1..(Len(body) + Len(padding))
          /\ ~(7 + PayloadLength(u) + i <= Len(body))
          /\ (7 + PayloadLength(u) + i) - Len(body) = i
      BY <2>3, <1>4, <1>9
    <3>2. QED
      BY <3>1, <2>2, <2>4, <2>5
  <2>7. QED
    BY <2>2, <2>3, <2>4, <2>6, <1>4, <1>9
<1>11. PayloadLength(u) \in Nat /\ PayloadLength(u) >= 1 /\ ImageSize(u) = 7 + PayloadLength(u)
  BY Sizes, CodecAssumption
<1>12. \A i \in 1..7 : Image(u)[i] = fields[i]
  <2> TAKE i \in 1..7
  <2>1. i \in 1..(6 + PayloadLength(u)) /\ i \in 1..(7 + PayloadLength(u))
    BY <1>11
  <2>2. QED
    BY <2>1, <1>8, <1>9, <1>10, Zenon
<1>13. \A i \in 1..(PayloadLength(u) - 1) : Image(u)[7 + i] = u[Swallowed(u) + i]
  <2> TAKE i \in 1..(PayloadLength(u) - 1)
  <2>1. 7 + i \in 1..(6 + PayloadLength(u)) /\ 7 + i \in 1..(7 + PayloadLength(u))
    BY <1>11
  <2>2. QED
    BY <2>1, <1>3, <1>8, <1>9, <1>10, Zenon
<1>14. Image(u)[ImageSize(u)] = TLV_TERMINATOR
  BY <1>9, <1>10, <1>11
<1>15. Len(Image(u)) = ImageSize(u) + Padding(ImageSize(u)) /\ Image(u) \in Seq(Nat)
  BY <1>10, <1>11
<1>16. \A i \in (ImageSize(u) + 1)..Len(Image(u)) : Image(u)[i] = 0
  <2> TAKE i \in (ImageSize(u) + 1)..Len(Image(u))
  <2>1. Padding(ImageSize(u)) \in Nat
    BY Sizes
  <2>2. /\ i - ImageSize(u) \in 1..Padding(ImageSize(u))
        /\ 7 + PayloadLength(u) + (i - ImageSize(u)) = i
    BY <2>1, <1>11, <1>15, SMTT(30)
  <2>3. QED
    BY <2>2, <1>10
<1>17. QED
  BY <1>6, <1>12, <1>13, <1>14, <1>15, <1>16

\* The prefix and what the image holds of the rest make the URI.
LEMMA PrefixAndTail ==
  ASSUME NEW u \in Seq(Byte), ImageSize(u) # 0,
         NEW rest \in Seq(Byte), Len(rest) = PayloadLength(u) - 1,
         \A i \in 1..(PayloadLength(u) - 1) : rest[i] = u[Swallowed(u) + i]
  PROVE  UriPrefixes[Abbreviate(u)] \o rest = u
<1> DEFINE prefix == UriPrefixes[Abbreviate(u)]
           whole == prefix \o rest
<1>1. /\ Len(u) \in Nat /\ Abbreviate(u) \in Codes /\ Swallowed(u) \in 0..Len(u)
      /\ PayloadLength(u) = 1 + (Len(u) - Swallowed(u))
  BY Sizes
<1>2. /\ prefix \in Seq(Byte) /\ Len(prefix) = Swallowed(u)
      /\ SubSeq(prefix, 1, Len(prefix)) = SubSeq(u, 1, Len(prefix))
  BY <1>1, AbbreviateIsLongest, TableAssumption DEF Codes, IsPrefix, Swallowed
<1>3. \A i \in 1..Swallowed(u) : prefix[i] = u[i]
  <2>1. prefix = SubSeq(u, 1, Swallowed(u))
    BY <1>2, SubSeqFull
  <2>2. \A i \in 1..Swallowed(u) : u[i] \in Byte
    BY <1>1, ElementOfSeq
  <2>3. Swallowed(u) \in Int
    BY <1>1
  <2>4. \A i \in 1..(Swallowed(u) - 1 + 1) :
          SubSeq(u, 1, Swallowed(u))[i] = u[1 + i - 1]
    BY <2>2, <2>3, SubSeqProperties
  <2> HIDE DEF prefix
  <2>5. QED
    BY <2>1, <2>3, <2>4
<1>4. /\ Len(rest) = Len(u) - Swallowed(u)
      /\ \A i \in 1..(Len(u) - Swallowed(u)) : rest[i] = u[Swallowed(u) + i]
  BY <1>1
<1> HIDE DEF prefix
<1>5. /\ whole \in Seq(Byte) /\ Len(whole) = Len(prefix) + Len(rest)
      /\ \A i \in 1..(Len(prefix) + Len(rest)) :
           whole[i] = IF i <= Len(prefix) THEN prefix[i] ELSE rest[i - Len(prefix)]
  BY <1>2, ConcatProperties, Zenon
<1> HIDE DEF whole
<1>6. Len(whole) = Len(u)
  BY <1>1, <1>2, <1>4, <1>5
<1>7. ASSUME NEW i \in 1..Len(whole) PROVE whole[i] = u[i]
  <2>1. CASE i <= Len(prefix)
    BY <2>1, <1>1, <1>2, <1>3, <1>4, <1>5
  <2>2. CASE ~(i <= Len(prefix))
    <3>1. whole[i] = rest[i - Len(prefix)]
      BY <2>2, <1>5
    <3>2. /\ i - Len(prefix) \in 1..(Len(u) - Swallowed(u))
          /\ Swallowed(u) + (i - Len(prefix)) = i
      BY <2>2, <1>1, <1>2, <1>6
    <3>3. QED
      BY <3>1, <3>2, <1>4
  <2>3. QED
    BY <2>1, <2>2
<1>8. whole = u
  BY <1>5, <1>6, <1>7, SeqEqual, Zenon
<1>9. QED
  BY <1>8 DEF whole, prefix
-----------------------------------------------------------------------------
(* The walk over it.                                                       *)

\* The image of the URI is at the front of the memory.
ImageInFront ==
  /\ ImageSize(uri) # 0 /\ ImageSize(uri) <= size
  /\ written = Len(Image(uri))
  /\ \A i \in 1..ImageSize(uri) : data[i] = Image(uri)[i]

RoundInv ==
  /\ uri \in Uris
  /\ size \in Nat /\ size + Base * Base < Word
  /\ \A code \in Codes : PrefixLength[code] + size < Word
  /\ data \in Seq(Nat)
  /\ pc \in {"build", "refused", "tlv", "record", "done"}
  /\ found # NoUri => pc = "done"
  /\ pc \in {"build", "tlv"} => tlv = 0
  /\ pc \in {"build", "refused"} => written = 0
  /\ pc \in {"tlv", "record", "done"} => ImageInFront
  /\ pc = "record" => start = 2 /\ at = 0 /\ message_size = RecordLength(uri)
  /\ pc = "done" =>
       found = [payload |-> 6, length |-> PayloadLength(uri)]

LEMMA RoundInit == CodecInit => RoundInv
<1> SUFFICES ASSUME CodecInit PROVE RoundInv
  OBVIOUS
<1>1. /\ data \in Seq(Byte) /\ size + Base * Base < Word
      /\ \A code \in Codes : PrefixLength[code] + size < Word
  BY MemoryAssumption, WordAssumption, CodecAssumption DEF CodecInit, size, Codes
<1>2. size \in Nat /\ data \in Seq(Nat)
  <2>1. Byte \subseteq Nat
    BY ByteAssumption DEF Byte
  <2>2. size \in Nat /\ \A i \in 1..size : data[i] \in Nat
    BY <1>1, <2>1, LenProperties, ElementOfSeq DEF size
  <2>3. SubSeq(data, 1, size) \in Seq(Nat)
    BY <2>2, SubSeqProperties
  <2>4. SubSeq(data, 1, size) = data
    BY <1>1, SubSeqFull DEF size
  <2>5. QED
    BY <2>2, <2>3, <2>4
<1>3. QED
  BY <1>1, <1>2 DEF CodecInit, RoundInv

\* What the walk reads in a memory with the image in front.
LEMMA InFront ==
  ASSUME RoundInv, ImageInFront
  PROVE  /\ PayloadLength(uri) \in 1..ShortRecordMax
         /\ RecordLength(uri) = 4 + PayloadLength(uri)
         /\ ImageSize(uri) = 7 + PayloadLength(uri)
         /\ RecordLength(uri) < LongLength /\ LongLength < Word
         /\ 7 + PayloadLength(uri) <= size
         /\ D(0) = TLV_NDEF /\ D(1) = RecordLength(uri)
         /\ D(2) = RecordHeader /\ D(3) = 1 /\ D(4) = PayloadLength(uri)
         /\ D(5) = TypeUri /\ D(6) = Abbreviate(uri)
         /\ \A i \in 1..(PayloadLength(uri) - 1) :
              D(6 + i) = uri[Swallowed(uri) + i]
<1>1. uri \in Uris /\ ImageSize(uri) # 0
  BY DEF RoundInv, ImageInFront
<1>2. /\ PayloadLength(uri) \in 1..ShortRecordMax
      /\ RecordLength(uri) = 4 + PayloadLength(uri)
      /\ RecordLength(uri) < LongLength
      /\ ImageSize(uri) = 7 + PayloadLength(uri)
  BY <1>1, Sizes, CodecAssumption
<1>3. PayloadLength(uri) \in Nat /\ PayloadLength(uri) >= 1
  BY <1>2, CodecAssumption
<1>4. LongLength < Word
  <2>1. LongLength \in Nat /\ LongLength < Base /\ Base \in Nat
    BY ByteAssumption DEF Byte
  <2>2. Base <= Base * Base
    BY <2>1
  <2>3. QED
    BY <2>1, <2>2, WordAssumption DEF RoundInv
<1>5. \A i \in 0..(6 + PayloadLength(uri)) : D(i) = Image(uri)[i + 1]
  BY <1>2, <1>3 DEF ImageInFront, D
<1>6. \A i \in 1..(PayloadLength(uri) - 1) : D(6 + i) = uri[Swallowed(uri) + i]
  <2> TAKE i \in 1..(PayloadLength(uri) - 1)
  <2>1. 6 + i \in 0..(6 + PayloadLength(uri)) /\ (6 + i) + 1 = 7 + i
    BY <1>3
  <2>2. D(6 + i) = Image(uri)[7 + i]
    BY <2>1, <1>5, Zenon
  <2>3. QED
    BY <2>2, <1>1, ImageBytes, CodecAssumption
<1>7. /\ D(0) = Image(uri)[1] /\ D(1) = Image(uri)[2] /\ D(2) = Image(uri)[3]
      /\ D(3) = Image(uri)[4] /\ D(4) = Image(uri)[5] /\ D(5) = Image(uri)[6]
      /\ D(6) = Image(uri)[7]
  BY <1>3, <1>5
<1>8. 7 + PayloadLength(uri) <= size
  BY <1>2 DEF ImageInFront
<1>9. QED
  BY <1>1, <1>2, <1>4, <1>6, <1>7, <1>8, ImageBytes,
     CodecAssumption

\* The prefix and the rest make the URI.
LEMMA PrefixAndRest ==
  ASSUME RoundInv, ImageInFront
  PROVE  Expansion(6, PayloadLength(uri)) = uri
<1> DEFINE rest == SubSeq(data, 8, 6 + PayloadLength(uri))
<1>1. uri \in Seq(Byte) /\ ImageSize(uri) # 0
  BY CodecAssumption DEF RoundInv, ImageInFront
<1>2. /\ Len(uri) \in Nat /\ Swallowed(uri) \in 0..Len(uri)
      /\ PayloadLength(uri) = 1 + (Len(uri) - Swallowed(uri))
  BY <1>1, Sizes
<1>3. \A i \in 1..(PayloadLength(uri) - 1) : data[7 + i] = uri[Swallowed(uri) + i]
  <2>1. \A i \in 1..(PayloadLength(uri) - 1) : D(6 + i) = uri[Swallowed(uri) + i]
    BY InFront
  <2>2. QED
    BY <2>1, <1>2 DEF D
<1>4. /\ rest \in Seq(Byte) /\ Len(rest) = PayloadLength(uri) - 1
      /\ \A i \in 1..(PayloadLength(uri) - 1) : rest[i] = uri[Swallowed(uri) + i]
  <2>1. \A i \in (Swallowed(uri) + 1)..Len(uri) : uri[i] \in Byte
    BY <1>1, <1>2, ElementOfSeq
  <2>2. ASSUME NEW i \in 8..(6 + PayloadLength(uri)) PROVE data[i] \in Byte
    <3>1. i - 7 \in 1..(PayloadLength(uri) - 1)
      BY <1>2
    <3>2. data[i] = uri[Swallowed(uri) + (i - 7)]
      BY <3>1, <1>3
    <3>3. Swallowed(uri) + (i - 7) \in (Swallowed(uri) + 1)..Len(uri)
      BY <3>1, <1>2
    <3> HIDE DEF rest
    <3>4. QED
      BY <3>2, <3>3, <2>1, Zenon
  <2>3. 6 + PayloadLength(uri) \in Int
    BY <1>2
  <2>4. /\ rest \in Seq(Byte)
        /\ Len(rest) = IF 8 <= 6 + PayloadLength(uri)
                       THEN (6 + PayloadLength(uri)) - 8 + 1 ELSE 0
        /\ \A i \in 1..((6 + PayloadLength(uri)) - 8 + 1) : rest[i] = data[8 + i - 1]
    BY <2>2, <2>3, SubSeqProperties
  <2> HIDE DEF rest
  <2>5. QED
    BY <2>4, <1>2, <1>3
<1>5. rest = SubSeq(data, 6 + 2, 6 + PayloadLength(uri))
  OBVIOUS
<1> HIDE DEF rest
<1>6. UriPrefixes[Abbreviate(uri)] \o rest = uri
  BY <1>1, <1>4, PrefixAndTail
<1>7. D(6) = Abbreviate(uri)
  BY InFront
<1>8. QED
  BY <1>5, <1>6, <1>7, Zenon DEF Expansion, rest
-----------------------------------------------------------------------------
(* Every step.                                                             *)

LEMMA BuildKeeps ==
  ASSUME RoundInv, Build PROVE RoundInv'
<1> DEFINE image == Image(uri)
           old == SubSeq(data, Len(image) + 1, size)
<1>1. CASE ImageSize(uri) = 0 \/ Len(Image(uri)) > ImageMax \/ Len(Image(uri)) > size
  BY <1>1 DEF RoundInv, Build, size
<1>2. CASE ~(ImageSize(uri) = 0 \/ Len(Image(uri)) > ImageMax \/ Len(Image(uri)) > size)
  <2>1. /\ pc = "build" /\ pc' = "tlv" /\ uri' = uri /\ tlv' = tlv /\ found' = found
        /\ written' = Len(image) /\ data' = image \o old
    BY <1>2 DEF Build
  <2>2. /\ image \in Seq(Nat) /\ Len(image) = ImageSize(uri) + Padding(ImageSize(uri))
        /\ ImageSize(uri) \in Nat /\ Padding(ImageSize(uri)) \in Nat
        /\ Len(image) <= size
    <3>1. uri \in Uris /\ ImageSize(uri) # 0
      BY <1>2 DEF RoundInv
    <3>2. /\ ImageSize(uri) = 7 + PayloadLength(uri) /\ PayloadLength(uri) \in Nat
          /\ Padding(ImageSize(uri)) \in Nat
      BY <3>1, Sizes, CodecAssumption
    <3>3. Len(image) = ImageSize(uri) + Padding(ImageSize(uri)) /\ image \in Seq(Nat)
      BY <3>1, ImageBytes, CodecAssumption
    <3> HIDE DEF image
    <3>4. ~(Len(image) > size)
      BY <1>2 DEF image
    <3>5. QED
      BY <3>2, <3>3, <3>4 DEF RoundInv
  <2> HIDE DEF image
  <2>3. /\ old \in Seq(Nat) /\ Len(old) = size - Len(image)
    <3>1. \A i \in 1..size : data[i] \in Nat
      BY ElementOfSeq DEF RoundInv, size
    <3>2. Len(image) + 1 \in Int /\ size \in Int /\ Len(image) \in Nat
      BY <2>2 DEF RoundInv
    <3>3. /\ old \in Seq(Nat)
          /\ Len(old) = IF Len(image) + 1 <= size THEN size - (Len(image) + 1) + 1 ELSE 0
      BY <3>1, <3>2, SubSeqProperties
    <3> HIDE DEF old
    <3>4. QED
      BY <3>2, <3>3, <2>2
  <2> HIDE DEF old
  <2> DEFINE both == image \o old
  <2>4. /\ both \in Seq(Nat) /\ Len(both) = Len(image) + Len(old)
        /\ \A i \in 1..(Len(image) + Len(old)) :
             both[i] = IF i <= Len(image) THEN image[i] ELSE old[i - Len(image)]
    BY <2>2, <2>3, ConcatProperties, Zenon
  <2>5. data' = both
    BY <2>1
  <2> HIDE DEF both
  <2>6. size' = size /\ data' \in Seq(Nat)
    BY <2>2, <2>3, <2>4, <2>5 DEF size, RoundInv
  <2>7. \A i \in 1..ImageSize(uri) : data'[i] = image[i]
    BY <2>2, <2>3, <2>4, <2>5
  <2>8. ImageInFront'
    <3>1. ImageSize(uri)' = ImageSize(uri) /\ Image(uri)' = Image(uri)
      BY <2>1
    <3>2. ~(ImageSize(uri) = 0)
      BY <1>2
    <3>3. size \in Nat /\ ImageSize(uri) <= size
      BY <2>2 DEF RoundInv
    <3>4. ImageSize(uri) <= size'
      BY <3>3, <2>6
    <3>5. QED
      BY <2>1, <2>7, <3>1, <3>2, <3>4 DEF ImageInFront, image
  <2>9. QED
    BY <2>1, <2>6, <2>8 DEF RoundInv
<1>3. QED
  BY <1>1, <1>2

\* In the loop over TLV blocks the first block is the message.
LEMMA BlockKeeps ==
  ASSUME RoundInv, pc = "tlv", Next, UNCHANGED codecVars
  PROVE  RoundInv'
<1> USE DEF RoundInv
<1>1. ImageInFront /\ tlv = 0
  OBVIOUS
<1>2. /\ PayloadLength(uri) \in Nat /\ RecordLength(uri) = 4 + PayloadLength(uri)
      /\ RecordLength(uri) < LongLength /\ 7 + PayloadLength(uri) <= size
      /\ D(0) = TLV_NDEF /\ D(1) = RecordLength(uri) /\ size \in Nat
      /\ LongLength \in Nat
  BY <1>1, InFront, CodecAssumption, ByteAssumption DEF Byte
<1>3. ~IsLong /\ ValueAt = 2 /\ TlvLength = RecordLength(uri)
  BY <1>1, <1>2 DEF IsLong, ValueAt, TlvLength, LengthAt
<1>4. TlvFits
  BY <1>1, <1>2, <1>3 DEF TlvFits, LengthAt
<1>5. tlv < size /\ D(tlv) = TLV_NDEF
  BY <1>1, <1>2
<1>6. EnterMessage
  BY <1>4, <1>5, TagAssumption
     DEF Next, EndOfMemory, SkipNull, Terminator, TlvRefused, SkipTlv, EnterMessage,
         EndOfMessage, RecordRefused, NextRecord, UriFound, UriRefused, UriOverruns,
         InTlv, InRecord
<1>7. /\ pc' = "record" /\ start' = 2 /\ message_size' = RecordLength(uri) /\ at' = 0
      /\ data' = data /\ uri' = uri /\ written' = written /\ found' = found
  BY <1>3, <1>6 DEF EnterMessage, codecVars
<1>8. ImageInFront' /\ size' = size
  BY <1>1, <1>7 DEF ImageInFront, size
<1>9. RecordLength(uri)' = RecordLength(uri)
  BY <1>7
<1>10. found' = NoUri
  BY <1>7
<1>11. QED
  BY <1>7, <1>8, <1>9, <1>10

\* In the message the first record is the URI.
LEMMA RecordKeeps ==
  ASSUME RoundInv, pc = "record", Next, UNCHANGED codecVars
  PROVE  RoundInv'
<1> USE DEF RoundInv
<1>1. ImageInFront /\ start = 2 /\ at = 0 /\ message_size = RecordLength(uri)
  OBVIOUS
<1>2. /\ PayloadLength(uri) \in Nat /\ PayloadLength(uri) >= 1
      /\ PayloadLength(uri) <= ShortRecordMax
      /\ RecordLength(uri) = 4 + PayloadLength(uri)
      /\ RecordLength(uri) < LongLength /\ LongLength < Word
      /\ 7 + PayloadLength(uri) <= size /\ size \in Nat
  BY <1>1, InFront, CodecAssumption
<1>3. /\ D(2) = RecordHeader /\ D(3) = 1 /\ D(4) = PayloadLength(uri)
      /\ D(5) = TypeUri /\ D(6) = Abbreviate(uri)
  BY <1>1, InFront
<1>4. /\ header = RecordHeader /\ type_length = 1 /\ M(2) = PayloadLength(uri)
      /\ M(3) = TypeUri /\ M(4) = Abbreviate(uri)
  BY <1>1, <1>3 DEF header, type_length, M
<1>5. RecordHeader \in Short /\ RecordHeader \notin HasId /\ RecordHeader \in WellKnown
  BY HeaderAssumption
<1>6. /\ TypeAt = 3 /\ id_length = 0 /\ payload_length = PayloadLength(uri)
      /\ PayloadAt = 4
  BY <1>1, <1>4, <1>5 DEF IdAt, TypeAt, id_length, payload_length, PayloadAt
<1>7. NextAt = RecordLength(uri)
  <2>1. 4 + PayloadLength(uri) \in 0..(Word - 1) /\ Word \in Nat
    BY <1>2, WordAssumption, ByteAssumption DEF Byte
  <2>2. (4 + PayloadLength(uri)) % Word = 4 + PayloadLength(uri)
    BY <2>1, OwnRemainder, WordAssumption
  <2>3. QED
    BY <2>2, <1>2, <1>6 DEF NextAt
<1>8. InRecord /\ RecordFits /\ IsUri /\ ~LengthWraps
  <2>1. ~LengthWraps
    BY <1>2, <1>6, WordAssumption, ByteAssumption DEF LengthWraps, Byte
  <2>2. QED
    BY <1>1, <1>2, <1>4, <1>5, <1>6, <1>7, <2>1 DEF InRecord, RecordFits, IsUri
<1>9. Expands
  <2>1. /\ uri \in Seq(Byte) /\ IsPrintable(uri) /\ Abbreviate(uri) \in Codes
        /\ Swallowed(uri) \in 0..Len(uri) /\ Len(uri) \in Nat
        /\ PayloadLength(uri) = 1 + (Len(uri) - Swallowed(uri))
    BY <1>1, Sizes, CodecAssumption DEF ImageInFront
  <2>2. Abbreviate(uri) < PrefixCount
    BY <2>1, PrefixAssumption DEF Codes
  <2>3. (PrefixLength[Abbreviate(uri)] + PayloadLength(uri)) % Word <= OutSize
    <3>1. /\ PrefixLength[Abbreviate(uri)] + ShortRecordMax <= OutSize
          /\ PrefixLength[Abbreviate(uri)] \in Nat
      BY <2>1, TableAssumption, PrefixAssumption DEF Codes
    <3>2. PrefixLength[Abbreviate(uri)] + PayloadLength(uri) <= OutSize
      BY <3>1, <1>2, CodecAssumption, OutAssumption
    <3>3. PrefixLength[Abbreviate(uri)] + size < Word
      BY <2>1
    <3>4. /\ PrefixLength[Abbreviate(uri)] + PayloadLength(uri) \in 0..(Word - 1)
          /\ Word \in Nat \ {0}
      BY <3>1, <3>3, <1>2, WordAssumption
    <3>5. QED
      BY <3>2, <3>4, OwnRemainder
  <2>4. ASSUME NEW i \in 1..(PayloadLength(uri) - 1) PROVE M(4 + i) \notin Control
    <3>1. M(4 + i) = D(6 + i)
      BY <1>1, <1>2 DEF M
    <3>2. D(6 + i) = uri[Swallowed(uri) + i]
      BY <1>1, InFront
    <3>3. Swallowed(uri) + i \in DOMAIN uri
      BY <2>1, LenProperties
    <3>4. QED
      BY <3>1, <3>2, <3>3, <2>1 DEF IsPrintable
  <2>5. QED
    BY <2>2, <2>3, <2>4, <1>2, <1>4, <1>6 DEF Expands, FitsOut
<1>10. UriFound
  <2>1. pc = "record" /\ ~(at >= message_size)
    BY <1>1, <1>2
  <2>2. /\ ~EndOfMemory /\ ~SkipNull /\ ~Terminator /\ ~TlvRefused /\ ~SkipTlv
        /\ ~EnterMessage /\ ~EndOfMessage
    BY <2>1 DEF EndOfMemory, SkipNull, Terminator, TlvRefused, SkipTlv, EnterMessage,
                EndOfMessage, InTlv
  <2>3. ~RecordRefused /\ ~NextRecord /\ ~UriRefused /\ ~UriOverruns
    BY <1>8, <1>9 DEF RecordRefused, NextRecord, UriRefused, UriOverruns
  <2>4. QED
    BY <2>2, <2>3 DEF Next
<1>11. ThisUri = [payload |-> 6, length |-> PayloadLength(uri)]
  BY <1>1, <1>4, <1>6 DEF ThisUri
<1>12. /\ pc' = "done" /\ found' = ThisUri /\ data' = data /\ tlv' = tlv
       /\ uri' = uri /\ written' = written
  BY <1>10 DEF UriFound, Done, codecVars
<1>13. ImageInFront' /\ size' = size /\ PayloadLength(uri)' = PayloadLength(uri)
  BY <1>1, <1>12 DEF ImageInFront, size
<1>14. QED
  BY <1>11, <1>12, <1>13
-----------------------------------------------------------------------------
(* The theorems.                                                           *)

LEMMA RoundStep == RoundInv /\ [CodecNext]_<<vars, codecVars>> => RoundInv'
<1> SUFFICES ASSUME RoundInv, [CodecNext]_<<vars, codecVars>> PROVE RoundInv'
  OBVIOUS
<1>1. CASE Build
  BY <1>1, BuildKeeps
<1>2. CASE Next /\ UNCHANGED codecVars
  <2>1. pc \in {"tlv", "record"}
    BY <1>2
       DEF Next, EndOfMemory, SkipNull, Terminator, TlvRefused, SkipTlv, EnterMessage,
           EndOfMessage, RecordRefused, NextRecord, UriFound, UriRefused, UriOverruns,
           InTlv, InRecord
  <2>2. QED
    BY <1>2, <2>1, BlockKeeps, RecordKeeps
<1>3. CASE UNCHANGED <<vars, codecVars>>
  <2>1. /\ data' = data /\ pc' = pc /\ tlv' = tlv /\ start' = start /\ at' = at
        /\ message_size' = message_size /\ found' = found
        /\ uri' = uri /\ written' = written
    BY <1>3 DEF vars, codecVars
  <2>2. /\ size' = size /\ RecordLength(uri)' = RecordLength(uri)
        /\ PayloadLength(uri)' = PayloadLength(uri)
    BY <2>1 DEF size
  <2>3. ImageInFront => ImageInFront'
    BY <2>1, <2>2 DEF ImageInFront
  <2>4. QED
    BY <2>1, <2>2, <2>3 DEF RoundInv
<1>4. QED
  BY <1>1, <1>2, <1>3 DEF CodecNext

LEMMA RoundInvHolds == CodecSpec => []RoundInv
BY RoundInit, RoundStep, PTL DEF CodecSpec

\* A tag the encoder wrote is one the decoder reads back, for every table of
\* prefixes, every URI and whatever the tag held before.
THEOREM WrittenReadsBack == CodecSpec => []ReadsBack
<1>1. RoundInv => ReadsBack
  <2> SUFFICES ASSUME RoundInv, pc = "done", written # 0
               PROVE  found # NoUri /\ Expansion(found.payload, found.length) = uri
    BY DEF ReadsBack
  <2>1. found = [payload |-> 6, length |-> PayloadLength(uri)]
    BY DEF RoundInv
  <2>2. found.payload = 6 /\ found.length = PayloadLength(uri) /\ NoUri.payload = 0
    BY <2>1 DEF NoUri
  <2>3. ImageInFront
    BY DEF RoundInv
  <2>4. QED
    BY <2>2, <2>3, PrefixAndRest
<1>2. QED
  BY <1>1, RoundInvHolds, PTL

\* What is padded to whole units is a whole number of them, and the padding is
\* less than one.
LEMMA WholePages ==
  ASSUME NEW b \in Nat, NEW p \in Nat \ {0},
         NEW pad, pad = (p - (b % p)) % p
  PROVE  /\ pad \in 0..(p - 1)
         /\ ((b + pad) \div p) * p = b + pad
<1> DEFINE q == b \div p
           r == b % p
<1>1. q \in Nat /\ r \in 0..(p - 1) /\ b = p * q + r
  OBVIOUS
<1>2. ASSUME NEW k \in Nat PROVE (p * k) \div p = k
  OBVIOUS
<1> HIDE DEF q, r
<1>3. CASE r = 0
  <2>1. pad = 0
    BY <1>3 DEF r
  <2>2. b + pad = p * q /\ p * q = q * p
    BY <2>1, <1>1, <1>3
  <2>3. (b + pad) \div p = q
    BY <2>2, <1>1, <1>2
  <2>4. ((b + pad) \div p) * p = b + pad
    BY <2>2, <2>3
  <2>5. pad \in 0..(p - 1)
    BY <2>1
  <2>6. QED
    BY <2>4, <2>5
<1>4. CASE r # 0
  <2>1. p - r \in 1..(p - 1)
    BY <1>1, <1>4
  <2>2. pad = p - r
    BY <2>1, OwnRemainder DEF r
  <2>3. b + pad = p * (q + 1) /\ p * (q + 1) = (q + 1) * p
    BY <2>2, <1>1
  <2>4. QED
    BY <2>1, <2>2, <2>3, <1>1, <1>2
<1>5. QED
  BY <1>3, <1>4

\* The page count a writer is given is the size of the image it then writes,
\* and less than a page of it is padding.
THEOREM PagesAreCounted == CodecSpec => []PagesAreTheImage
<1>1. RoundInv => PagesAreTheImage
  <2> SUFFICES ASSUME RoundInv, written # 0
               PROVE  /\ written = PageCount(uri) * PageSize
                      /\ written >= ImageSize(uri) /\ written < ImageSize(uri) + PageSize
                      /\ data[ImageSize(uri)] = TLV_TERMINATOR
    BY DEF PagesAreTheImage
  <2>1. ImageInFront /\ uri \in Uris
    BY DEF RoundInv
  <2>2. ImageSize(uri) \in Nat /\ ImageSize(uri) >= 1
    BY <2>1, Sizes, CodecAssumption DEF ImageInFront
  <2>3. written = ImageSize(uri) + Padding(ImageSize(uri))
    BY <2>1, ImageBytes, CodecAssumption DEF ImageInFront
  <2>4. /\ Padding(ImageSize(uri)) \in 0..(PageSize - 1)
        /\ PageCount(uri) * PageSize = written
    BY <2>2, <2>3, WholePages, CodecAssumption DEF Padding, PageCount
  <2>5. Image(uri)[ImageSize(uri)] = TLV_TERMINATOR
    BY <2>1, ImageBytes, CodecAssumption DEF ImageInFront
  <2>6. data[ImageSize(uri)] = TLV_TERMINATOR
    BY <2>1, <2>2, <2>5 DEF ImageInFront
  <2>7. QED
    BY <2>2, <2>3, <2>4, <2>6, CodecAssumption
<1>2. QED
  BY <1>1, RoundInvHolds, PTL

\* The abbreviation is the longest prefix of the URI that the table has.
THEOREM LongestIsTaken == CodecSpec => []LongestPrefixWins
<1>1. RoundInv => LongestPrefixWins
  BY AbbreviateIsLongest, CodecAssumption DEF RoundInv, LongestPrefixWins, Codes
<1>2. QED
  BY <1>1, RoundInvHolds, PTL
=============================================================================
