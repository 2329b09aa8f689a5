-------------------------- MODULE NdefWalkProofs --------------------------
(***************************************************************************)
(* Proofs about module NdefWalk, for memories of every size and content    *)
(* and a size_t of any width from four bytes on, the device's included.    *)
(***************************************************************************)
EXTENDS NdefWalk, NumberLemmas, TLAPS

\* A digit in front of a number makes it less than the next power.
LEMMA OneDigitMore ==
  ASSUME NEW b \in Nat \ {0}, NEW p \in Nat, NEW x \in 0..(p - 1), NEW d \in 0..(b - 1)
  PROVE  x * b + d \in 0..(p * b - 1)
<1>1. x + 1 <= p /\ x \in Nat /\ d \in Nat /\ d + 1 <= b
  OBVIOUS
<1>2. (x + 1) * b <= p * b
  BY <1>1
<1>3. (x + 1) * b = x * b + b
  BY <1>1
<1>4. x * b \in Nat /\ p * b \in Nat
  BY <1>1
<1>5. x * b + d <= p * b - 1
  BY <1>1, <1>2, <1>3, <1>4
<1>6. QED
  BY <1>1, <1>4, <1>5

\* Four bytes make a number below the fourth power of the base, two below the
\* second.
LEMMA BytesMakeNumber ==
  ASSUME NEW a \in Byte, NEW b \in Byte, NEW c \in Byte, NEW d \in Byte
  PROVE  /\ a * Base + b \in 0..(Base * Base - 1)
         /\ ((a * Base + b) * Base + c) * Base + d \in 0..(Base * Base * Base * Base - 1)
<1>1. Base \in Nat \ {0}
  BY ByteAssumption
<1>2. Base * Base \in Nat /\ Base * Base * Base \in Nat
  BY <1>1
<1>3. a * Base + b \in 0..(Base * Base - 1)
  BY <1>1, OneDigitMore DEF Byte
<1>4. (a * Base + b) * Base + c \in 0..(Base * Base * Base - 1)
  BY <1>1, <1>2, <1>3, OneDigitMore DEF Byte
<1>5. ((a * Base + b) * Base + c) * Base + d \in 0..(Base * Base * Base * Base - 1)
  BY <1>1, <1>2, <1>4, OneDigitMore DEF Byte
<1>6. QED
  BY <1>3, <1>5

\* Nothing is found before the end.
NotFoundYet == pc # "done" => found = NoUri

Inv == data \in Memories /\ TypeOK /\ Inside /\ NotFoundYet

\* A byte of the memory is a byte.
LEMMA ByteOfMemory ==
  ASSUME TypeOK, NEW i \in Nat, i < size
  PROVE  D(i) \in Byte
<1>1. i + 1 \in 1..Len(data) /\ data \in Seq(Byte)
  BY DEF TypeOK, size
<1>2. QED
  BY <1>1 DEF D

\* A TLV block that fits is read inside the memory, and its value ends there,
\* behind the tag.
LEMMA BlockIsInside ==
  ASSUME Inv, InTlv, TlvFits
  PROVE  /\ ValueAt \in Nat /\ TlvLength \in Nat
         /\ ValueAt > tlv
         /\ ValueAt + TlvLength <= size
<1>1. tlv \in Nat /\ size \in Nat
  BY DEF Inv, TypeOK, size
<1>2. LengthAt \in Nat /\ LengthAt < size /\ D(LengthAt) \in Byte
  BY <1>1, ByteOfMemory DEF Inv, TlvFits, LengthAt
<1>3. CASE IsLong
  <2>1. ValueAt = tlv + 4 /\ tlv + 4 <= size
    BY <1>1, <1>3 DEF ValueAt, TlvFits
  <2>2. D(tlv + 2) \in Byte /\ D(tlv + 3) \in Byte
    BY <1>1, <2>1, ByteOfMemory DEF Inv
  <2>3. D(tlv + 2) * Base + D(tlv + 3) \in Nat
    BY <2>2, BytesMakeNumber
  <2>4. QED
    BY <1>1, <1>3, <2>1, <2>3 DEF TlvLength, TlvFits
<1>4. CASE ~IsLong
  BY <1>1, <1>2, <1>4 DEF ValueAt, TlvLength, TlvFits, Byte
<1>5. QED
  BY <1>3, <1>4

\* A record whose fields are in the message has a header, a type and lengths
\* that are numbers, and its payload begins behind its header.
LEMMA FieldsAreRead ==
  ASSUME Inv, InRecord, TypeAt <= message_size
  PROVE  /\ header \in Byte
         /\ TypeAt \in Nat /\ TypeAt > at
         /\ PayloadAt \in Nat /\ PayloadAt > at
         /\ payload_length \in 0..(Base * Base * Base * Base - 1)
<1>1. /\ at \in Nat /\ start \in Nat /\ message_size \in Nat /\ size \in Nat
      /\ at < message_size /\ start + message_size <= size
  BY DEF Inv, TypeOK, Inside, NotFoundYet, InRecord, size
<1>2. ASSUME NEW i \in Nat, i < message_size PROVE M(i) \in Byte
  <2>1. start + i \in Nat /\ start + i < size
    BY <1>1, <1>2
  <2>2. QED
    BY <2>1, ByteOfMemory DEF Inv, M
<1>3. header \in Byte
  BY <1>1, <1>2 DEF header
<1>4. /\ IdAt \in {at + 3, at + 6} /\ TypeAt \in {IdAt, IdAt + 1}
      /\ header \in HasId => TypeAt = IdAt + 1
      /\ header \notin Short => IdAt = at + 6
  BY DEF IdAt, TypeAt
<1>5. IdAt \in Nat /\ TypeAt \in Nat /\ at + 3 <= TypeAt /\ IdAt <= TypeAt
  BY <1>1, <1>4
<1>6. type_length \in Nat
  BY <1>1, <1>2, <1>5 DEF type_length, Byte
<1>7. id_length \in Nat
  <2>1. CASE header \in HasId
    <3>1. IdAt < message_size
      BY <1>1, <1>4, <1>5, <2>1
    <3>2. QED
      BY <1>2, <1>5, <2>1, <3>1 DEF id_length, Byte
  <2>2. CASE header \notin HasId
    BY <2>2 DEF id_length
  <2>3. QED
    BY <2>1, <2>2
<1>8. payload_length \in 0..(Base * Base * Base * Base - 1)
  <2>1. CASE header \in Short
    <3>1. M(at + 2) \in Byte /\ 0 \in Byte
      BY <1>1, <1>2, <1>5, ByteAssumption DEF Byte
    <3>2. ((0 * Base + 0) * Base + 0) * Base + M(at + 2)
            \in 0..(Base * Base * Base * Base - 1)
      BY <3>1, BytesMakeNumber
    <3>3. ((0 * Base + 0) * Base + 0) * Base + M(at + 2) = M(at + 2)
      BY <3>1, ByteAssumption DEF Byte
    <3>4. QED
      BY <2>1, <3>2, <3>3 DEF payload_length
  <2>2. CASE header \notin Short
    <3>1. at + 6 <= message_size
      BY <1>1, <1>4, <1>5, <2>2
    <3>2. /\ M(at + 2) \in Byte /\ M(at + 3) \in Byte
          /\ M(at + 4) \in Byte /\ M(at + 5) \in Byte
      BY <1>1, <1>2, <3>1
    <3>3. QED
      BY <2>2, <3>2, BytesMakeNumber DEF payload_length
  <2>3. QED
    BY <2>1, <2>2
<1>9. QED
  BY <1>1, <1>3, <1>5, <1>6, <1>7, <1>8 DEF PayloadAt

\* The next record begins in the message, and where the payload ends unless its
\* length wraps.
LEMMA NextIsInMessage ==
  ASSUME Inv, InRecord, RecordFits
  PROVE  /\ payload_length \in Nat /\ PayloadAt \in Nat
         /\ PayloadAt > at
         /\ NextAt \in 0..message_size
         /\ ~LengthWraps => NextAt = PayloadAt + payload_length
<1>1. TypeAt <= message_size /\ PayloadAt <= message_size /\ NextAt <= message_size
  BY DEF RecordFits
<1>2. PayloadAt \in Nat /\ PayloadAt > at /\ payload_length \in Nat
  BY <1>1, FieldsAreRead
<1>3. message_size \in Nat /\ Word \in Nat \ {0}
  <2>1. Base * Base * Base * Base \in Nat \ {0}
    BY ByteAssumption
  <2>2. QED
    BY <2>1, WordAssumption DEF Inv, TypeOK, size
<1>4. NextAt \in Nat
  BY <1>2, <1>3 DEF NextAt
<1>5. ASSUME ~LengthWraps PROVE NextAt = PayloadAt + payload_length
  <2>1. PayloadAt + payload_length \in 0..(Word - 1)
    BY <1>2, <1>3, <1>5 DEF LengthWraps
  <2>2. QED
    BY <1>3, <2>1, OwnRemainder DEF NextAt
<1>6. QED
  BY <1>1, <1>2, <1>3, <1>4, <1>5

\* What a record says depends on nothing but the memory and its place.
LEMMA RecordStays ==
  ASSUME UNCHANGED <<data, start, at>>
  PROVE  LengthWraps' = LengthWraps
BY DEF LengthWraps, PayloadAt, payload_length, type_length, id_length, TypeAt, IdAt,
       header, M, D

\* The cursors stay inside what they walk.
LEMMA InvHolds == Spec => []Inv
<1>1. Init => Inv
  <2> SUFFICES ASSUME Init PROVE Inv
    OBVIOUS
  <2>1. data \in Seq(Byte) /\ Len(data) \in Nat /\ 0 \in Byte
    BY MemoryAssumption, ByteAssumption DEF Init, Byte
  <2>2. QED
    BY <2>1 DEF Init, Inv, TypeOK, Inside, NotFoundYet, NoUri, size
<1>2. Inv /\ [Next]_vars => Inv'
  <2> SUFFICES ASSUME Inv, [Next]_vars PROVE Inv'
    OBVIOUS
  <2>. /\ data \in Memories /\ data \in Seq(Byte) /\ size \in Nat
       /\ tlv \in 0..size /\ start \in 0..size
       /\ message_size \in 0..size /\ at \in 0..size
    BY DEF Inv, TypeOK, size
  <2>1. ASSUME NEW uri \in {NoUri}, Done(uri) PROVE Inv'
    BY <2>1
    DEF Done, Inv, TypeOK, Inside, NotFoundYet, NoUri, Byte, size
  <2>2. ASSUME LeaveMessage, pc = "record" PROVE Inv'
    BY <2>2 DEF LeaveMessage, Inv, TypeOK, Inside, NotFoundYet, size
  <2>3. CASE SkipNull
    BY <2>3 DEF SkipNull, InTlv, Inv, TypeOK, Inside, NotFoundYet, size
  <2>4. CASE SkipTlv
    <3>1. tlv' = ValueAt + TlvLength /\ tlv' \in 0..size
      BY <2>4, BlockIsInside DEF SkipTlv
    <3>2. QED
      BY <2>4, <3>1 DEF SkipTlv, InTlv, Inv, TypeOK, Inside, NotFoundYet, size
  <2>5. CASE EnterMessage
    <3>1. /\ start' \in 0..size /\ message_size' \in 0..size
          /\ start' + message_size' <= size
      BY <2>5, BlockIsInside DEF EnterMessage
    <3>2. found' = NoUri
      BY <2>5 DEF EnterMessage, InTlv, Inv, NotFoundYet
    <3>3. QED
      BY <2>5, <3>1, <3>2 DEF EnterMessage, InTlv, Inv, TypeOK, Inside, NotFoundYet, size
  <2>6. CASE NextRecord
    <3>1. at' = NextAt /\ NextAt \in 0..message_size
      BY <2>6, NextIsInMessage DEF NextRecord
    <3>2. QED
      BY <2>6, <3>1 DEF NextRecord, InRecord, Inv, TypeOK, Inside, NotFoundYet, size
  <2>7. CASE UriFound
    <3>1. InRecord /\ RecordFits /\ ~LengthWraps /\ Done(ThisUri)
      BY <2>7 DEF UriFound
    <3>2. /\ ThisUri.payload \in Nat /\ ThisUri.length \in Nat
          /\ ThisUri.payload >= start
          /\ ThisUri.payload + ThisUri.length <= start + message_size
          /\ ThisUri \in [payload: Nat, length: Nat]
      BY <3>1, NextIsInMessage DEF ThisUri
    <3>3. start + message_size <= size
      BY <3>1 DEF Inv, Inside, InRecord
    <3>4. QED
      BY <3>1, <3>2, <3>3 DEF Done, Inv, TypeOK, Inside, NotFoundYet, size
  <2>8. CASE UriOverruns
    <3>1. LengthWraps'
      BY <2>8, RecordStays DEF UriOverruns
    <3>2. QED
      BY <2>8, <3>1
      DEF UriOverruns, InRecord, Inv, TypeOK, Inside, NotFoundYet, size
  <2>9. CASE UNCHANGED vars
    <3>1. LengthWraps' = LengthWraps
      BY <2>9, RecordStays DEF vars
    <3>2. QED
      BY <2>9, <3>1 DEF vars, Inv, TypeOK, Inside, NotFoundYet, size
  <2>10. QED
    BY <2>1, <2>2, <2>3, <2>4, <2>5, <2>6, <2>7, <2>8, <2>9
    DEF Next, EndOfMemory, Terminator, TlvRefused, EndOfMessage, RecordRefused,
        UriRefused, InRecord
<1>3. QED
  BY <1>1, <1>2, PTL DEF Spec

\* Every variable has its type, and no offset is past the memory.
THEOREM TypeCorrect == Spec => []TypeOK
<1>1. Inv => TypeOK
  BY DEF Inv
<1>2. QED
  BY <1>1, InvHolds, PTL

\* No block, record or URI reaches past what it lies in, whatever bytes the
\* memory holds and also where a length wraps; the copy that runs over is that of
\* a payload whose length does (ndef.c:48, :99).
THEOREM WalkStaysInside == Spec => []Inside
<1>1. Inv => Inside
  BY DEF Inv
<1>2. QED
  BY <1>1, InvHolds, PTL

\* No step goes back.  Every turn of the loop over the blocks goes on by the
\* block's header at least, and every turn of the loop over the records by the
\* record's, but the one behind a length that wraps.
THEOREM WalkGoesForward == Spec => OnlyForward
<1>1. Inv /\ [Next]_vars =>
        [Walking /\ Walking' =>
           \/ /\ Position' >= Position
              /\ Position' = Position => pc = "record" /\ pc' = "tlv"
           \/ pc = "record" /\ pc' = "record" /\ LengthWraps]_vars
  <2> SUFFICES ASSUME Inv, Next, Walking',
                      ~(pc = "record" /\ pc' = "record" /\ LengthWraps)
               PROVE  /\ Position' >= Position
                      /\ Position' = Position => pc = "record" /\ pc' = "tlv"
    OBVIOUS
  <2>. /\ size \in Nat /\ tlv \in 0..size /\ start \in 0..size
       /\ message_size \in 0..size /\ at \in 0..size
    BY DEF Inv, TypeOK, size
  <2>1. CASE SkipNull
    BY <2>1 DEF SkipNull, InTlv, Position
  <2>2. CASE SkipTlv
    <3>1. ValueAt + TlvLength > tlv /\ ValueAt + TlvLength \in Nat
      BY <2>2, BlockIsInside DEF SkipTlv
    <3>2. QED
      BY <2>2, <3>1 DEF SkipTlv, InTlv, Position
  <2>3. CASE EnterMessage
    <3>1. ValueAt > tlv /\ ValueAt \in Nat
      BY <2>3, BlockIsInside DEF EnterMessage
    <3>2. QED
      BY <2>3, <3>1 DEF EnterMessage, InTlv, Position
  <2>4. CASE LeaveMessage /\ pc = "record"
    <3>1. at <= message_size
      BY <2>4 DEF Inv, Inside
    <3>2. Position = start + at /\ Position' = start + message_size
      BY <2>4 DEF LeaveMessage, Position
    <3>3. QED
      BY <2>4, <3>1, <3>2 DEF LeaveMessage
  <2>5. CASE NextRecord
    <3>1. ~LengthWraps
      BY <2>5 DEF NextRecord, InRecord
    <3>2. NextAt > at /\ NextAt \in Nat
      BY <2>5, <3>1, NextIsInMessage DEF NextRecord
    <3>3. QED
      BY <2>5, <3>2 DEF NextRecord, InRecord, Position
  <2>6. QED
    BY <2>1, <2>2, <2>3, <2>4, <2>5
    DEF Next, EndOfMemory, Terminator, TlvRefused, UriFound, UriOverruns, Done,
        EndOfMessage, RecordRefused, UriRefused, InRecord, Walking
<1>2. QED
  BY <1>1, InvHolds, PTL DEF Spec, OnlyForward
=============================================================================
