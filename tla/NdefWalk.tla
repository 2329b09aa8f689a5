------------------------------ MODULE NdefWalk ------------------------------
(***************************************************************************)
(* ndef_find_uri: the walk over a tag's memory that looks for the first    *)
(* URI record.  One step is one turn of a loop: a TLV block of the memory, *)
(* or a record of the message in an NDEF block.                            *)
(*                                                                         *)
(* A byte is a digit to the base Base, so that a small base can be checked *)
(* whole; size_t counts modulo Word, which is Base^4 on the device.        *)
(***************************************************************************)
EXTENDS Naturals, Sequences

CONSTANTS
  Base,                         \* values of a byte
  Word,                         \* values of a size_t
  TLV_NULL, TLV_NDEF, TLV_TERMINATOR,
  LongLength,                   \* marks a TLV length of two bytes more
  Short, HasId, WellKnown,      \* headers that say so
  TypeUri,                      \* 'U'
  Control,                      \* bytes that are not text
  PrefixCount, PrefixLength,    \* URI_PREFIXES
  OutSize,                      \* room for the URI
  Memories                      \* contents of a tag

Byte == 0..(Base - 1)

ASSUME ByteAssumption ==
  /\ Base \in Nat \ {0, 1}
  /\ {TLV_NULL, TLV_NDEF, TLV_TERMINATOR, LongLength, TypeUri} \subseteq Byte
  /\ Control \subseteq Byte
ASSUME TagAssumption ==
  TLV_NULL # TLV_NDEF /\ TLV_NULL # TLV_TERMINATOR /\ TLV_NDEF # TLV_TERMINATOR
ASSUME PrefixAssumption ==
  PrefixCount \in Nat /\ PrefixLength \in [0..(PrefixCount - 1) -> Nat]
ASSUME OutAssumption == OutSize \in Nat \ {0}
ASSUME MemoryAssumption == Memories \subseteq Seq(Byte)
\* A size_t holds every length of four bytes; a sum with one may be too much
\* for it, a sum without one is not.
ASSUME WordAssumption ==
  /\ Word \in Nat /\ Base * Base * Base * Base <= Word
  /\ \A memory \in Memories :
       /\ Len(memory) + Base * Base < Word
       /\ \A code \in 0..(PrefixCount - 1) : PrefixLength[code] + Len(memory) < Word

VARIABLES
  data,         \* the memory
  pc,           \* "tlv" or "record", the loop it is in; "done"; "overrun", from
                \* where nothing can be told; before the walk "build" or
                \* "refused", in NdefRoundTrip
  tlv,          \* offset in ndef_find_uri
  start, message_size,  \* the message: where it begins, and its size
  at,           \* offset in find_uri_in_message, counted from start
  found         \* the URI record that was returned, or NoUri

vars == <<data, pc, tlv, start, message_size, at, found>>

NoUri == [payload |-> 0, length |-> 0]
-----------------------------------------------------------------------------
D(i) == data[i + 1]             \* bytes are numbered from 0
size == Len(data)

(* A TLV block.                                                            *)

LengthAt == tlv + 1
IsLong   == D(LengthAt) = LongLength
ValueAt  == IF IsLong THEN tlv + 4 ELSE tlv + 2
TlvLength ==
  IF IsLong THEN D(tlv + 2) * Base + D(tlv + 3) ELSE D(LengthAt)

TlvFits ==
  /\ LengthAt < size
  /\ ValueAt <= size
  /\ ValueAt + TlvLength <= size

(* A record of the message.                                                *)

M(i) == D(start + i)

header         == M(at)
type_length    == M(at + 1)
IdAt           == IF header \in Short THEN at + 3 ELSE at + 6
TypeAt         == IF header \in HasId THEN IdAt + 1 ELSE IdAt
id_length      == IF header \in HasId THEN M(IdAt) ELSE 0
payload_length ==
  IF header \in Short
  THEN M(at + 2)
  ELSE ((M(at + 2) * Base + M(at + 3)) * Base + M(at + 4)) * Base + M(at + 5)
PayloadAt      == TypeAt + type_length + id_length

\* Where the next record begins, as the size_t has it.
NextAt == (PayloadAt + payload_length) % Word

\* Mutant: the payload is not looked at.
RecordFitsToPayload ==
  /\ TypeAt <= message_size
  /\ PayloadAt <= message_size

\* The returns before the type is looked at, in one: the fields are there, the
\* type and the ID are, and the payload is.
RecordFits ==
  /\ TypeAt <= message_size
  /\ PayloadAt <= message_size
  /\ NextAt <= message_size

\* The payload ends behind the last number a size_t holds.  Where the record is
\* let through all the same, its payload is not in its message.
LengthWraps == PayloadAt + payload_length >= Word

IsUri == header \in WellKnown /\ type_length = 1 /\ M(TypeAt) = TypeUri

\* The byte the payload begins with; behind the memory it may be any.
FirstBytes == IF start + PayloadAt < size THEN {M(PayloadAt)} ELSE Byte

\* The prefix, the payload and a NUL fit the buffer, as the size_t has it.
FitsOut(code) ==
  code < PrefixCount /\ (PrefixLength[code] + payload_length) % Word <= OutSize

\* Mutant: control bytes are let through.
ExpandsControl ==
  /\ payload_length >= 1
  /\ FitsOut(M(PayloadAt))

\* expand_uri, for a payload that lies in the message.
Expands ==
  /\ payload_length >= 1
  /\ FitsOut(M(PayloadAt))
  /\ \A i \in 1..(payload_length - 1) : M(PayloadAt + i) \notin Control
-----------------------------------------------------------------------------
Done(uri) ==
  /\ pc' = "done" /\ found' = uri
  /\ UNCHANGED <<data, tlv, start, message_size, at>>

InTlv == pc = "tlv" /\ tlv < size

EndOfMemory == pc = "tlv" /\ tlv >= size /\ Done(NoUri)

\* Mutant: the tag is looked at and not taken.
SkipNullStays ==
  /\ InTlv /\ D(tlv) = TLV_NULL
  /\ UNCHANGED vars

SkipNull ==
  /\ InTlv /\ D(tlv) = TLV_NULL
  /\ tlv' = tlv + 1
  /\ UNCHANGED <<data, pc, start, message_size, at, found>>

Terminator == InTlv /\ D(tlv) = TLV_TERMINATOR /\ Done(NoUri)

TlvRefused ==
  /\ InTlv /\ D(tlv) \notin {TLV_NULL, TLV_TERMINATOR}
  /\ ~TlvFits
  /\ Done(NoUri)

SkipTlv ==
  /\ InTlv /\ D(tlv) \notin {TLV_NULL, TLV_TERMINATOR, TLV_NDEF}
  /\ TlvFits
  /\ tlv' = ValueAt + TlvLength
  /\ UNCHANGED <<data, pc, start, message_size, at, found>>

EnterMessage ==
  /\ InTlv /\ D(tlv) = TLV_NDEF
  /\ TlvFits
  /\ pc' = "record"
  /\ start' = ValueAt /\ message_size' = TlvLength /\ at' = 0
  /\ UNCHANGED <<data, tlv, found>>

\* Mutant: the walk goes on inside the message.
LeaveMessageInside ==
  /\ pc' = "tlv" /\ tlv' = start
  /\ UNCHANGED <<data, start, message_size, at, found>>

\* find_uri_in_message returns false; the walk goes on behind the message.
LeaveMessage ==
  /\ pc' = "tlv" /\ tlv' = start + message_size
  /\ UNCHANGED <<data, start, message_size, at, found>>

InRecord == pc = "record" /\ at < message_size

EndOfMessage == pc = "record" /\ at >= message_size /\ LeaveMessage

RecordRefused == InRecord /\ ~RecordFits /\ LeaveMessage

NextRecord ==
  /\ InRecord /\ RecordFits /\ ~IsUri
  /\ at' = NextAt
  /\ UNCHANGED <<data, pc, tlv, start, message_size, found>>

ThisUri == [payload |-> start + PayloadAt, length |-> payload_length]

UriFound ==
  /\ InRecord /\ RecordFits /\ IsUri
  /\ ~LengthWraps /\ Expands
  /\ Done(ThisUri)

UriRefused ==
  /\ InRecord /\ RecordFits /\ IsUri
  /\ IF LengthWraps THEN \E code \in FirstBytes : ~FitsOut(code) ELSE ~Expands
  /\ LeaveMessage

\* The payload runs on to the end of what a size_t can count, and memcpy copies
\* it, from behind the memory to behind the buffer.
UriOverruns ==
  /\ InRecord /\ RecordFits /\ IsUri
  /\ LengthWraps /\ \E code \in FirstBytes : FitsOut(code)
  /\ pc' = "overrun"
  /\ UNCHANGED <<data, tlv, start, message_size, at, found>>

Init ==
  /\ data \in Memories
  /\ pc = "tlv" /\ tlv = 0
  /\ start = 0 /\ message_size = 0 /\ at = 0
  /\ found = NoUri

Next ==
  \/ EndOfMemory \/ SkipNull \/ Terminator \/ TlvRefused \/ SkipTlv
  \/ EnterMessage \/ EndOfMessage
  \/ RecordRefused \/ NextRecord
  \/ UriFound \/ UriRefused \/ UriOverruns

Spec == Init /\ [][Next]_vars

\* The walk is a loop on one thread and waits for nothing.
FairSpec == Spec /\ WF_vars(Next)
-----------------------------------------------------------------------------
(* Properties.                                                             *)

\* Every variable has its type, and no offset is past the memory.
TypeOK ==
  /\ data \in Seq(Byte)
  /\ pc \in {"build", "refused", "tlv", "record", "done", "overrun"}
  /\ {tlv, start, message_size, at} \subseteq 0..size
  /\ found \in [payload: Nat, length: Nat]

\* The cursors stay inside what they walk, also where a length wraps: the message
\* lies in the memory, the next record in the message, and the URI that is
\* returned in its message.  Only the copy of a payload whose length wraps leaves
\* the memory (the bounds of ndef.c:99 and :48).
Inside ==
  /\ tlv <= size
  /\ pc \in {"record", "overrun"} => start + message_size <= size /\ at <= message_size
  /\ found # NoUri =>
       /\ start <= found.payload
       /\ found.payload + found.length <= start + message_size
       /\ start + message_size <= size
  /\ pc = "overrun" => LengthWraps

\* "a truncated read must be refused, never parsed past the end"
\* (test_lib.c:235).
NeverPastTheEnd == pc # "overrun"

Position == IF pc = "record" THEN start + at ELSE tlv

Walking == pc \in {"tlv", "record"}

\* No step goes back, and one that stays where it is changes the loop: what was
\* read is not read again (ndef.c:69, :118), except behind a record whose length
\* wraps.
OnlyForward ==
  [][Walking /\ Walking' =>
       \/ /\ Position' >= Position
          /\ Position' = Position => pc = "record" /\ pc' = "tlv"
       \/ pc = "record" /\ pc' = "record" /\ LengthWraps]_vars

\* ndef.h:27: "Returns false when there is no well-formed URI record."  Whatever
\* the memory holds, the walk comes to an end.
WalkEnds == Walking ~> ~Walking

\* It does, unless it comes to a record whose length wraps (ndef.c:69, :118).
WalkEndsUnlessWrapped ==
  Walking ~> ~Walking \/ (InRecord /\ RecordFits /\ LengthWraps)
=============================================================================
