---------------------------- MODULE MCSequential ----------------------------
(***************************************************************************)
(* The library's own numbers, but for the base: a byte has seven bits, for *)
(* four of them to be a number of TLC's, and a size_t has four of them.    *)
(* What stands at the end of the range of a byte (a terminator, a long     *)
(* length) stands there.                                                   *)
(***************************************************************************)
EXTENDS Sequential, FiniteSets, TLC

Bit(n) == {h \in 0..127 : (h \div n) % 2 = 1}
MCShort     == Bit(16)
MCHasId     == Bit(8)
MCWellKnown == {h \in 0..127 : h % 8 = 1}
MCControl   == 0..31 \cup {127}

http == <<104, 116, 116, 112>>
sep  == <<58, 47, 47>>
www  == <<119, 119, 119, 46>>
MCPrefixes ==
  [code \in 0..6 |->
     CASE code = 0 -> <<>>
       [] code = 1 -> http \o sep \o www
       [] code = 2 -> http \o <<115>> \o sep \o www
       [] code = 3 -> http \o sep
       [] code = 4 -> http \o <<115>> \o sep
       [] code = 5 -> <<116, 101, 108, 58>>
       [] code = 6 -> <<109, 97, 105, 108, 116, 111, 58>>]
MCPrefixLength == [code \in 0..6 |-> Len(MCPrefixes[code])]

Run(byte, n) == [i \in 1..n |-> byte]

(* Memories that are walked.                                               *)

\* Every row of up to five of the bytes a TLV block is told by.
MCTlvs == UNION {[1..n -> {0, 1, 3, 126, 127}] : n \in 0..5}

\* A record: header, type length, payload length, ID length, type, ID, payload.
MCRecord(h, tl, short, long, il, rest) ==
  <<h, tl>> \o (IF h \in MCShort THEN <<short>> ELSE long)
            \o (IF h \in MCHasId THEN <<il>> ELSE <<>>) \o rest

\* A URI's type, codes that are in the table and one that is not, text and a
\* control byte.
MCRests ==
  {<<>>, <<85>>, <<85, 1>>, <<85, 7, 97>>, <<85, 6, 31>>, <<85, 85, 4, 2, 97>>}
Longs ==
  {<<0, 0, 0, 0>>, <<0, 0, 0, 1>>, <<127, 127, 127, 120>>, <<127, 127, 127, 127>>}

\* The first of two records: short or long, with an ID or none, of a known type
\* or another.
MCFirst ==
  {MCRecord(h, tl, short, <<>>, il, rest) :
     h \in {81, 89, 82}, tl \in 0..2, short \in 0..3, il \in 0..1, rest \in MCRests}
  \cup
  {MCRecord(h, tl, 0, long, il, rest) :
     h \in {65, 73, 66}, tl \in 0..2, long \in Longs, il \in 0..1, rest \in MCRests}

MCSecond == {<<>>, <<81, 1, 2, 85, 0, 97>>, <<9>>}

\* Their message, its length right, one too short or one too long for its block,
\* and then another block.
MCMessages ==
  {<<3, Len(m) + d>> \o m \o last :
     m \in {first \o second : first \in MCFirst, second \in MCSecond},
     d \in {-1, 0, 1},
     last \in {<<>>, <<3, 6, 81, 1, 2, 85, 5, 97>>}}

\* A payload that just fills the buffer, and one that does not fit, in the long
\* form of both lengths.
MCFull ==
  {<<3, 127, (8 + n) \div 128, (8 + n) % 128,
     65, 1, 0, 0, (1 + n) \div 128, (1 + n) % 128, 85, 4>> \o Run(97, n) :
     n \in {503, 504}}
-----------------------------------------------------------------------------
(* URIs that are written, with every prefix and of every length around a   *)
(* page and around the longest that fits; tags that held nothing or        *)
(* another message.                                                        *)

MCUris ==
  {MCPrefixes[code] \o Run(97, n) : code \in 0..6, n \in 0..9 \cup 118..128}
  \cup {Run(126, n) : n \in 1..4}
  \cup {<<97, byte, 97>> : byte \in {31, 32, 126, 127}}

Old == Image(MCPrefixes[4] \o Run(98, 30))
MCBefore ==
  {Run(0, n) : n \in {12, 144}} \cup {Old, Old \o Old, Run(3, 144)}

MCMemories == MCTlvs \cup MCMessages \cup MCFull \cup MCBefore
-----------------------------------------------------------------------------
(* Two URLs that share all pages but the third, so that a mixture of them  *)
(* is one of them again, and shorter and longer ones, on tags of four      *)
(* pages that held nothing, what an NTAG213 comes with, an empty message,  *)
(* or a text (test_lib.c:223-231).                                         *)

CONSTANTS zeros, fresh, empty, note

Url(beginning, byte, n) == MCPrefixes[4] \o beginning \o Run(byte, n)
MCUrls == {Url(<<120>>, 97, 4), Url(<<120>>, 98, 4)} \cup {Url(<<>>, 100 + n, n) : n \in {0, 4, 7}}
MCUrlSize == [url \in MCUrls |-> ImageSize(url)]

MCOthers == {zeros, fresh, empty, note}
MCOtherSize == [kind \in MCOthers |-> IF kind = note THEN 15 ELSE 0]
MCOtherBytes ==
  [kind \in MCOthers |->
     CASE kind = zeros -> Run(0, 16)
       [] kind = fresh -> <<1, 3, 32, 12, 52, 3, 0, 126>> \o Run(0, 8)
       [] kind = empty -> <<3, 0, 126, 0>> \o Run(0, 12)
       [] kind = note  -> <<3, 12, 81, 1, 8, 84, 2, 101, 110, 104, 105, 33, 33, 33, 126, 0>>]
MCOtherText ==
  [kind \in MCOthers |-> {j \in 1..16 : MCOtherBytes[kind][j] \notin MCControl}]
-----------------------------------------------------------------------------
(* Labels.                                                                 *)

\* JSK3-G03N and 0NK1-DHS3
MCIds == {<<18, 25, 19, 3, 16, 0, 3, 21>>, <<0, 21, 19, 1, 13, 17, 25, 3>>}

\* 0 1 3, O o l, U, k K N, Z, a space, a hyphen and a point
MCChars == {48, 49, 51, 79, 111, 108, 85, 107, 75, 78, 90, 32, 45, 46}

\* BIN and a space
MCPrefix == <<66, 73, 78, 32>>
MCHosts  == {<<>>, <<104, 58, Slash, Slash, 97>>, <<Slash, 115, Slash, 115>>}

\* Any URI of up to six characters, and codes around the longest.
MCStarts ==
  [beginning \in {<<>>, <<Slash, 115, Slash>> \o Run(120, 62)} |->
     IF beginning = <<>> THEN 6 ELSE 3]
-----------------------------------------------------------------------------
(* Settings: a table of each kind, the delays of antlia_config.c, and      *)
(* files whose fields may also be just out of range.                       *)

MCKeyDelay == 0 :> 5 @@ 1 :> 15 @@ 2 :> 30 @@ 3 :> 60
MCDefaults ==
  [output |-> 0, terminator |-> 1, auto_type |-> 1, key_delay_ms |-> 15]
MCFileDelays == {5, 15, 30, 60} \cup {16}
=============================================================================
