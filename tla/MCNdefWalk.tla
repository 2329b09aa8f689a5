---------------------------- MODULE MCNdefWalk ----------------------------
(***************************************************************************)
(* Bytes to the base 16, and a size_t of four of them.  A header has three *)
(* bits: Short, HasId, WellKnown.  The memories are rows of the bytes a    *)
(* TLV block is told by, and messages of one record with a long length, of *)
(* no type or a URI's: the least, the greatest, and those around the first *)
(* with which the end of the payload wraps, and around the first with      *)
(* which the expansion does.                                               *)
(***************************************************************************)
EXTENDS NdefWalk

Bit(n) == {h \in 0..15 : (h \div n) % 2 = 1}
MCShort     == Bit(1)
MCHasId     == Bit(2)
MCWellKnown == Bit(4)
MCPrefixLength == [code \in 0..2 |-> 4 * code]

Longs ==
  {<<0, 0, 0, 0>>, <<0, 0, 0, 1>>}
  \cup {<<15, 15, 15, last>> : last \in {6, 7, 8, 9, 12, 13, 14, 15}}

MCMemories ==
  UNION {[1..n -> {0, 1, 3, 14, 15}] : n \in 0..4}
  \cup {<<3, 9, 1, 0, 0, 0, 0>> \o long : long \in Longs}
  \cup {<<3, 10, 4, 1>> \o long \o <<5, code, 7, 7>> :
           long \in Longs, code \in 0..3}
=============================================================================
