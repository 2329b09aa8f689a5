------------------------------ MODULE MCWedge ------------------------------
(***************************************************************************)
(* Two tags with IDs of their own: "flaky" can be misread or missed at any *)
(* poll, "good" always reads.                                              *)
(***************************************************************************)
EXTENDS Wedge, TLC

CONSTANTS flaky, good, i1, i2

MCTags == {flaky, good}
MCReading == flaky :> {i1, Unreadable, ReadError} @@ good :> {i2}
MCReadingLive == flaky :> {Unreadable, ReadError} @@ good :> {i2}
=============================================================================
