---------------------------- MODULE LineService ----------------------------
(***************************************************************************)
(* What the bridge promises its host: it announces itself before it says   *)
(* anything else, it answers a line it has taken once and only once, it    *)
(* never owes more than its queue and the line in hand, and after it has   *)
(* stopped it is silent.                                                   *)
(***************************************************************************)
EXTENDS Naturals

CONSTANT QueueDepth     \* lines the queue holds

VARIABLES
  phase,                \* "starting", "listening" or "stopped"
  owed                  \* lines taken and not answered

vars == <<phase, owed>>

Init == phase = "starting" /\ owed = 0

Announce == phase = "starting" /\ phase' = "listening" /\ UNCHANGED owed

Take == /\ phase # "stopped" /\ owed < QueueDepth + 1
        /\ owed' = owed + 1
        /\ UNCHANGED phase

Answer == /\ phase = "listening" /\ owed > 0
          /\ owed' = owed - 1
          /\ UNCHANGED phase

\* The lines still owed are answered by nobody.
Stop == phase = "listening" /\ phase' = "stopped" /\ owed' = 0

Next == Announce \/ Take \/ Answer \/ Stop

Spec == Init /\ [][Next]_vars
=============================================================================
