---------------------------- MODULE Preferences ----------------------------
(***************************************************************************)
(* What the settings promise their user: the application opens with what   *)
(* was kept, or with the default if nothing was; what is chosen is kept by *)
(* an ordinary exit; and an exit that is cut short may lose what was kept, *)
(* but never leaves anything that nobody chose.                            *)
(***************************************************************************)
CONSTANTS
  Values, Default,      \* the settings one can choose, as a whole
  Nothing               \* not one of them: nothing is kept

VARIABLES
  phase,                \* "closed", "open" or "closing"
  chosen,               \* the settings in force; as they were, when closed
  kept                  \* what the next start will find

vars == <<phase, chosen, kept>>

Init == phase = "closed" /\ chosen = Default /\ kept \in Values \cup {Nothing}

Open ==
  /\ phase = "closed" /\ phase' = "open"
  /\ chosen' = IF kept = Nothing THEN Default ELSE kept
  /\ UNCHANGED kept

Choose == phase = "open" /\ chosen' \in Values /\ UNCHANGED <<phase, kept>>

\* What was kept is given up for what is going to be.
Close ==
  /\ phase = "open" /\ phase' = "closing"
  /\ kept' = Nothing
  /\ UNCHANGED chosen

Keep ==
  /\ phase = "closing" /\ phase' = "closed"
  /\ kept' = chosen
  /\ UNCHANGED chosen

CutShort ==
  /\ phase # "closed" /\ phase' = "closed"
  /\ UNCHANGED <<chosen, kept>>

\* Someone else puts settings in the place of what was kept, or takes it away.
Replace ==
  /\ phase # "closing"
  /\ kept' \in Values \cup {Nothing}
  /\ UNCHANGED <<phase, chosen>>

Next == Open \/ Choose \/ Close \/ Keep \/ CutShort \/ Replace

Spec == Init /\ [][Next]_vars
=============================================================================
