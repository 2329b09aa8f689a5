------------------------------- MODULE Typist -------------------------------
(***************************************************************************)
(* What Antlia promises the computer it is plugged into, with no threads,  *)
(* no views and no NFC: keys arrive only while the USB interface is lent   *)
(* to the keyboard, the text arrives in order and from its start, the      *)
(* closing Enter or Tab is pressed only after the whole text, and the      *)
(* interface is never given back in the middle of a text.                  *)
(***************************************************************************)
EXTENDS Naturals

CONSTANT TextLen        \* keys in a text that is not empty

VARIABLES
  lease,                \* the USB interface is the keyboard's
  phase,                \* where the current text stands
  sent                  \* keys of the current text the host has received

vars == <<lease, phase, sent>>

Init == lease = FALSE /\ phase = "idle" /\ sent = 0

TakeInterface == /\ ~lease /\ phase = "idle"
                 /\ lease' = TRUE
                 /\ UNCHANGED <<phase, sent>>

GiveInterfaceBack == /\ lease /\ phase # "typing"
                     /\ lease' = FALSE
                     /\ UNCHANGED <<phase, sent>>

StartText == /\ lease /\ phase = "idle"
             /\ phase' = "typing" /\ sent' = 0
             /\ UNCHANGED lease

SendKey == /\ phase = "typing" /\ sent < TextLen
           /\ sent' = sent + 1
           /\ UNCHANGED <<lease, phase>>

\* The closing key, or the end of a text that closes with none. An empty text
\* is whole from the start.
Submit(length) == /\ phase = "typing" /\ sent = length
                  /\ phase' = "submitted"
                  /\ UNCHANGED <<lease, sent>>

\* A key the host did not take ends the text where it stands: the key that
\* could not be let go again has been received all the same.
GiveUp == /\ phase = "typing"
          /\ phase' = "failed"
          /\ sent' \in {sent, sent + 1} /\ sent' <= TextLen
          /\ UNCHANGED lease

\* Without the interface a text fails before its first key.
Refuse == /\ ~lease /\ phase = "idle"
          /\ phase' = "failed"
          /\ UNCHANGED <<lease, sent>>

Forget == /\ phase \in {"submitted", "failed"}
          /\ phase' = "idle" /\ sent' = 0
          /\ UNCHANGED lease

Next == \/ TakeInterface \/ GiveInterfaceBack
        \/ StartText \/ SendKey \/ Submit(TextLen) \/ Submit(0)
        \/ GiveUp \/ Refuse \/ Forget

Spec == Init /\ [][Next]_vars
=============================================================================
