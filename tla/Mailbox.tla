------------------------------- MODULE Mailbox -------------------------------
(***************************************************************************)
(* What the firmware of the display promises.  A message that arrives      *)
(* takes the place of one that waits; the waiting message is taken in hand *)
(* when the panel may be drawn again, drawn, and saved.  A reset forgets   *)
(* what waits and what is in hand; afterwards the panel shows what was     *)
(* saved.                                                                  *)
(***************************************************************************)
CONSTANTS
    Messages,
    Nothing    \* no message

VARIABLES
    last,      \* the message that arrived last, since the reset
    waiting,   \* the message that waits to be drawn
    inHand,    \* the message that is being drawn, until it is saved
    shown,     \* what the panel shows
    saved      \* what a reset brings back

vars == <<last, waiting, inHand, shown, saved>>

Init ==
    /\ last = Nothing /\ waiting = Nothing /\ inHand = Nothing
    /\ shown \in Messages /\ saved \in Messages

Arrive(m) ==
    /\ last' = m /\ waiting' = m
    /\ UNCHANGED <<inHand, shown, saved>>

Take ==
    /\ waiting # Nothing /\ inHand = Nothing
    /\ inHand' = waiting /\ waiting' = Nothing
    /\ UNCHANGED <<last, shown, saved>>

\* What the panel shows already is not drawn.
Skip ==
    /\ waiting = shown /\ inHand = Nothing
    /\ waiting' = Nothing
    /\ UNCHANGED <<last, inHand, shown, saved>>

Draw ==
    /\ inHand # Nothing
    /\ shown' = inHand
    /\ UNCHANGED <<last, waiting, inHand, saved>>

Save ==
    /\ inHand = shown
    /\ saved' = inHand /\ inHand' = Nothing
    /\ UNCHANGED <<last, waiting, shown>>

Reset ==
    /\ last' = Nothing /\ waiting' = Nothing /\ inHand' = Nothing
    /\ UNCHANGED <<shown, saved>>

\* After a reset, the panel is drawn from what was saved.
Restore ==
    /\ last = Nothing /\ waiting = Nothing /\ inHand = Nothing
    /\ shown' = saved
    /\ UNCHANGED <<last, waiting, inHand, saved>>

Next ==
    \/ \E m \in Messages : Arrive(m)
    \/ Take \/ Skip \/ Draw \/ Save \/ Reset \/ Restore

Spec == Init /\ [][Next]_vars

\* The message that arrived last is drawn and saved in the end.
Settles ==
    <>[](/\ waiting = Nothing /\ inHand = Nothing /\ saved = shown
         /\ last # Nothing => shown = last)
=============================================================================
