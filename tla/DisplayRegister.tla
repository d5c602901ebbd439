--------------------------- MODULE DisplayRegister ---------------------------
(***************************************************************************)
(* What the agent's link to the display promises.  The display is a        *)
(* register that the agent writes: values go into a queue, the first of it *)
(* is written, perhaps more than once, or given up; now and then a value   *)
(* that was written is repeated, and that one is at most one value old.    *)
(***************************************************************************)
EXTENDS Sequences

CONSTANTS
    Values,
    Unset    \* no value was ever written

VARIABLES
    wanted,  \* the value the register should have
    queue,   \* the values on their way
    newest,  \* the last value whose write was acknowledged
    older,   \* the one acknowledged before it
    shown    \* the value of the register

vars == <<wanted, queue, newest, older, shown>>

Init ==
    /\ wanted \in Values /\ queue = <<>>
    /\ newest = Unset /\ older = Unset
    /\ shown \in Values

Want(v) ==
    /\ wanted' = v /\ queue' = Append(queue, v)
    /\ UNCHANGED <<newest, older, shown>>

\* What is wanted is queued once more.
Insist ==
    /\ queue' = Append(queue, wanted)
    /\ UNCHANGED <<wanted, newest, older, shown>>

\* A write takes effect, but nobody learns of it.
Try ==
    /\ queue # <<>>
    /\ shown' = Head(queue)
    /\ UNCHANGED <<wanted, queue, newest, older>>

Write ==
    /\ queue # <<>>
    /\ shown' = Head(queue)
    /\ newest' = Head(queue) /\ older' = newest
    /\ queue' = Tail(queue)
    /\ UNCHANGED wanted

GiveUp ==
    /\ queue # <<>>
    /\ queue' = Tail(queue)
    /\ UNCHANGED <<wanted, newest, older, shown>>

Repeat ==
    /\ shown' \in {newest, older} \ {Unset}
    /\ UNCHANGED <<wanted, queue, newest, older>>

Next ==
    \/ \E v \in Values : Want(v)
    \/ Insist \/ Try \/ Write \/ GiveUp \/ Repeat

Spec == Init /\ [][Next]_vars

\* The register comes to have the value it should have.
Settles == <>[](shown = wanted)
=============================================================================
