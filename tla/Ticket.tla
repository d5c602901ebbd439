------------------------------- MODULE Ticket -------------------------------
(***************************************************************************)
(* What the API promises of the codes and states it keeps in memory: a     *)
(* ticket is issued once, is redeemed at most once and not after its time, *)
(* yields something that no other ticket has yielded, and leaves the       *)
(* memory in the end.                                                      *)
(***************************************************************************)
CONSTANTS Tickets, Goods

VARIABLES
    open,     \* the tickets the API knows
    expired,  \* those whose time has passed
    spent,    \* those that were known, or could have been, and are not any more
    served    \* what has been handed out

vars == <<open, expired, spent, served>>

Init == open = {} /\ expired = {} /\ spent = {} /\ served = {}

Issue(t) ==
    /\ t \in Tickets \ (open \cup spent)
    /\ open' = open \cup {t}
    /\ UNCHANGED <<expired, spent, served>>

Redeem(t) ==
    /\ t \in open \ expired
    /\ \E g \in Goods \ served : served' = served \cup {g}
    /\ open' = open \ {t}
    /\ spent' = spent \cup {t}
    /\ UNCHANGED expired

\* Tickets are forgotten, or lost on their way before anybody knows them.
Lapse ==
    /\ spent' \in SUBSET Tickets /\ spent \subseteq spent'
    /\ open' = open \ spent'
    /\ UNCHANGED <<expired, served>>

Expire(t) ==
    /\ t \in Tickets
    /\ expired' = expired \cup {t}
    /\ UNCHANGED <<open, spent, served>>

Next == Lapse \/ \E t \in Tickets : Issue(t) \/ Redeem(t) \/ Expire(t)

Leaves == \A t \in Tickets : t \in open ~> t \notin open

Safe == Init /\ [][Next]_vars

Spec == Safe /\ Leaves
=============================================================================
