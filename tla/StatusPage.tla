----------------------------- MODULE StatusPage -----------------------------
(***************************************************************************)
(* The status page ((dashboard)/status/page.tsx): the accounts and the     *)
(* newest message, read together.                                          *)
(***************************************************************************)
EXTENDS Shell, Naturals, FiniteSets

CONSTANTS StatusIds   \* accounts

VARIABLES
    accounts,     \* what the page knows: of each account its status, or "none"
    statusWait,   \* loading
    statusError,  \* error
    statusGets    \* Promise.all: which of the two requests are in flight

statusVars == <<accounts, statusWait, statusError, statusGets>>

Statuses == {"none", "active", "error"}
Both     == {"integrations", "messages"}

StatusUnmounted ==
    /\ accounts = [i \in StatusIds |-> "none"]
    /\ statusWait = TRUE /\ statusError = FALSE /\ statusGets = {}

\* The page is left: its state is gone.
StatusLeave ==
    /\ accounts' = [i \in StatusIds |-> "none"]
    /\ statusWait' = TRUE /\ statusError' = FALSE /\ statusGets' = {}

\* The effect: both requests are sent.
Load ==
    /\ statusWait' = TRUE /\ statusError' = FALSE /\ statusGets' = Both
    /\ UNCHANGED accounts

StatusMount ==
    IF Token THEN Load
    ELSE statusWait' = FALSE /\ UNCHANGED <<accounts, statusError, statusGets>>

StatusSession == Load

\* One of the two is answered; the page waits for the other, or shows both.
StatusAnswered(r) ==
    /\ r \in statusGets /\ ~statusError
    /\ statusGets' = statusGets \ {r}
    /\ IF statusGets' # {} THEN UNCHANGED <<accounts, statusWait>>
       ELSE /\ accounts' \in [StatusIds -> Statuses]
            /\ statusWait' = FALSE
    /\ UNCHANGED statusError

\* One fails: the page shows an error, whatever becomes of the other.
StatusFails(r) ==
    /\ r \in statusGets
    /\ statusError' = TRUE /\ statusWait' = FALSE /\ statusGets' = {}
    /\ UNCHANGED accounts

\* The button of the error.
Retry == ~statusWait /\ statusError /\ Load

\* What the first card shows.
Connected == Cardinality({i \in StatusIds : accounts[i] = "active"})

StatusStep ==
    /\ page = "status"
    /\ \/ Retry
       \/ \E r \in Both : StatusAnswered(r) \/ StatusFails(r)
=============================================================================
