---------------------------- MODULE MessageBoard ----------------------------
(***************************************************************************)
(* The custom messages of one user (messages/messages.service.ts of the    *)
(* API) and the agent that polls for the one to display.                   *)
(*                                                                         *)
(* The API is one Node process: a handler runs until it awaits a query,    *)
(* and the queries of several requests and timers interleave.  A step of   *)
(* this module is one query, with the code up to the next one.  A message  *)
(* is its position in rows, the order of createdAt.                        *)
(***************************************************************************)
EXTENDS Naturals, Sequences, FiniteSets

CONSTANTS
    Pages,          \* tabs from which the user sends custom messages
    Hooks,          \* tabs whose useBusyStatus posts BUSY and FREE
    Nobody,         \* no message
    MaxMessages,    \* bound: messages created, and POSTs in flight
    MaxFaults       \* bound: failed queries and restarts of the API

ASSUME ClientsAssumption ==
    Pages \cap Hooks = {} /\ IsFiniteSet(Pages) /\ IsFiniteSet(Hooks)
ASSUME NobodyAssumption  == Nobody \notin Nat
ASSUME LimitsAssumption  == MaxMessages \in Nat /\ MaxFaults \in Nat

VARIABLES
    rows,      \* the table MessageToDisplay
    creating,  \* the POST /messages in flight of each tab
    jobs,      \* the delivery simulation: timers armed, and runs that have read
    poll,      \* the agent's request: has it looked for a permanent message?
    shown,     \* the message the agent was last told to display
    settled,   \* history: messages cancelled while no timer was about to write them
    faults     \* faults so far

vars == <<rows, creating, jobs, poll, shown, settled, faults>>

Clients  == Pages \cup Hooks
Statuses == {"pending", "sent", "delivered", "cancelled"}

\* A POST is idle, or about to supersede, or about to insert.
Phases == {"idle", "supersede", "insert"}
Drafts == [phase : Phases, permanent : BOOLEAN]
NoDraft == [phase |-> "idle", permanent |-> FALSE]

Job  == [id : 1 .. MaxMessages, to : {"sent", "delivered"}, read : BOOLEAN]
Row  == [custom : BOOLEAN, permanent : BOOLEAN, status : Statuses]

Live(i)     == rows[i].custom /\ rows[i].status # "cancelled"
HasRead(i)  == \E j \in jobs : j.id = i /\ j.read

SetStatus(i, s) == rows' = [rows EXCEPT ![i].status = s]

Newest(ids) == IF ids = {} THEN Nobody
               ELSE CHOOSE i \in ids : \A k \in ids : k <= i

-----------------------------------------------------------------------------
Init ==
    /\ rows = <<>>
    /\ creating = [c \in Clients |-> NoDraft]
    /\ jobs = {}
    /\ poll = "permanent"
    /\ shown = Nobody
    /\ settled = {}
    /\ faults = 0

\* A tab sends a message and waits for the answer before it sends again.
Post(c, permanent) ==
    /\ creating[c].phase = "idle"
    /\ Len(rows) + Cardinality({d \in Clients : creating[d].phase # "idle"}) < MaxMessages
    /\ creating' = [creating EXCEPT ![c] = [phase |-> "supersede",
                                           permanent |-> permanent]]
    /\ UNCHANGED <<rows, jobs, poll, shown, settled, faults>>

\* The user sends a custom message.
SendCustom(c) == \E permanent \in BOOLEAN : Post(c, permanent)

\* The hook reports BUSY or FREE.
SendStatus(c) == Post(c, FALSE)

\* The messages that the updateMany of create() selects.
Superseded(i) ==
    rows[i].custom /\ rows[i].status \in {"pending", "sent", "delivered"}

\* create(): the first query.
Supersede(c) ==
    /\ creating[c].phase = "supersede"
    /\ rows' = [i \in DOMAIN rows |->
                  IF Superseded(i) THEN [rows[i] EXCEPT !.status = "cancelled"]
                                   ELSE rows[i]]
    /\ settled' = settled \cup {i \in DOMAIN rows : rows[i].custom /\ ~HasRead(i)}
    /\ creating' = [creating EXCEPT ![c].phase = "insert"]
    /\ UNCHANGED <<jobs, poll, shown, faults>>

\* Mutant: the timers are set for permanent messages only.
TimersSwapped(i, permanent) ==
    IF permanent THEN {[id |-> i, to |-> s, read |-> FALSE] : s \in {"sent", "delivered"}}
    ELSE {}

\* The two timers of the delivery simulation.
Timers(i, permanent) ==
    IF permanent THEN {}
    ELSE {[id |-> i, to |-> s, read |-> FALSE] : s \in {"sent", "delivered"}}

\* Mutant: the insertion is not awaited, so the timers are set even if it fails.
InsertUnawaited(c) ==
    /\ creating[c].phase = "insert"
    /\ rows' \in {rows, Append(rows, [custom |-> c \in Pages,
                                      permanent |-> creating[c].permanent,
                                      status |-> "pending"])}
    /\ jobs' = jobs \cup Timers(Len(rows) + 1, creating[c].permanent)
    /\ creating' = [creating EXCEPT ![c] = NoDraft]
    /\ UNCHANGED <<poll, shown, settled, faults>>

\* create(): the second query.
Insert(c) ==
    /\ creating[c].phase = "insert"
    /\ rows' = Append(rows, [custom |-> c \in Pages,
                             permanent |-> creating[c].permanent,
                             status |-> "pending"])
    /\ jobs' = jobs \cup Timers(Len(rows) + 1, creating[c].permanent)
    /\ creating' = [creating EXCEPT ![c] = NoDraft]
    /\ UNCHANGED <<poll, shown, settled, faults>>

\* A query of create() fails, and the request with it.
CreateFails(c) ==
    /\ creating[c].phase \in {"supersede", "insert"} /\ faults < MaxFaults
    /\ creating' = [creating EXCEPT ![c] = NoDraft]
    /\ faults' = faults + 1
    /\ UNCHANGED <<rows, jobs, poll, shown, settled>>

-----------------------------------------------------------------------------
\* The timer for "delivered" is set for five seconds after that for "sent".
Due(j) == j.to = "delivered" => [id |-> j.id, to |-> "sent", read |-> FALSE] \notin jobs

\* Mutant: the status is not re-read.
AdvanceReadBlind(j) ==
    /\ j \in jobs /\ ~j.read /\ Due(j)
    /\ jobs' = (jobs \ {j}) \cup {[j EXCEPT !.read = TRUE]}
    /\ UNCHANGED <<rows, creating, poll, shown, settled, faults>>

\* advance(): a cancelled message is left alone.
AdvanceRead(j) ==
    /\ j \in jobs /\ ~j.read /\ Due(j)
    /\ jobs' = (jobs \ {j}) \cup IF rows[j.id].status = "cancelled" THEN {}
                                 ELSE {[j EXCEPT !.read = TRUE]}
    /\ UNCHANGED <<rows, creating, poll, shown, settled, faults>>

AdvanceWrite(j) ==
    /\ j \in jobs /\ j.read
    /\ SetStatus(j.id, j.to)
    /\ jobs' = jobs \ {j}
    /\ UNCHANGED <<creating, poll, shown, settled, faults>>

\* A failed query ends this run of advance(), silently.
AdvanceFails(j) ==
    /\ j \in jobs /\ (j.read \/ Due(j)) /\ faults < MaxFaults
    /\ jobs' = jobs \ {j}
    /\ faults' = faults + 1
    /\ UNCHANGED <<rows, creating, poll, shown, settled>>

\* cancelMessage().  Its first query finds a row that is never deleted.
Cancel(i) ==
    /\ i \in DOMAIN rows
    /\ SetStatus(i, "cancelled")
    /\ settled' = IF HasRead(i) THEN settled ELSE settled \cup {i}
    /\ UNCHANGED <<creating, jobs, poll, shown, faults>>

\* The API restarts: requests fail, timers are lost.
Restart ==
    /\ faults < MaxFaults
    /\ creating' = [c \in Clients |-> NoDraft]
    /\ jobs' = {}
    /\ poll' = "permanent"
    /\ faults' = faults + 1
    /\ UNCHANGED <<rows, shown, settled>>

-----------------------------------------------------------------------------
\* getLatestPending(), called by every poll of the agent: the first query.
PollPermanent ==
    /\ poll = "permanent"
    /\ LET found == {i \in DOMAIN rows : /\ rows[i].custom /\ rows[i].permanent
                                         /\ rows[i].status # "cancelled"}
       IN  IF found # {}
           THEN shown' = Newest(found) /\ UNCHANGED poll
           ELSE poll' = "any" /\ UNCHANGED shown
    /\ UNCHANGED <<rows, creating, jobs, settled, faults>>

\* Mutant: delivered messages are no longer displayed.
DisplayedOpen(i) == rows[i].custom /\ rows[i].status \in {"pending", "sent"}

Displayed(i) ==
    rows[i].custom /\ rows[i].status \in {"pending", "sent", "delivered"}

\* The second query.
PollAny ==
    /\ poll = "any"
    /\ shown' = Newest({i \in DOMAIN rows : Displayed(i)})
    /\ poll' = "permanent"
    /\ UNCHANGED <<rows, creating, jobs, settled, faults>>

-----------------------------------------------------------------------------
Advance == \E j \in jobs : AdvanceRead(j) \/ AdvanceWrite(j)

Next ==
    \/ \E c \in Pages : SendCustom(c)
    \/ \E c \in Hooks : SendStatus(c)
    \/ \E c \in Clients : Supersede(c) \/ Insert(c) \/ CreateFails(c)
    \/ Advance
    \/ \E j \in jobs : AdvanceFails(j)
    \/ \E i \in DOMAIN rows : Cancel(i)
    \/ Restart
    \/ PollPermanent \/ PollAny

Spec == Init /\ [][Next]_vars

\* Timers fire, queries are answered and the agent keeps polling.
Fairness ==
    /\ WF_vars(Advance)
    /\ WF_vars(PollPermanent) /\ WF_vars(PollAny)

FairSpec == Spec /\ Fairness

-----------------------------------------------------------------------------
(* Properties                                                                *)

\* Every variable has its type; a job belongs to a message that exists.
TypeOK ==
    /\ rows \in Seq(Row) /\ Len(rows) <= MaxMessages
    /\ creating \in [Clients -> Drafts]
    /\ jobs \subseteq Job /\ \A j \in jobs : j.id \in DOMAIN rows
    /\ poll \in {"permanent", "any"}
    /\ shown \in DOMAIN rows \cup {Nobody}
    /\ settled \subseteq DOMAIN rows
    /\ faults \in 0 .. MaxFaults

\* What create() says of superseding and of the status it re-reads: a message that
\* was cancelled, or superseded by a newer one, never comes back, unless a timer
\* had read it before that.
CancelledForGood == \A i \in settled : rows[i].status = "cancelled"

\* What getLatestPending() says: a custom message "persists until the user sends a
\* new one or cancels it".
Persists ==
    [][\A i \in DOMAIN rows : Live(i) /\ ~Live(i)' =>
         \/ Cancel(i)
         \/ \E c \in Pages : Supersede(c)]_vars

Undelivered(i) ==
    i \in DOMAIN rows /\ rows[i].status = "pending" /\ ~rows[i].permanent

\* Every message that is not permanent leaves "pending", unless the API failed.
Delivers == \A i \in 1 .. MaxMessages : Undelivered(i) ~> (~Undelivered(i) \/ faults > 0)

\* The message the user should see: the newest permanent one that is not cancelled,
\* otherwise the newest custom one that is not cancelled.
Current ==
    LET permanent == {i \in DOMAIN rows : Live(i) /\ rows[i].permanent}
    IN  IF permanent # {} THEN Newest(permanent)
        ELSE Newest({i \in DOMAIN rows : Live(i)})

\* Once the table no longer changes, the agent displays the current message: no
\* interleaving of its two queries with other requests has a lasting effect.
AgentCatchesUp == <>[][UNCHANGED rows]_vars => <>[](shown = Current)
=============================================================================
