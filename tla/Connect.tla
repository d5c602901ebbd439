------------------------------ MODULE Connect ------------------------------
(***************************************************************************)
(* How a user connects accounts of third parties.                          *)
(*                                                                         *)
(* POST /integrations/connect/:provider answers an address of the provider *)
(* that carries a random state, which the API keeps in memory for ten      *)
(* minutes (oauth-state.service.ts).  The provider sends the browser back  *)
(* to a callback of the API (auth.controller.ts), whose handleCallback()   *)
(* consumes the state, exchanges the code, counts the accounts and stores  *)
(* the new one.  The steps of a callback are its awaits.                   *)
(***************************************************************************)
EXTENDS Naturals, Sequences, FiniteSets

CONSTANTS
    Users,
    Providers,     \* a subset of the six below
    Identities,    \* accounts that a user may have at a provider
    MaxAccounts,   \* the limit of accounts for one user and provider
    MaxStates,     \* bound: authorisations begun
    MaxFaults      \* bound: requests and queries that fail, and restarts

Known == {"google", "microsoft", "slack", "teams", "zoom", "webex"}

ASSUME ProvidersAssumption == Providers \subseteq Known
ASSUME LimitsAssumption ==
    MaxAccounts \in Nat /\ MaxStates \in Nat /\ MaxFaults \in Nat

VARIABLES
    states,    \* the API's map: the user, for the states it holds
    begun,     \* history: the user and the provider for whom each state was issued
    expired,   \* the states whose ten minutes have passed
    jobs,      \* the callbacks in progress
    rows,      \* table IntegrationAccount
    consumed,  \* history: the states that have been consumed
    faults     \* faults so far

vars == <<states, begun, expired, jobs, rows, consumed, faults>>

States == 1 .. MaxStates

\* What handleCallback() of each provider awaits after it has consumed the state.
GoogleSteps    == <<"exchange", "profile", "count", "upsert">>
MicrosoftSteps == <<"exchange", "profile", "count", "upsert">>
SlackSteps     == <<"exchange", "count", "upsert">>
TeamsSteps     == <<"exchange", "profile", "count", "upsert">>
ZoomSteps      == <<"exchange", "profile", "count", "upsert">>
WebexSteps     == <<"exchange", "profile", "count", "upsert">>

Steps(p) ==
    CASE p = "google" -> GoogleSteps [] p = "microsoft" -> MicrosoftSteps
      [] p = "slack"  -> SlackSteps  [] p = "teams"     -> TeamsSteps
      [] p = "zoom"   -> ZoomSteps   [] p = "webex"     -> WebexSteps

\* What may be left of them.
Plans == {<<"upsert">>, <<"count", "upsert">>, <<"profile", "count", "upsert">>}
           \cup {Steps(p) : p \in Providers}

\* late: another account has been stored since the callback counted them.
Job == [state : States, user : Users, provider : Providers, todo : Plans, late : BOOLEAN]
Row == [user : Users, provider : Providers, identity : Identities, late : BOOLEAN]

Accounts(u, p) == {r \in rows : r.user = u /\ r.provider = p}
Without(S)     == [s \in DOMAIN states \ S |-> states[s]]
Fault          == faults < MaxFaults /\ faults' = faults + 1
At(j, step)    == j \in jobs /\ Head(j.todo) = step
Onward(j)      == [j EXCEPT !.todo = Tail(@)]
Replace(j, k)  == jobs' = (jobs \ {j}) \cup {k}

-----------------------------------------------------------------------------
Init ==
    /\ states = [s \in {} |-> 0]
    /\ begun = <<>>
    /\ expired = {}
    /\ jobs = {}
    /\ rows = {}
    /\ consumed = {}
    /\ faults = 0

\* getAuthUrl(): a new state, bound to the user.
Begin(u, p) ==
    /\ Len(begun) < MaxStates
    /\ begun' = Append(begun, [user |-> u, provider |-> p])
    /\ states' = [s \in DOMAIN states \cup {Len(begun) + 1} |->
                    IF s \in DOMAIN states THEN states[s] ELSE u]
    /\ UNCHANGED <<expired, jobs, rows, consumed, faults>>

\* Mutant: consume() leaves the state in the map.
ConsumeKept(s) ==
    /\ s \in DOMAIN states /\ s \notin expired
    /\ consumed' = consumed \cup {s}
    /\ UNCHANGED states

\* consume(): the state must be known and not expired, and is forgotten.
Consume(s) ==
    /\ s \in DOMAIN states /\ s \notin expired
    /\ consumed' = consumed \cup {s}
    /\ states' = Without({s})

\* The provider sends the browser back, perhaps more than once.  What comes without a
\* code, with an error or with a state that is not accepted changes nothing.
Callback(s) ==
    /\ s <= Len(begun)
    /\ Consume(s)
    /\ jobs' = jobs \cup {[state |-> s, user |-> states[s], provider |-> begun[s].provider,
                           todo |-> Steps(begun[s].provider), late |-> FALSE]}
    /\ UNCHANGED <<begun, expired, rows, faults>>

\* The code is exchanged for tokens; the profile is asked for.
Exchange(j) ==
    /\ At(j, "exchange")
    /\ Replace(j, Onward(j))
    /\ UNCHANGED <<states, begun, expired, rows, consumed, faults>>

Profile(j) ==
    /\ At(j, "profile")
    /\ Replace(j, Onward(j))
    /\ UNCHANGED <<states, begun, expired, rows, consumed, faults>>

\* Mutant: one account too many.
CountOneMore(j) ==
    /\ At(j, "count")
    /\ IF Cardinality(Accounts(j.user, j.provider)) > MaxAccounts
       THEN jobs' = jobs \ {j}
       ELSE Replace(j, Onward(j))
    /\ UNCHANGED <<states, begun, expired, rows, consumed, faults>>

\* The accounts are counted, those that are authorised again too.
Count(j) ==
    /\ At(j, "count")
    /\ IF Cardinality(Accounts(j.user, j.provider)) >= MaxAccounts
       THEN jobs' = jobs \ {j}
       ELSE Replace(j, Onward(j))
    /\ UNCHANGED <<states, begun, expired, rows, consumed, faults>>

\* Mutant: the account is inserted, whether it was there or not.
UpsertInserts(j) ==
    /\ At(j, "upsert")
    /\ \E i \in Identities :
         rows' = rows \cup {[user |-> j.user, provider |-> j.provider, identity |-> i,
                             late |-> j.late]}
    /\ jobs' = {IF k.user = j.user /\ k.provider = j.provider /\ Head(k.todo) = "upsert"
                THEN [k EXCEPT !.late = TRUE] ELSE k : k \in jobs \ {j}}
    /\ UNCHANGED <<states, begun, expired, consumed, faults>>

\* The account is inserted, or updated if it was there; its sync is that of CalendarSync.
Upsert(j) ==
    /\ At(j, "upsert")
    /\ \E i \in Identities :
         LET new == \A r \in Accounts(j.user, j.provider) : r.identity # i
         IN  /\ rows' = IF new THEN rows \cup {[user |-> j.user, provider |-> j.provider,
                                                identity |-> i, late |-> j.late]}
                        ELSE rows
             /\ jobs' = {IF new /\ k.user = j.user /\ k.provider = j.provider
                            /\ Head(k.todo) = "upsert"
                         THEN [k EXCEPT !.late = TRUE] ELSE k : k \in jobs \ {j}}
    /\ UNCHANGED <<states, begun, expired, consumed, faults>>

\* A request to the provider or a query fails: the browser is sent to "_failed".
CallbackFails(j) ==
    /\ j \in jobs /\ Fault
    /\ jobs' = jobs \ {j}
    /\ UNCHANGED <<states, begun, expired, rows, consumed>>

\* disconnect(): one of the user's own accounts.
Disconnect(r) ==
    /\ r \in rows
    /\ rows' = rows \ {r}
    /\ UNCHANGED <<states, begun, expired, jobs, consumed, faults>>

-----------------------------------------------------------------------------
(* Time and restarts                                                         *)

TtlPasses(s) ==
    /\ s <= Len(begun) /\ s \notin expired
    /\ expired' = expired \cup {s}
    /\ UNCHANGED <<states, begun, jobs, rows, consumed, faults>>

Sweep ==
    /\ \E s \in expired : s \in DOMAIN states
    /\ states' = Without(expired)
    /\ UNCHANGED <<begun, expired, jobs, rows, consumed, faults>>

\* The API restarts: the states are lost, and the callbacks in progress.
Restart ==
    /\ Fault
    /\ states' = Without(States)
    /\ jobs' = {}
    /\ UNCHANGED <<begun, expired, rows, consumed>>

CallbackStep(j) == Exchange(j) \/ Profile(j) \/ Count(j) \/ Upsert(j)

Next ==
    \/ \E u \in Users, p \in Providers : Begin(u, p)
    \/ \E s \in States : Callback(s) \/ TtlPasses(s)
    \/ \E j \in jobs : CallbackStep(j) \/ CallbackFails(j)
    \/ \E r \in rows : Disconnect(r)
    \/ Sweep \/ Restart

Spec == Init /\ [][Next]_vars

\* Time passes, the sweep runs, and requests to providers end (http.ts: ten seconds).
Fairness ==
    /\ \A s \in States : WF_vars(TtlPasses(s))
    /\ WF_vars(Sweep)
    /\ WF_vars(\E j \in jobs : CallbackStep(j))

FairSpec == Spec /\ Fairness

-----------------------------------------------------------------------------
(* Properties                                                                *)

\* Every variable has its type; a callback works for the user who began it, and an
\* account is stored once.
TypeOK ==
    /\ DOMAIN states \subseteq 1 .. Len(begun)
    /\ \A s \in DOMAIN states : states[s] = begun[s].user
    /\ begun \in Seq([user : Users, provider : Providers]) /\ Len(begun) <= MaxStates
    /\ expired \subseteq 1 .. Len(begun)
    /\ jobs \subseteq Job
    /\ \A j \in jobs : j.state <= Len(begun) /\ j.user = begun[j.state].user
    /\ rows \subseteq Row
    /\ \A q, r \in rows :
         q.user = r.user /\ q.provider = r.provider /\ q.identity = r.identity => q = r
    /\ consumed \subseteq States
    /\ faults \in 0 .. MaxFaults

\* Nobody gets more accounts of a provider than the limit, but by callbacks that had
\* already counted them when another one stored its account.
WithinLimit ==
    \A u \in Users, p \in Providers :
        Cardinality({r \in Accounts(u, p) : ~r.late}) <= MaxAccounts

\* The states are tickets: each is issued once, begins one callback, of the user for
\* whom it was issued, is worth nothing after ten minutes, and leaves the memory.
Statebook == INSTANCE Ticket WITH
    Tickets <- States, Goods <- States,
    open    <- DOMAIN states,
    expired <- expired,
    spent   <- {s \in 1 .. Len(begun) : s \notin DOMAIN states},
    served  <- consumed

StatesAreTickets == Statebook!Spec
=============================================================================
