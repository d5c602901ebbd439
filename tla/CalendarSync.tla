---------------------------- MODULE CalendarSync ----------------------------
(***************************************************************************)
(* One connected account of a calendar provider: its tokens, and the       *)
(* events that syncEvents copies from the provider into the database       *)
(* (integrations/{zoom,webex,microsoft-calendar,google-calendar}.service,  *)
(* started by integrations.service.ts).                                    *)
(*                                                                         *)
(* The API is one process: a step is one query or one request of an        *)
(* activity, and the code up to the next.  Activities are syncs (the timer *)
(* of syncAllCalendars, the user's triggerSync, the sync that follows a    *)
(* connection) and the presence queries of live-status.  The provider is   *)
(* chosen at the start.  Google's sync is that of Microsoft once it has a  *)
(* token; how its library refreshes tokens is left out.                    *)
(***************************************************************************)
EXTENDS Naturals, FiniteSets

CONSTANTS
    Ids,            \* external ids of events
    PageOf,         \* the page on which the provider lists an event
    LastPage,
    Syncs,          \* activities that run syncEvents
    Timer,          \* the one of them started by the timer
    Queries,        \* activities that run getPresence
    MaxEvents       \* bound: changes of the calendar, expirations of the access token,
                    \* failed and lost requests, restarts, disconnections, connections

ASSUME PagesAssumption == LastPage \in Nat \ {0} /\ PageOf \in [Ids -> 1 .. LastPage]
ASSUME ActivitiesAssumption == Timer \in Syncs /\ Syncs \cap Queries = {}
ASSUME BoundsAssumption == MaxEvents \in Nat

VARIABLES
    provider,
    calendar,   \* the events the provider holds
    valid,      \* the refresh tokens the provider accepts
    issued,     \* refresh tokens issued so far
    row,        \* the IntegrationAccount
    table,      \* its CalendarEvents
    locks,      \* refreshLocks: the activities whose refresh others share
    job,        \* what each activity is doing
    lost,       \* did a new refresh token get lost on its way to the database?
    events      \* so far, of those that MaxEvents bounds

vars == <<provider, calendar, valid, issued, row, table, locks, job, lost, events>>

Providers  == {"zoom", "webex", "microsoft"}
Activities == Syncs \cup Queries

\* Zoom shares a refresh in flight, and replaces the refresh token at each.
SharesRefresh == provider = "zoom"
Rotates       == provider = "zoom"
\* Webex takes a page that fails for the end of the list.
StopsAtError  == provider = "webex"

\* id = 0: the account has been disconnected.
Rows == [id : Nat, refresh : Nat, fresh : BOOLEAN]

\* refresh and fresh are those of the row as the activity has read it; held are the
\* events that the calendar has held ever since.
Idle == [pc |-> "idle", id |-> 0, refresh |-> 0, fresh |-> FALSE, page |-> 1,
         got |-> {}, todo |-> {}, held |-> {}]

Jobs == [pc : {"idle", "deciding", "waiting", "refreshing", "storing", "fetching",
               "writing"},
         id : Nat, refresh : Nat, fresh : BOOLEAN,
         page : 1 .. LastPage, got : SUBSET Ids, todo : SUBSET Ids, held : SUBSET Ids]

\* The activity's refresh is over: those that share it.
Sharing(a) == {b \in Activities : job[b].pc = "waiting" /\ job[b].id = job[a].id}

Event == events < MaxEvents /\ events' = events + 1

-----------------------------------------------------------------------------
Init ==
    /\ provider \in Providers
    /\ calendar \in SUBSET Ids
    /\ valid = {0} /\ issued = 0
    /\ row = [id |-> 1, refresh |-> 0, fresh |-> TRUE]
    /\ table = {}
    /\ locks = {}
    /\ job = [a \in Activities |-> Idle]
    /\ lost = FALSE
    /\ events = 0

\* The activity finds the account's row.
Started(a, override) ==
    [Idle EXCEPT !.pc = IF override THEN "fetching" ELSE "deciding",
                 !.id = row.id, !.refresh = row.refresh, !.fresh = row.fresh,
                 !.held = IF a \in Syncs THEN calendar ELSE {}]

\* The timer finds no sync of its own running, or a user or an agent asks.
Start(a) ==
    /\ job[a] = Idle /\ row.id # 0
    /\ job' = [job EXCEPT ![a] = Started(a, FALSE)]
    /\ UNCHANGED <<provider, calendar, valid, issued, row, table, locks, lost, events>>

-----------------------------------------------------------------------------
(* getValidToken                                                             *)

\* Is there an entry for the account in refreshLocks?
Refreshing(a) == \E b \in locks : job[b].id = job[a].id

Decide(a) ==
    /\ job[a].pc = "deciding"
    /\ \/ job[a].fresh
          /\ job' = [job EXCEPT ![a].pc = "fetching"] /\ UNCHANGED locks
       \/ ~job[a].fresh /\ Refreshing(a)
          /\ job' = [job EXCEPT ![a].pc = "waiting"] /\ UNCHANGED locks
       \/ ~job[a].fresh /\ ~Refreshing(a)
          /\ job' = [job EXCEPT ![a].pc = "refreshing"]
          /\ locks' = IF SharesRefresh THEN locks \cup {a} ELSE locks
    /\ UNCHANGED <<provider, calendar, valid, issued, row, table, lost, events>>

\* Mutant: a refresh that fails stays in refreshLocks.
FailedLocked(a) == job' = [job EXCEPT ![a] = Idle] /\ UNCHANGED locks

\* The activity rejects, and with it those that share its refresh.
Failed(a) ==
    /\ locks' = locks \ {a}
    /\ job' = [b \in Activities |->
                 IF b = a \/ (a \in locks /\ b \in Sharing(a)) THEN Idle ELSE job[b]]

\* The provider grants a new access token.
Granted(a) ==
    /\ job[a].pc = "refreshing" /\ job[a].refresh \in valid
    /\ IF Rotates THEN /\ issued' = issued + 1
                       /\ valid' = (valid \ {job[a].refresh}) \cup {issued'}
       ELSE UNCHANGED <<valid, issued>>

Refresh(a) ==
    /\ Granted(a)
    /\ job' = [job EXCEPT ![a].pc = "storing",
                          ![a].refresh = IF Rotates THEN issued' ELSE @]
    /\ UNCHANGED <<provider, calendar, row, table, locks, lost, events>>

\* The refresh token is no longer valid.
RefreshRejected(a) ==
    /\ job[a].pc = "refreshing" /\ job[a].refresh \notin valid
    /\ Failed(a)
    /\ UNCHANGED <<provider, calendar, valid, issued, row, table, lost, events>>

\* The provider grants, but its answer does not arrive.
AnswerLost(a) ==
    /\ Event
    /\ Granted(a)
    /\ lost' = (lost \/ Rotates)
    /\ Failed(a)
    /\ UNCHANGED <<provider, calendar, row, table>>

\* Mutant: the rotated refresh token is not stored.
StoredAccessOnly(a) == [row EXCEPT !.fresh = TRUE]

\* What the update makes of the row.
Stored(a) == [row EXCEPT !.fresh = TRUE, !.refresh = IF Rotates THEN job[a].refresh ELSE @]

\* The new tokens are stored, and the activities that share them go on.
Store(a) ==
    /\ job[a].pc = "storing" /\ row.id = job[a].id
    /\ row' = Stored(a)
    /\ locks' = locks \ {a}
    /\ job' = [b \in Activities |->
                 IF b = a \/ (a \in locks /\ b \in Sharing(a))
                 THEN [job[b] EXCEPT !.pc = "fetching", !.fresh = TRUE]
                 ELSE job[b]]
    /\ UNCHANGED <<provider, calendar, valid, issued, table, lost, events>>

\* The account has been disconnected meanwhile.
StoreFails(a) ==
    /\ job[a].pc = "storing" /\ row.id # job[a].id
    /\ Failed(a)
    /\ UNCHANGED <<provider, calendar, valid, issued, row, table, lost, events>>

-----------------------------------------------------------------------------
(* getPresence after the token, and syncEvents after the token               *)

Answer(a) ==
    /\ job[a].pc = "fetching" /\ a \in Queries
    /\ job' = [job EXCEPT ![a] = Idle]
    /\ UNCHANGED <<provider, calendar, valid, issued, row, table, locks, lost, events>>

\* The events of all the pages are in hand: now they are upserted one by one.
Writing(j, got) ==
    [Idle EXCEPT !.pc = "writing", !.id = j.id, !.got = got, !.todo = got,
                 !.held = j.held]

\* Mutant: one page too many is asked for.
PastLast(page) == page > LastPage

\* Is there no page after it?
AtLast(page) == page = LastPage

FetchPage(a) ==
    /\ job[a].pc = "fetching" /\ a \in Syncs /\ job[a].fresh
    /\ LET page == job[a].page
           got  == job[a].got \cup {x \in calendar : PageOf[x] = page}
       IN  job' = [job EXCEPT ![a] =
                     IF AtLast(page) THEN Writing(@, got)
                     ELSE [@ EXCEPT !.page = page + 1, !.got = got]]
    /\ UNCHANGED <<provider, calendar, valid, issued, row, table, locks, lost, events>>

\* Mutant: a page that fails ends the list for every provider.
AfterErrorStops(a) == Writing(job[a], job[a].got)

\* What a sync does about a page that fails: all but Webex reject.
AfterError(a) == IF StopsAtError THEN Writing(job[a], job[a].got) ELSE Idle

\* The access token has expired, or the request fails.
FetchFails(a) ==
    /\ job[a].pc = "fetching" /\ a \in Syncs
    /\ IF job[a].fresh THEN Event
       ELSE UNCHANGED events
    /\ job' = [job EXCEPT ![a] = AfterError(a)]
    /\ UNCHANGED <<provider, calendar, valid, issued, row, table, locks, lost>>

\* Those that the provider lists first.
FirstOf(ids) == {x \in ids : \A y \in ids : PageOf[x] <= PageOf[y]}

\* Upsert of an event, which needs the account's row.
Upsert(a) ==
    /\ job[a].pc = "writing"
    /\ \E x \in FirstOf(job[a].todo) :
         IF row.id = job[a].id
         THEN /\ table' = table \cup {x}
              /\ job' = [job EXCEPT ![a].todo = @ \ {x}]
         ELSE /\ job' = [job EXCEPT ![a] = Idle]
              /\ UNCHANGED table
    /\ UNCHANGED <<provider, calendar, valid, issued, row, locks, lost, events>>

\* Mutant: the sync forgets to prune.
KeptAll(a) == table

\* What is left of the table: an empty list prunes nothing.
Kept(a) ==
    IF job[a].got # {} /\ row.id = job[a].id THEN table \cap job[a].got ELSE table

\* Events that were not returned are deleted, and the sync is over.
Prune(a) ==
    /\ job[a].pc = "writing" /\ job[a].todo = {}
    /\ table' = Kept(a)
    /\ job' = [job EXCEPT ![a] = Idle]
    /\ UNCHANGED <<provider, calendar, valid, issued, row, locks, lost, events>>

-----------------------------------------------------------------------------
(* The user, the provider and the process                                    *)

\* disconnect(): the account's events are deleted with it.
Disconnect ==
    /\ row.id # 0 /\ Event
    /\ row' = [row EXCEPT !.id = 0] /\ table' = {}
    /\ UNCHANGED <<provider, calendar, valid, issued, locks, job, lost>>

\* handleCallback(): new tokens for the account, which is created if need be, and
\* a sync in the background, which uses the new access token.
Connect(a) ==
    /\ Event
    /\ a \in Syncs \ {Timer} /\ job[a] = Idle
    /\ issued' = issued + 1 /\ valid' = valid \cup {issued'}
    /\ row' = [id |-> IF row.id # 0 THEN row.id ELSE events + 2,
               refresh |-> issued', fresh |-> TRUE]
    /\ job' = [job EXCEPT ![a] =
                 [Idle EXCEPT !.pc = "fetching", !.id = row'.id, !.refresh = issued',
                              !.fresh = TRUE, !.held = calendar]]
    /\ lost' = FALSE
    /\ UNCHANGED <<provider, calendar, table, locks>>

\* The access token in the row, and in every activity's hands, expires.
AccessExpires ==
    /\ Event
    /\ row.fresh
    /\ row' = [row EXCEPT !.fresh = FALSE]
    /\ job' = [a \in Activities |-> [job[a] EXCEPT !.fresh = FALSE]]
    /\ UNCHANGED <<provider, calendar, valid, issued, table, locks, lost>>

\* Events are created and deleted in the calendar.
CalendarChanges ==
    /\ Event
    /\ calendar' \in SUBSET Ids
    /\ job' = [a \in Activities |-> [job[a] EXCEPT !.held = @ \cap calendar']]
    /\ UNCHANGED <<provider, valid, issued, row, table, locks, lost>>

\* The API restarts: its activities and refreshLocks are gone.
Restart ==
    /\ Event
    /\ lost' = (lost \/ (Rotates /\ \E a \in Activities : job[a].pc = "storing"))
    /\ job' = [a \in Activities |-> Idle] /\ locks' = {}
    /\ UNCHANGED <<provider, calendar, valid, issued, row, table>>

-----------------------------------------------------------------------------
\* What an activity does once it has started.
Work(a) ==
    \/ Decide(a) \/ Refresh(a) \/ RefreshRejected(a) \/ Store(a) \/ StoreFails(a)
    \/ Answer(a) \/ FetchPage(a) \/ Upsert(a) \/ Prune(a)

Next ==
    \/ \E a \in Activities : Start(a) \/ Work(a) \/ AnswerLost(a) \/ FetchFails(a)
                             \/ Connect(a)
    \/ Disconnect \/ AccessExpires \/ CalendarChanges \/ Restart

Spec == Init /\ [][Next]_vars

\* Requests and queries are answered, or time out (providerFetch), and the timer
\* of syncAllCalendars fires for ever.
Fairness ==
    /\ \A a \in Activities : WF_vars(Work(a) \/ FetchFails(a))
    /\ WF_vars(Start(Timer))

FairSpec == Spec /\ Fairness

-----------------------------------------------------------------------------
(* Properties                                                                *)

\* Every variable has its type.
TypeOK ==
    /\ provider \in Providers
    /\ calendar \subseteq Ids /\ table \subseteq Ids
    /\ valid \subseteq Nat /\ issued \in Nat /\ events \in 0 .. MaxEvents
    /\ row \in Rows
    /\ locks \subseteq Activities
    /\ job \in [Activities -> Jobs]
    /\ lost \in BOOLEAN

\* Zoom's refresh is shared: for an account at most one activity refreshes at a time,
\* it is the one in refreshLocks, and whoever waits waits for such a refresh.
RefreshShared ==
    SharesRefresh =>
        /\ locks = {a \in Activities : job[a].pc \in {"refreshing", "storing"}}
        /\ \A a, b \in locks : job[a].id = job[b].id => a = b
        /\ \A a \in Activities : job[a].pc = "waiting" => Refreshing(a)

\* The provider accepts the stored refresh token, unless the new one is still on
\* its way to the database or has been lost: however refreshes, reconnections and
\* stale rows interleave, the account does not have to be reconnected.
TokensAlive ==
    row.id # 0 /\ ~lost =>
        \/ row.refresh \in valid
        \/ \E a \in Activities : job[a].pc = "storing" /\ job[a].id = row.id

\* A sync prunes no event that the calendar has held since the sync began, though
\* pages may fail (but Webex, see StopsAtError) and another sync may run at the
\* same time.
PruneSafe ==
    [][\A a \in Activities :
         provider # "webex" /\ Prune(a) => table \cap job[a].held \subseteq table']_vars

\* If the account stays connected and its refresh token is not lost, the table ends
\* up equal to the calendar, unless that is empty: in spite of overlapping syncs that
\* put deleted events back, prune new ones, and fail half-way.
Converges ==
    <>[](row.id # 0 /\ ~lost /\ calendar # {}) => <>[](table = calendar)
=============================================================================
