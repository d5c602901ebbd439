-------------------------- MODULE IntegrationsPage --------------------------
(***************************************************************************)
(* The page of connected accounts ((dashboard)/integrations/page.tsx) and  *)
(* its hook useBusyStatus (lib/useBusyStatus.ts), which tells the API      *)
(* BUSY or FREE from what the page knows of Slack and of the calendar.     *)
(*                                                                         *)
(* A request that changes nothing the page tells apart is answered in one  *)
(* step; the list and the presence of an account are read at the API and   *)
(* reach the page later, after other answers or not at all.  What is in    *)
(* flight when the page is left does not reach it.                         *)
(***************************************************************************)
EXTENDS Shell, Presence, Naturals, FiniteSets

CONSTANTS
    Ids,           \* accounts that the user may connect
    Providers,     \* their providers
    MaxAccounts,   \* MAX_ACCOUNTS
    Nothing        \* no account, no request, no message

ASSUME AccountsAssumption ==
    /\ Providers \subseteq {"google", "microsoft", "teams", "slack", "zoom", "webex"}
    /\ MaxAccounts \in Nat
    /\ Nothing \notin Ids \cup Providers \cup {"BUSY", "FREE"}

VARIABLES
    \* the API, while the page is mounted
    provider,    \* of each account
    linked,      \* of each account: "none", "active" or "error"
    \* the page
    list,        \* integrations: likewise
    loading, syncing, connecting, connectError, banner,
    presence,    \* what the page knows of each account: "unset" at first
    \* requests in flight
    listing,     \* GET /integrations: "none", "asked" or "read"
    reply,       \* what it has read
    polling,     \* the presence of each account
    syncs, removing, \* accounts
    away,        \* the provider at whose site the browser is
    \* the hook
    calendar,    \* calendarStatus.busy: "unset" until calendarLoaded
    wasBusy,     \* "unset", "busy" or "free"
    sending,     \* the message of the POST in flight
    queued,      \* queued.current
    posted       \* the last message whose POST has ended

linkVars == <<provider, linked>>
pageVars == <<list, loading, syncing, connecting, connectError, banner>>
listVars == <<listing, reply>>
wireVars == <<listVars, polling, syncs, removing, away>>
hookVars == <<calendar, wasBusy, sending, queued, posted>>
integrationsVars == <<linkVars, pageVars, presence, wireVars, hookVars>>

Known   == {i \in Ids : list[i] # "none"}
Polled  == {"slack", "teams", "zoom", "webex"}
Listed(p) == {i \in Known : provider[i] = p}

-----------------------------------------------------------------------------
(* useBusyStatus: the effect that follows every change of what it looks at   *)

SlackBusy(known) == \E i \in Ids : provider[i] = "slack" /\ known[i] = InCall

\* Mutant: while a message is on its way, another one is dropped.
SendDropping(message) ==
    IF sending = Nothing THEN sending' = message /\ UNCHANGED queued
    ELSE UNCHANGED <<sending, queued>>

\* sendMessage(): one at a time, and the latest one waits.
Send(message) ==
    IF sending = Nothing THEN sending' = message /\ UNCHANGED queued
    ELSE queued' = message /\ UNCHANGED sending

\* The first evaluation after the calendar is known, or a transition, sends a message.
Evaluate(known, busy) ==
    LET now == IF SlackBusy(known) \/ busy = "busy" THEN "busy" ELSE "free"
    IN  IF busy = "unset" \/ wasBusy = now
        THEN UNCHANGED <<wasBusy, sending, queued>>
        ELSE wasBusy' = now /\ Send(IF now = "busy" THEN "BUSY" ELSE "FREE")

\* The POST of sendMessage() ends, well or not: the one that waits is next.
PostEnds ==
    /\ sending # Nothing
    /\ posted' = sending
    /\ sending' = queued
    /\ queued' = Nothing
    /\ UNCHANGED <<linkVars, pageVars, presence, wireVars, calendar, wasBusy>>

\* GET /integrations/busy, every 30 s; a failure is ignored.
CheckCalendar ==
    /\ Token
    /\ calendar' \in {"busy", "free"}
    /\ Evaluate(presence, calendar')
    /\ UNCHANGED <<linkVars, pageVars, presence, wireVars, posted>>

-----------------------------------------------------------------------------
IntegrationsUnmounted ==
    /\ provider = [i \in Ids |-> Nothing]
    /\ linked = [i \in Ids |-> "none"] /\ list = [i \in Ids |-> "none"]
    /\ loading = TRUE /\ syncing = Nothing /\ connecting = Nothing
    /\ connectError = FALSE /\ banner = "none"
    /\ presence = [i \in Ids |-> "unset"]
    /\ listing = "none" /\ reply = [i \in Ids |-> "none"]
    /\ polling = [i \in Ids |-> Nothing]
    /\ syncs = {} /\ removing = {}
    /\ calendar = "unset" /\ wasBusy = "unset"
    /\ sending = Nothing /\ queued = Nothing /\ posted = Nothing

\* The page is left: its state is gone.
IntegrationsLeave ==
    /\ provider' = [i \in Ids |-> Nothing]
    /\ linked' = [i \in Ids |-> "none"] /\ list' = [i \in Ids |-> "none"]
    /\ loading' = TRUE /\ syncing' = Nothing /\ connecting' = Nothing
    /\ connectError' = FALSE /\ banner' = "none"
    /\ presence' = [i \in Ids |-> "unset"]
    /\ listing' = "none" /\ reply' = [i \in Ids |-> "none"]
    /\ polling' = [i \in Ids |-> Nothing]
    /\ syncs' = {} /\ removing' = {}
    /\ calendar' = "unset" /\ wasBusy' = "unset"
    /\ sending' = Nothing /\ queued' = Nothing /\ posted' = Nothing

\* What the API holds is any list of accounts.
Accounts ==
    /\ provider' \in [Ids -> Providers]
    /\ linked' \in [Ids -> {"none", "active", "error"}]

\* The effects of the first render: the list is asked for, if there is a token.
IntegrationsMount ==
    /\ Accounts
    /\ loading' = Token
    /\ listing' = IF Token THEN "asked" ELSE "none"
    /\ UNCHANGED <<list, syncing, connecting, connectError, banner, presence, reply,
                   polling, syncs, removing, away, hookVars>>

\* The browser comes back from a provider: what it brings becomes a banner.  The page
\* is loaded anew, so that it has no session yet.
IntegrationsReturn(outcome) ==
    /\ Accounts
    /\ outcome = "connected" =>
         \E i \in Ids : linked'[i] = "active" /\ provider'[i] = away
    /\ away' = Nothing
    /\ banner' = outcome
    /\ loading' = FALSE
    /\ UNCHANGED <<list, syncing, connecting, connectError, presence, listVars,
                   polling, syncs, removing, hookVars>>

\* The token arrives: the list is asked for.
IntegrationsSession ==
    /\ listing' = "asked"
    /\ UNCHANGED <<linkVars, pageVars, presence, reply, polling, syncs, removing, away,
                   hookVars>>

\* getAll() of the API.
ListRead ==
    /\ listing = "asked"
    /\ listing' = "read" /\ reply' = linked
    /\ UNCHANGED <<linkVars, pageVars, presence, polling, syncs, removing, away, hookVars>>

\* The answer, or a failure, which leaves the list as it is.
ListAnswered ==
    /\ \/ listing = "read" /\ list' = reply
       \/ listing # "none" /\ UNCHANGED list
    /\ loading' = FALSE
    /\ listing' = "none" /\ reply' = [i \in Ids |-> "none"]
    /\ UNCHANGED <<linkVars, syncing, connecting, connectError, banner, presence, polling,
                   syncs, removing, away, hookVars>>

-----------------------------------------------------------------------------
(* Presence, every 20 or 30 s                                                *)

PollSent(i) ==
    /\ Token /\ list[i] = "active" /\ provider[i] \in Polled
    /\ polling[i] = Nothing
    /\ polling' = [polling EXCEPT ![i] = "asked"]
    /\ UNCHANGED <<linkVars, pageVars, presence, listVars, syncs, removing, away, hookVars>>

\* The API looks the account up and asks its provider.
PollRead(i) ==
    /\ polling[i] = "asked"
    /\ \E says \in IF linked[i] = "none" THEN {Unknown} ELSE Answers(provider[i]) :
         polling' = [polling EXCEPT ![i] = says]
    /\ UNCHANGED <<linkVars, pageVars, presence, listVars, syncs, removing, away, hookVars>>

\* The page gets the answer, if there is one.
PollAnswered(i) ==
    /\ polling[i] \notin {Nothing, "asked"}
    /\ presence' = IF polling[i] = Unknown THEN presence
                   ELSE [presence EXCEPT ![i] = polling[i]]
    /\ Evaluate(presence', calendar)
    /\ polling' = [polling EXCEPT ![i] = Nothing]
    /\ UNCHANGED <<linkVars, pageVars, listVars, syncs, removing, away, calendar, posted>>

-----------------------------------------------------------------------------
(* The buttons                                                               *)

\* The rows and their buttons, unless the page loads or lacks its token.
Shown == ~loading /\ session # "broken"

CanAdd(p) == Shown /\ Cardinality(Listed(p)) < MaxAccounts /\ connecting # p

\* handleConnect(): the browser goes to the provider (of several requests under way, that
\* of the last), or the page shows an error.
Connect(p) ==
    /\ CanAdd(p)
    /\ IF Token THEN connecting' = p /\ connectError' = FALSE
       ELSE connectError' = TRUE /\ UNCHANGED connecting
    /\ UNCHANGED <<linkVars, list, loading, syncing, banner, presence, wireVars, hookVars>>

ConnectFails ==
    /\ connecting # Nothing
    /\ connecting' = Nothing /\ connectError' = TRUE
    /\ UNCHANGED <<linkVars, list, loading, syncing, banner, presence, wireVars, hookVars>>

\* handleSync(): the button of the account that is being synchronised is disabled.
Sync(i) ==
    /\ Shown /\ i \in Known /\ syncing # i
    /\ syncing' = i /\ syncs' = syncs \cup {i}
    /\ UNCHANGED <<linkVars, list, loading, connecting, connectError, banner, presence,
                   listVars, polling, removing, away, hookVars>>

\* The account that comes back replaces the one in the list, if it is still there.
SyncEnds(i) ==
    /\ i \in syncs
    /\ \/ UNCHANGED <<linked, list>>
       \/ /\ linked[i] # "none"
          /\ \E s \in {"active", "error"} :
               /\ linked' = [linked EXCEPT ![i] = s]
               /\ list' \in {list, IF i \in Known THEN [list EXCEPT ![i] = s] ELSE list}
    /\ syncing' = Nothing /\ syncs' = syncs \ {i}
    /\ UNCHANGED <<provider, loading, connecting, connectError, banner, presence, listVars,
                   polling, removing, away, hookVars>>

\* handleDisconnect()
Disconnect(i) ==
    /\ Shown /\ i \in Known /\ i \notin removing
    /\ removing' = removing \cup {i}
    /\ UNCHANGED <<linkVars, pageVars, presence, listVars, polling, syncs, away, hookVars>>

\* The account is deleted, and the page forgets it and what Slack has said of it.
DisconnectEnds(i) ==
    /\ i \in removing /\ linked[i] # "none"
    /\ linked' = [linked EXCEPT ![i] = "none"]
    /\ list' = [list EXCEPT ![i] = "none"]
    /\ presence' = IF provider[i] = "slack" THEN [presence EXCEPT ![i] = "unset"]
                   ELSE presence
    /\ Evaluate(presence', calendar)
    /\ removing' = removing \ {i}
    /\ UNCHANGED <<provider, loading, syncing, connecting, connectError, banner, listVars,
                   polling, syncs, away, calendar, posted>>

\* The request fails, before or after the deletion: the page does not notice.
DisconnectFails(i) ==
    /\ i \in removing
    /\ linked' \in {linked, [linked EXCEPT ![i] = "none"]}
    /\ removing' = removing \ {i}
    /\ UNCHANGED <<provider, pageVars, presence, listVars, polling, syncs, away, hookVars>>

IntegrationsStep ==
    /\ page = "integrations"
    /\ \/ PostEnds \/ CheckCalendar \/ ConnectFails
       \/ ListRead \/ ListAnswered
       \/ \E p \in Providers : Connect(p)
       \/ \E i \in Ids : \/ PollSent(i) \/ PollRead(i) \/ PollAnswered(i)
                         \/ Sync(i) \/ SyncEnds(i)
                         \/ Disconnect(i) \/ DisconnectEnds(i) \/ DisconnectFails(i)

-----------------------------------------------------------------------------
\* "Never drop a transition: remember the latest desired state and let the in-flight
\* send flush it" (useBusyStatus.ts): while the page is open, the newest of the messages
\* that wait, are on their way or were sent last is what the hook last decided, however
\* slowly the messages before it went.
NothingDropped ==
    LET newest == IF queued # Nothing THEN queued
                  ELSE IF sending # Nothing THEN sending ELSE posted
    IN  /\ wasBusy = "busy"  => newest = "BUSY"
        /\ wasBusy = "free"  => newest = "FREE"
        /\ wasBusy = "unset" => newest = Nothing
=============================================================================
