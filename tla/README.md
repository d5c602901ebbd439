# A TLA+ model of BuMeet

BuMeet puts a small display on the door that says whether somebody is busy. A
desktop agent (Python) finds out, from a web platform (NestJS and Next.js) and
from the camera and microphone of the computer, and writes the state over
Bluetooth LE to the firmware of the display (M5Stack CoreInk or Core2).

This directory holds TLA+ modules that model the parts of that code where several
activities interleave, TLC configurations that check them on small instances, and
proofs, checked by TLAPS, of what TLC can only check for one instance.
`PROJECT.json` maps every definition to the lines it models and lists the
components, runs, mutants, findings, hazards and theorems.

In what follows `agent/` stands for `src/bumeet_agent/`, `api/` for
`platform/apps/api/src/`, `web/` for `platform/apps/web/src/`, `coreink.ino` for
`firmware/coreink/coreink.ino`.

    tlc -config BleLink.cfg MCBleLink           # one run
    tlapm BleLinkProofs.tla                     # one proof

## 1. Inventory

### Desktop agent: one asyncio thread, interleaving at every `await`

| Component | State | Operations | Interacts with |
|---|---|---|---|
| `BleClient` (`agent/ble/client.py`) | `_client`, `_connected_event`, `_wake`, `_lock`, `_write_lock`, `_last_payload`, `_last_write_time`, `_not_found_streak` | `_connection_loop` (reconnect, resync, keepalive, Bluetooth reset), `connect`, `disconnect`, `write_now`, `send_payload`, `stop_persistent_connection`, `read_battery` | the display (GATT writes); the event bus; called by the orchestrator |
| `AgentOrchestrator` (`agent/detection/service.py`) | the FIFO `_send_lock`, cached API status and its age, hardware presence, backoff | hardware poll, API poll, `_push_combined_state`, heartbeat, microphone and battery reports, `_on_ble_connected` | BLE client, Agent API, hardware detection |
| Presence state machine, hardware detection (`agent/domain`, `agent/detection/{windows,macos}.py`) | the last state | comparison of snapshots | orchestrator |
| Pairing (`agent/app.py`, `_pair_with_portal`) | the code, `api.token` of the settings | register, poll until approved or expired | Pairing API |
| Settings, event bus, simulation, tray, autostart | a file; subscriptions | load, atomic save; emit | all of the agent |

Hard here: two tasks share one GATT connection with two locks, an event and a
wake-up flag, read state before an await and use it after it, and leave their
critical sections through exceptions and early returns. *Correct* means: the locks
can neither deadlock nor be forgotten; what is written is never older than the
code intends; the display ends up showing the current state; the connection loop
never ends.

### Firmware: two tasks in parallel, plain globals

| Component | State | Operations | Interacts with |
|---|---|---|---|
| CoreInk (`coreink.ino`) | `gPendingMsg`, `gNeedsRedraw` (under a spinlock), `gConnected`, `gDisconnectedMs`, `gNeedAdvRestart`, `gCurrentMsg`, the flash, timestamps | callbacks `onConnect`, `onDisconnect`, `onWrite` in the NimBLE task; `setup`, `loop` (sleep, debounce, draw, persist, auto-FREE, watchdog of advertising) | agent (GATT), panel, flash |
| Core2 (`firmware/core2/core2.ino`) | the same, a backlight, no debounce | the same | agent |

Hard here: a callback may run between any two accesses of `loop()`; `loop()` sleeps
for a time it computed earlier; a reset loses the memory and keeps flash and panel;
advertising may stop. *Correct* means: no message and no wake-up is lost; a reset
brings back what is shown; BUSY does not stay on the door for ever, and is not
removed too early; the display can always be found again.

### API: one Node process, interleaving at every awaited query

| Component | State | Operations | Interacts with |
|---|---|---|---|
| Messages (`api/messages/messages.service.ts`) | table `MessageToDisplay`, timers | `create`, `advance`, `cancelMessage`, `getLatestPending` | Messages page, `useBusyStatus`, Agent API |
| Pairing (`api/pairing/pairing.service.ts`) | an in-memory map of codes, `User.agentToken` | `register`, `approve`, `poll`, `sweep` | agent, Device page |
| Agent API (`api/agent/agent.controller.ts`) | presence and battery of the agent | `live-status`, presence, battery, config | orchestrator, live status, messages |
| Live status (`api/integrations/integrations.service.ts`) | in-memory presence, table of events | `getLiveStatus`, `getBusyStatus` | Agent API, providers |
| Calendar sync (the same file, `{zoom,webex,microsoft-calendar,google-calendar}.service.ts`) | accounts with their tokens, table of events, `refreshLocks`, `syncing` | `syncAllCalendars`, `triggerSync`, `handleCallback`, `disconnect`, `getValidToken`, `syncEvents` | third-party APIs |
| Presence (`getPresence` of the five services) | access tokens | what a provider's answer says of a call; Apple's service is wired to nothing | third-party APIs, live status, Integrations page |
| OAuth state and callbacks (`api/integrations/oauth-state.service.ts`, `api/auth/auth.controller.ts`, `handleCallback` of six services) | an in-memory map of states, accounts | `connect`, `consume`, exchange of the code, limit of accounts, upsert, sweep | the browser, third-party APIs |
| Accounts and sessions (`api/auth/*`, `api/users/*`) | tables `User`, `Session` | register, login, sign-in at a provider, the guard of every request, change of password, revoking, deletion | web (`web/lib/auth.ts`) |
| Calendar endpoint, device endpoints, Prisma | single queries | `getEvents`, address of the display | Calendar page, Device page |

### Web (`web/`)

| Component | State | Operations | Interacts with |
|---|---|---|---|
| Session and frame (`lib/auth.ts`, `app/providers.tsx`, `components/layout/Sidebar.tsx`) | the cookie with the API's token; which page is mounted | sign in, refetch, look for a missing token, sign out | accounts API; every page waits for its token |
| Calendar page (`(dashboard)/page.tsx`) | view, date, events, filters, the request in flight | navigate, change the view, toggle a provider | calendar endpoint |
| Integrations page and `useBusyStatus` (`(dashboard)/integrations/page.tsx`, `lib/useBusyStatus.ts`) | list, presence of each account, banner, a queue of one message | connect (leaves the site), sync, disconnect, poll presence, post BUSY or FREE | integrations API, providers, messages API |
| Status page (`(dashboard)/status/page.tsx`) | two answers, an error | load both, retry | integrations and messages API |
| Device page (`(dashboard)/device/page.tsx`) | pairing code, address of the display | approve by itself or on request, load and save the address | pairing API, device endpoints |
| Messages page (`(dashboard)/messages/page.tsx`) | the active message | send, cancel | messages API |
| Sign-in and account pages | forms | register, sign in, change the password, revoke, delete | accounts API |

Hard here: effects run again when the token arrives late; answers arrive after the
page has asked for something else, or has gone; two effects look at each other's state.
*Correct* means: what a page shows belongs to what it displays; no transition from busy
to free is lost; what must be done once is done once.

Hard in the platform: a handler reads, awaits, and writes what it decided before;
requests of several tabs interleave; timers and in-memory maps are lost in a
restart; answers are lost after they had their effect. *Correct* means: what is
cancelled stays cancelled; a custom message lasts as long as documented; the agent
is told the current message; an agent that believes it is linked is; a token is
handed out once; nothing stays in memory for ever; a refresh token that is rotated
is never used twice; a sync does not delete events that exist; a state of an
authorisation begins one callback, of the user who asked; the limit of accounts holds;
a change of password ends the sessions of the old one; nobody is stranded with a
session that has no token.

## 2. Modules

| Module | Models | Checked by | Proved in |
|---|---|---|---|
| `BleLink` | the BLE client and the send tasks of the orchestrator | `BleLink`, `BleLinkStale`, `BleLinkDead` | `BleLinkProofs` |
| `DisplayRegister` | abstract: what the link promises of the display | implemented by `BleLink` | - |
| `CoreInk` | the firmware of the CoreInk | `CoreInk` | `CoreInkProofs` |
| `Mailbox` | abstract: what the firmware promises of the messages it receives | implemented by `CoreInk` | - |
| `LiveStatus` | what the API answers an agent: precedence of calls, microphone, calendar and messages | by the module that extends it | `OrchestratorProofs` |
| `Orchestrator` (extends `LiveStatus`) | how the agent combines the devices with the API's answers | `Orchestrator` | `OrchestratorProofs` |
| `MessageBoard` | custom messages in the API, their clients, the agent's queries | `MessageBoard`, `MessagePersists` | `MessageBoardProofs` |
| `CalendarSync` | one connected account: tokens, refresh, sync, pruning | `CalendarSync` | `CalendarSyncProofs` |
| `Ticket` | abstract: what the API promises of the codes and states it keeps in memory | implemented by the next two | - |
| `Pairing` | pairing: agent, API, portal | `Pairing` | `PairingProofs` |
| `Connect` | OAuth states and the callbacks that connect an account | `Connect` | `ConnectProofs` |
| `Accounts` | users, sessions, cookies, and the requests about them | `Accounts` | `WebProofs` |
| `Shell` | the frame of the dashboard: the page mounted, the session | by `Portal` | - |
| `Presence` | what each provider's answer says of a call | by `Portal` | - |
| `CalendarPage`, `IntegrationsPage`, `StatusPage`, `DevicePage` (each extends `Shell`) | the pages, with the endpoints and the hook they use | by `Portal` | `WebProofs` |
| `Portal` (extends the four pages) | the dashboard in one browser | `Portal` | `WebProofs` |

The modules meet at small interfaces. The payload that `Orchestrator` last handed to a
send task (`sent`) is what `BleLink` calls `target` and brings to the display; what
`BleLink` writes is what `CoreInk` receives in `onWrite`; the current message of
`MessageBoard` is `message` in `Orchestrator`, and the table of `CalendarSync` its
`events` and the `table` of `CalendarPage`. What `IntegrationsPage` posts arrives at
`MessageBoard` as what a hook sends; what `DevicePage` approves is a call of `approve`
in `Pairing`; the address to which `Portal` sends the browser is a state of `Connect`,
and the token that `Shell` waits for is the one that `Accounts` puts into a cookie.
Each module lets its neighbours do anything at that interface.

Each `MC...` module extends its component's module with the model values and the
sets that the configurations use. Operators marked *Mutant* are plausible bugs of
the code: nothing uses them, and each breaks one property when it takes the place
of the definition it varies.

### BleLink

A step is what a task does from one `await` to the next; `pc[p]` names the await at
which task `p` is suspended. `"loop"` is `_connection_loop`, `"send"` the send task
that holds the orchestrator's `_send_lock`, the others being queued in `sendQ`.

| Variable | Code | | Action | Code |
|---|---|---|---|---|
| `connOwner`, `writeOwner` | `_lock`, `_write_lock` | | `LoopReconnect`, `LoopIdle`, `LoopKeepalive`, `LoopAwake` | top of the loop, `_sleep_or_wake` |
| `client` | `_client` and the state of its link | | `ConnectGranted`, `ConnectOk`, `Connected`, `...ConnectFails` | `connect` |
| `connEvent`, `wake` | `_connected_event`, `_wake` | | `WriteGranted`, `Resync...`, `Keepalive...`, `Send...` | the GATT writes, `write_now`, `send_payload` |
| `lastPayload`, `recent` | `_last_payload`, `_last_write_time` | | `DisconnectGranted`, `Disconnected`, `DisconnectFails` | `disconnect` |
| `streak`, `cooling` | `_not_found_streak`, the reset's cooldown | | `LoopFailed`, `BtResetDone` | the except clause, `_reset_bluetooth` |
| `sendQ`, `target` | `_send_lock`'s queue, the state last computed | | `Push`, `Heartbeat`, `ConnectOk` | the orchestrator's pushes |

`asyncio.Lock` is fair: a released lock belongs to its first waiter. A failed write
may have reached the display, a keepalive (written without response) may be lost, a
link may drop at any time, `disconnect()` of the BLE library may raise.

Left out: `stop_persistent_connection` and `read_battery`, a client without a
configured device, and how the payload is computed (`Orchestrator`). `Init`
covers the eager connection at start-up, successful or not.

`DisplayIsRegister` says that `BleLink` implements `DisplayRegister`, a register with
a queue of values to be written, and that it settles (`Converges`). `wanted` is
`target`; `queue` is `sendQ` without its head once that is written (a `write_now`
between its write and its bookkeeping, `Written`); `newest` and `older` are the last two
confirmed payloads. A failed `write_now` is a write of which nobody learns, or none; a
keepalive and a resync repeat `newest` or `older`. So the display shows nothing but what
was queued, in that order, save for repetitions that are at most one payload old.

### CoreInk

A step is one access to shared memory, or one critical section, with the local work
around it; `pc` is the place of the Arduino task, `bt` that of the NimBLE task.
`millis()` is modelled by *ages*, the time since each timestamp, which stop at the
limit they are compared with; `Tick` is a unit of time. `PowerLoss` is a reset at
any point. The actions of `loop()` follow its text from `LoopTop` to
`WatchdogRestart`.

Messages. `Messages` are the texts that `trim()` can leave, the empty one (`Empty`)
included: `onWrite` tests the size before it trims, so a write of nothing but spaces
(`Blank`) passes and becomes the empty message, which is drawn and saved like any other.
The same empty String is what `gPendingMsg` and `gCurrentMsg` hold after a reset. The
program never needs to tell the two apart; the history variable `heard` does, for
`PendingShown` and for the mapping to `Mailbox`. A write that is empty or longer than 64
bytes returns at once and changes nothing, so it is not a step.

Assumptions. Reading `millis()` and
`gDisconnectedMs` is one step. Drawing is one step. Left out: the battery
notification, which shares no state with the rest.

`PanelIsMailbox` says that `CoreInk` implements `Mailbox`: `last` is `gPendingMsg`
once something has arrived since the reset (`heard`), and is `waiting` too as long as
`gNeedsRedraw` is set; `inHand` is `toRender`, from the critical section that takes it to
the save; `shown` is the panel and `saved` the flash. `onWrite` and auto-FREE are arrivals,
`setup()` is `Restore`. A message may be replaced while it waits, may be dropped if the
panel shows it, and may be lost by a reset; otherwise it is drawn, in the order of arrival, and saved.

### LiveStatus and Orchestrator

`LiveStatus` has no variables: `Calendar`, `Live` and `Answer` are `getBusyStatus`,
`getLiveStatus` and the live-status handler as functions of what they read. A payload
is named by its cause.

| Variable of `Orchestrator` | Code | | Action | Code |
|---|---|---|---|---|
| `hw`, `snapshot`, `machine`, `lastHw` | the devices, the detector's snapshot, `PresenceStateMachine`, `_last_hw_busy` | | `Detect`, `Snapshot...`, `HandleSnapshot` | `_hardware_poll_loop`, `apply_snapshot`, `handle_snapshot` |
| `posting`, `mic` | `POST /agent/presence`, `micActive` with its 30 s | | `PostPresence`, `Presence...`, `MicExpires` | `_mic_heartbeat_loop`, `postPresence` |
| `asked`, `flags`, `cached`, `age`, `missed` | the poll in flight, `_last_api_busy`/`_upcoming`/`_last_custom_message_id`, `_last_api_data`, `_last_api_success_at` | | `ReadStatus`, `ReadMessage`, `PollAnswered`, `PollFails` | `live-status`, `_api_poll_loop` |
| `sent` | the payload of the newest `write_now` | | `Repush` | `_heartbeat_loop`, `_on_ble_connected` |

Time is in minutes, the unit of meetings and of staleness; polls are far more
frequent, so the age of the cached answer grows only after a poll has failed
(`missed`). The queries of one `live-status` are one step, but for that of the custom
message, which runs in parallel; each of the three sources may fail to be read and
then counts as absent. A 401, with its backoff, is one of the ways in which a poll
fails. The heartbeat's test for a pending send belongs to `BleLink` (`Heartbeat`).
Left out: battery reports, and all-day, cancelled and free events, which the query
filters out.

### CalendarSync

One account of one provider, chosen in `Init`. An activity is a sync (`Timer` is that
of the timer, which never overlaps itself because of `syncing`; the others are
`triggerSync` and the sync after `handleCallback`) or a presence query; `job[a]` is
where it is and what it has read: its own copy of the account's row, the page, the
events in hand.

| Variable | Code | | Action | Code |
|---|---|---|---|---|
| `row` | the `IntegrationAccount` (`id = 0`: none; `refresh` numbers the tokens as they are issued; `fresh`: the access token is accepted) | | `Decide`, `Refresh`, `Store`, ... | `getValidToken`, `refreshAccessToken` |
| `table` | its `CalendarEvent`s | | `FetchPage`, `FetchFails`, `Upsert`, `Prune` | `syncEvents` |
| `locks` | Zoom's `refreshLocks` | | `Connect`, `Disconnect`, `Restart` | `handleCallback`, `disconnect` |
| `calendar`, `valid`, `lost` | the provider: events, refresh tokens it accepts, whether one was lost on its way | | `CalendarChanges`, `AccessExpires`, `AnswerLost` | the provider |

Zoom shares a refresh in flight and replaces the refresh token at each; Webex and
Microsoft refresh without a lock and keep it; Webex takes a failed page for the end
of the list. Google's sync is that of Microsoft once it has a token. `held` (history)
is the set of events that the calendar has held since the activity began.
Assumptions: an event does not move between pages, and a new authorisation leaves
earlier grants valid. Left out: the limit of accounts (`Connect`), the contents of events,
the way Google's library refreshes tokens, Slack.

### MessageBoard

A step is one query and the code up to the next. A message is its position in
`rows`, the order of `createdAt`. `Pages` are tabs from which the user sends
messages, `Hooks` tabs whose `useBusyStatus` posts BUSY and FREE: the API tells the
two apart by content alone, so a user who types "BUSY" counts as a hook. `jobs` are
the timers of the delivery simulation and the runs of `advance()` that have read
but not written. `poll` and `shown` are the two queries of `getLatestPending` and
their result at the agent. `CreateFails` and `AdvanceFails` are queries that fail,
`Restart` a restart of the API.

Left out: `markDelivered`, which nothing in the repository calls, and the order in
which `useBusyStatus` posts (any order is possible).

### Pairing

The steps are the requests, `approve()` being split at its await (`Approve`,
`ApproveSave`, `ApproveReturn`). `pending` is the API's map, `agentToken` the
database column, `token` what the agent has saved. A lost request or answer, a
crash of the agent and a restart of the API are each a `Fault`. A code is a pair
(agent, attempt): codes are random and taken as unique.

`CodesAreTickets` says that `Pairing` implements `Ticket`: `pending` is the set of
open tickets, a code that was registered and is not known any more is spent, and the
tokens that polls have answered are the goods. `Ticket` lets tickets expire, be lost
or be forgotten at any time, but never come back, yield twice, or stay for ever.

### Connect

Six services have a `handleCallback` that consumes the state, exchanges the code,
asks for the profile (all but Slack), counts the accounts of the user at that provider
and upserts the new one. `Steps(p)` is that order, and a step of a callback is one
await; of several callbacks, or of one callback that the browser repeats, any may be
at any of them.

| Variable | Code | | Action | Code |
|---|---|---|---|---|
| `states` | the map of `OAuthStateService` | | `Begin` | `getAuthUrl` of the services |
| `begun`, `consumed` | history | | `Callback`, `Consume` | `auth.controller`, `consume` |
| `expired` | entries older than ten minutes | | `Exchange`, `Profile`, `Count`, `Upsert` | `handleCallback` |
| `jobs` | callbacks in progress | | `CallbackFails`, `Disconnect` | catch of the callback, `disconnect` |
| `rows` | table `IntegrationAccount` | | `TtlPasses`, `Sweep`, `Restart` | time, `setInterval`, the process |

`late` is history: another account was stored after this callback had counted. The
count and the upsert are two queries, and so callbacks that count together may pass the
limit; `WithinLimit` says that this is the only way. `StatesAreTickets` says that
`Connect` implements `Ticket`. The sync after a connection belongs to `CalendarSync`.

### Accounts

`job[b]` is the request of browser `b`: its kind, the query it makes next, and what
the earlier ones found. `Find`, `Create`, `OpenSession`, `Answer` are the queries of
`register`, `login` and `oauthLogin`; `Guard` is `validate` of `jwt.strategy.ts`, which
every other request passes; `Verify`, `UpdatePassword`, `DeleteOthers` are those of
`changePassword`. `Heal` is the `jwt` callback of `lib/auth.ts`, which runs whenever
the session is read and asks for a token if the cookie has none. `Fails` is a query
that throws, a request or an answer that is lost, or a restart, at any place.

A password is a number; whether the right one was typed is a choice, but a login
without a password in the row is refused. `seen`, `kept` and `spared` are history: the
password a login had read, and why a change of password has left a session alone.
`Revoked` names the ways in which a session of the old password survives: it made the
change itself; its login had verified the password before the change and inserted the
session after the deletion; the change failed between its two writes.

Left out: the logout endpoint, which nothing in the repository calls (the side bar
deletes the cookie, and the row of the session stays until it expires), the
demonstration login, and the fields of a profile.

### Presence

Pure operators: for each provider the replies it may give, as far as `getPresence`
tells them apart, and what the service makes of them. A refused request is *no call*
for Slack, Zoom and Webex and *unknown* for Teams and Microsoft, whose services throw.
Microsoft's answer has no `inCall`, so an account of it never says anything of a call.

### Portal and its pages

`Shell` has the page that is mounted and the session: it arrives, with a token or
without one, at any time, also after the page was mounted. `Portal` composes the four
pages: mounting one runs its effects, leaving it resets its state, and while the browser
is at a provider's site (`away`) no page is mounted. A step is an answer, a click, or
a timer, with the effects that React runs after it.

`CalendarPage`. Instants are integers, two for a day: its first moment and the rest;
weeks and months have the lengths that the instance gives them. `Fetch` is the effect
that follows a change of date, view or token: it marks the requests in flight as
ignored, as its clean-up does, and sends one for the range of the view. `basis` is
history, the table from which the events on display were read.
`CalendarComplete`: every day on display shows exactly its events, whatever was
clicked while requests were in flight. It leaves out `CutOff`: the range of week and
day views ends where the last day of the week begins, so events of that day are not
asked for.

`IntegrationsPage`. `linked` is the table of accounts, `list` what the page shows of
it; `listing`, `polling`, `syncs`, `removing`, `connecting` are requests in flight, of
which the list and the presence are read at the API before they are answered.
`Evaluate` is the effect of `useBusyStatus`, `Send` its queue of one message.
`NothingDropped`: the newest message is what the hook decided last.

`StatusPage` loads two answers with `Promise.all`. `DevicePage` approves the code of
the address bar with an effect (`AutoApprove`), or a code that was typed (`LinkAgent`); and
loads and saves the address of the display. The effect runs after every change of the
address bar, of the token and of the status. The address bar may change under a mounted
page (`ParamChanges`): the link of the side bar drops the code, Back and Forward bring it
back. `asked` counts the approvals since the user last acted on a failed one, by typing or
by the button; `NoRepeatedApproval` says that it never passes 1, so that the page neither
repeats an approval that is under way or acknowledged, nor retries a failed one by itself.

Left out: layout, the three events that a cell of the month view shows before it counts
the rest, demonstration accounts, badges, and what a loop of `sendMessage` that
outlives its page still posts.

## 3. Runs

| Run | Shows | Instance |
|---|---|---|
| `BleLink` | locks, bounded staleness, prompt reconnection over every interleaving; every `write_now` returns; the display is a register (`DisplayRegister`) that settles on the current state | 2 payloads, 2 pushes, 2 faults, reset after 2 failures, raising disconnects |
| `BleLinkStale` | *violation*: a keepalive writes the previous payload after a newer one | |
| `BleLinkDead` | *violation*: a raising `disconnect()` ends the connection loop | |
| `CoreInk` | no message or wake-up lost, resets, auto-FREE, advertising; the panel is a mailbox (`Mailbox`) that settles on the last message | 3 messages, one of them empty, 2 writes, 2 faults |
| `MessageBoard` | what is cancelled stays so, delivery, the agent catches up | 3 tabs, 2 messages, 2 faults |
| `MessagePersists` | *violation*: an automatic BUSY or FREE cancels a custom message | |
| `Orchestrator` | the devices come first, what is shown agrees with the flags the poll compares, the right payload is shown in the end, and the devices alone when the API stays away | 1 meeting, 2 custom messages (one permanent), 2 changes of the world or failed reads, 4 minutes, stale after 2 |
| `CalendarSync` | shared refresh, the stored refresh token stays valid, pruning is safe, the table converges | 2 events on 2 pages, 2 syncs, 1 query, 3 kinds of provider, 2 events of the environment |
| `Pairing` | linked agents are accepted, attempts end, codes implement `Ticket` | 2 agents, 2 users, 2 approvals, 2 faults |
| `Connect` | states implement `Ticket`, the limit of accounts | 1 user, Slack and Zoom, 2 identities at each, limit 1, 3 authorisations, 1 fault |
| `Accounts` | sessions and a change of password, healing of a sign-in without a token | 2 browsers of one person, 2 users one after the other, 3 sessions, 2 passwords, 1 fault |
| `Portal` | the calendar shows its days, no transition is lost, no code is approved again behind the user's back | 1 account of any of 6 providers, 3 events, weeks of 3 days, months of 4, 2 requests |

The three violations are disagreements between the code and what its own comments
say of it; `PROJECT.json` ("findings") quotes both.

Other behaviour that a reader of the code may not expect, which the models show but no
run is about: an automatic BUSY after a custom message ends it (`MessagePersists`), and
`advance()` may write "delivered" over a cancel that came between its query and its
update (the exception in `CancelledForGood`); two POSTs whose queries interleave leave two
current messages (the proviso of `NewestReplaces`); the earliest meeting that has started hides a
later one that is about to (`LiveStatus`); the display does not advertise again
while `loop()` sleeps until auto-FREE (`CoreInk`); the last day of a week lacks its
events (`CutOff`), events of Zoom, Webex and Teams have no button on the calendar page and are
never shown, and a failed request shows an empty calendar (`CalendarPage`); an answer with
the display's old address may arrive after a new one was saved (`DevicePage`); a page opened
with `?pair=CODE` may approve that code by itself a second time, if the first approval
failed, the side bar took the code away, the user typed in the form that appears, and went
Back (`DevicePage`); a write of spaces, which the API lets through although the web page
does not, blanks the panel (`CoreInk`); a token
that was revoked is not replaced, only a missing one is (`Accounts`).

**Bounds.** They bound only what the environment does (new states, messages,
faults, attempts); retries, keepalives, heartbeats and polls go on for ever.

- `BleLink`: a stale write needs two payloads that differ from the initial one, and
  a race needs a fault of each task; `MaxQueue` only suppresses a push that would
  repeat the last one queued. `ResetAfter = 2` makes the streak cross its threshold.
- `CoreInk`: two writes let one message overtake another, with the empty message before
  or after the other; two faults allow a lost
  link followed by a reset, or two failures of advertising in a row. The time limits
  are 1, 1, 2 and 3 ticks: the orders between them that the code has (auto-FREE
  longer than the watchdog, the watchdog longer than the poll) are kept. The proofs
  hold for every value.
- `MessageBoard`: two messages that differ in kind, so that one supersedes the other
  while its timers run, and two tabs that create concurrently; two faults, so that a
  failed insertion can meet a restart.
- `Orchestrator`: two changes let a device and a message, or two of a kind, change while
  a poll, a report and a snapshot are in flight; one meeting passes through all its
  phases within `MaxTime`; the answer gets stale within it too.
- `CalendarSync`: two syncs and a query are the fewest activities with a refresh that is
  shared and one that is not; two pages are the fewest with one that fails after
  another; two events of the environment allow an expiry followed by a lost answer,
  a restart or a reconnection, or a change of the calendar under a failing sync.
- `Pairing`: two agents and two approvals for one or two users are enough for one
  token to displace, or be confused with, another; one code each is enough, since
  codes never meet.
- `Connect`: three authorisations let two callbacks of one provider race while a third
  state expires, and two providers with and without a profile have the two shapes of a
  callback (the proofs hold for all six); with a limit of one, two callbacks pass it.
- `Accounts`: two browsers are the fewest for a login that races with a change of
  password; two users let an account be deleted and registered anew with the cookie of
  the old one still there; three sessions are one for each browser and one to be
  left over. `MaxUsers` and `MaxSessions` bound what is ever created, so that `Heals`
  has to except an instance that has run out.
- `Portal`: one account, since the page's accounts meet only in `SlackBusy` and in the
  limit; days 0 to 5 are two weeks of three days, of which the second crosses the end of
  a month; two requests are one in flight and one that is ignored. Two of the three
  events are on the last day of a week, one before and one after the range's end.
  The proofs hold for all values.

**Deadlock** is checked in every run but `Pairing`, where all pairings come to an
end, `CalendarSync`, where an account that stays disconnected leaves nothing to
do, and `Connect`, where the authorisations of the instance may all be over.

**Fairness.** Only what the code's scheduling gives:

- `BleLink`: the event loop runs every task that can run and its timers expire (weak
  fairness of each task's steps, of the keepalive and heartbeat timers). Nothing
  about the radio: `Converges` has as hypothesis that connection attempts cease to
  fail and that the loop has not ended (`BleLinkDead` shows how it can).
- `CoreInk`: both FreeRTOS tasks run and time passes. Nothing about the agent.
- `MessageBoard`: timers fire, and the agent keeps polling. Users and tabs need not
  do anything.
- `Orchestrator`: the agent's tasks run, its timers expire, minutes pass, and the API
  computes what it is asked. Reports may all be lost. `Converges` has as hypothesis
  that polls cease to fail, `FallsBack` that none succeeds any more.
- `CalendarSync`: a step of an activity is a query or a request, which ends because
  `providerFetch` gives it ten seconds; the timer of `syncAllCalendars` fires for
  ever. (Google's library does not go through `providerFetch`.)
- `Pairing`: the agent's own steps, the API's steps after its awaits, time and the
  sweep. Neither approval nor a successful poll is fair: `PairingEnds` holds with
  the network down.
- `Connect`: time, the sweep (`setInterval`), and the requests to providers, which
  `providerFetch` ends after ten seconds.
- `Accounts`: a request comes to its end, and the session of a browser is read again
  (`providers.tsx` refetches it), which runs the `jwt` callback. Faults are bounded, so
  in the end a request for a token succeeds.
- `Portal`: none; its properties are invariants.

## 4. Proofs

Proved for all values of the constants, under the `ASSUME`s of each module (the
constants are naturals, sentinels differ from values, FREE is a message).

**BleLinkProofs.** The invariant is `IInv`: type correctness and

- `LockInv`: each lock's owner is exactly where the code is inside the lock or has
  just been granted it, and a free lock has no waiters. `LockDiscipline` alone is not
  inductive: it does not say where the owner of a lock may be.
- `QueueInv`: while the send task is not idle its queue is not empty.
- `ClientInv`: while a task announces the connection it has just made nobody else has
  reset `_client`.
- `ArgInv`: `StaleByAtMostOne`, strengthened with what `_last_payload` is while the
  loop waits to write.
- `WakeInv`: `PromptReconnect`, for a loop that sleeps or is in the write after which it
  goes to sleep: with `_client` gone, the wake-up is set.

`TypeOK` is a conjunction of the places of the tasks, what the locks and the link hold,
and what is written; a step of the proof needs one of them.

From it follow `TypeCorrect`, `LocksDisciplined`, `BoundedStaleness`, `Reconnects`, and

- `ImplementsRegister`: every step is one of `DisplayRegister` or leaves its variables
  alone (`LoopImplements`, `SendImplements`, `LinkImplements`, one for each kind of step).
  What a keepalive or resync may repeat is `ArgInv`, which is why `StaleByAtMostOne` is
  needed here; that a write finds its payload at the head of the queue is `QueueInv`.
- `QueuesCurrentLast`: the last payload queued is that of the current state. Hence the
  bound `MaxQueue` hides nothing: a push that it leaves out would have queued what is
  last already.

**CoreInkProofs.** `IInv` is `TypeOK`, `PendingShown`, `ResetKeepsScreen` and

- `DrawInv`: what `setup()` and `loop()` have in hand at each of their places while a
  message is drawn and saved, and that a redraw is due, or FREE pending, only after
  something has arrived;
- `SleepInv`: `NoOversleep`, and at the place where the sleep is chosen: with a message
  due to be drawn a notification is there or on its way;
- `AwayInv`: without `gConnected` the link is down, and so it is while the callback of a
  disconnection runs; while it is down `gDisconnectedMs` is no older than the absence.
  The order of writes in `onDisconnect` is used here and nowhere else.

From it follow `TypeCorrect`, `NoMessageLost`, `NoWakeUpLost`, `SurvivesReset`, and the
action property `AutoFreeOnTime`; and `ImplementsMailbox`, from `DrawInv` alone: what is
drawn is what was taken, what is saved is what the panel shows, and what the four-hourly
refresh draws is there already.

**OrchestratorProofs.** `IInv` is `TypeOK`, `HardwareWins`, `ShownAgrees` and `CachedInv`:
the flags the poll compares are those of the cached answer. `ShownAgrees` needs it,
because `HandleSnapshot` and `Repush` push from the cache what `PollAnswered` compares
with the flags. The argument is in two lemmas: `AnswerShape` (what the precedence of
`LiveStatus` can answer) and `CombinedShown` (what `_push_combined_state` makes of it).
From it follow `TypeCorrect`, `DevicesFirst`, `ShownWithFlags`.

Two theorems are about the functions of `LiveStatus` and need no invariant.
`CalendarSays` characterises what `findFirst` in the order of `startAt` makes of any set
of meetings, overlapping or not: JOINING means that a meeting is on and that all those
that are on began less than `Grace` minutes ago, UPCOMING that none is on and one is about
to begin. So a long meeting in the calendar, attended or not, hides every other that
begins meanwhile. That there is a first is the well-foundedness of the naturals
(`LeastExists`). `DoorSays` is the table of precedence that the API's `Answer` and the
agent's `_push_combined_state` make together.

**MessageBoardProofs.** `IInv` is `TypeOK`, `CancelledForGood` and

- `PlacesLeft`: the messages and the POSTs in flight stay within the bound (a cardinality
  argument; without it an insertion might leave the type);
- `NoneBehind`: a run of `advance()` that has read its message does not write one that
  was settled before: who settles a message marks the runs that had read it.

From it follow `TypeCorrect` and `StaysCancelled`. `AnswersAreCurrent` says how far the
two queries of `getLatestPending()` can be trusted: each answer is the current message,
unless a permanent one has come between them. It is the safety half of `AgentCatchesUp`.
`NewestReplaces` says when "only one custom message is active at a time"
(`messages.service.ts:17`) is true: a POST makes its message the only current one, provided
that (`Alone`) no other POST inserts, and no timer writes over a cancellation, between its two
queries. Its invariant, `Cleared`, holds under that proviso only, and so the proviso is in the
theorem, as an action that every step of the behaviour satisfies.

**PairingProofs.** `IInv` is `TypeOK` and

- `Accepting`: a token on its way to an agent (in `pending`, or in a call of `approve`
  past its save) is already accepted by the API, or its user has approved another code;
- `OnePlace`: a token is in one place at a time: a call, a code, or handed out;
- `Bounded`: what was handed out was generated, what is known was registered.

From it follow `TypeCorrect`, `LinkedAccepted` and `ImplementsTicket`: every step of `Pairing` is
a step of `Ticket` or leaves its variables alone (`IssueStep`, `RedeemStep`, `LapseStep`, one for each
kind of step), so that `Pairing` implements the safety part of `Ticket`.

**ConnectProofs.** `IInv` is `TypeOK`, `WithinLimit` and

- `RoomLeft`: a callback that has counted and is not late still finds fewer accounts than
  the limit, which is what makes its upsert harmless;
- `Once`: a state is in the map or consumed, not both.

From it follow `TypeCorrect`, `LimitKept` and `ImplementsTicket`.

**WebProofs**, for `Portal`. Four invariants, each of a page: `AwayInv` (no page is mounted while the
browser is away), `DeviceInv` (while the status of the device page is
"idle", nothing has been asked for that the user has not seen fail), `HookInv` (a message waits only behind another) and `CalendarInv`
(the events held were read for the range of what is displayed, and so will be every
answer that is not ignored; nothing is asked for without a token). `RangeFits`
is the arithmetic of ranges: of the days displayed, a range leaves out exactly `CutOff`.
From them follow `NeverApprovesAgain`, `KeepsTheNewest`, `ShowsItsDays`.

**WebProofs**, for `Accounts`. `AccountsInv` is `TypeOK`, `Revoked` and `Named`: whoever signs
in, and every cookie of a sign-in at a provider, has an email. `Named` is what keeps the
type of the table of users, which is a function of emails. The argument for `Revoked` is
that ids are given once, so that `EmailOf` finds the user of a session (`OwnerFound`,
`OwnerKnown`), and that his password is that of the row until a change of it
(`OwnerKept`). A change marks itself by being between its two writes (`Changing`), and
what its second write leaves is what `kept` and `spared` name; a session inserted in the
meantime was verified before (`RowsGo`, `ChangingKept`). From it follow
`AccountsTyped` and `OthersRevoked`.

**CalendarSyncProofs.** `IInv` is `TypeOK`, `RefreshShared` and

- `TokenInv`: tokens are numbered as they are issued (`Numbered`); a rotated token on its
  way to the database is valid, and in nobody else's hands (`Arriving`); who is about to use
  up the stored token does so for the account that is connected now (`Owned`: else a
  reconnection could leave the row with a token that an activity of the old account spends); a
  token that is not rotated is valid for ever (`Lasting`); and `TokensAlive`;
- `PageInv`: what the calendar has held since a sync began is on a page still to come, or in
  hand; once the sync writes, in hand.

From it follow `TypeCorrect`, `SharesOneRefresh`, `StoredTokenValid` and the action property
`PrunesSafely`. `CompleteSyncMirrors` is the safety half of `Converges`: as long as no step
disturbs a sync (`Undisturbed`: the calendar keeps still, the account stays connected, nobody
else writes to the table, and no failing page of Webex ends its list), each time it is
completed the table equals the calendar, unless that is empty. The invariant is `Mirror`:
what the sync has in hand are the events of the pages it has read, and what it has written is
in the table. Other activities may refresh, share and lose tokens meanwhile.

In each module there is one lemma per action (or group of actions that change little),
with one step per conjunct of the invariant that the action can disturb.

All safety invariants and safety action properties that the runs check are proved. Only
model-checked: liveness, which the prover does not handle. That is `SendsReturn`, the
`Settles` of the two displays (in `DisplayIsRegister`, `PanelIsMailbox`), `AutoFreed`,
`Reachable`, `Delivers`, `AgentCatchesUp`, `PairingEnds`, `Converges`, `FallsBack`, `Heals`,
and that every ticket leaves the memory (`Leaves`, the liveness part of `Ticket`). For a
refinement with a liveness part, the proof covers the safety part. The three violations
are counterexamples, found by TLC.

## 5. Plan

Done: the modules of section 2, with the proofs of section 4. Next, in this order:

1. Proofs: the link and the firmware at the level of `DisplayRegister` and `Mailbox`, of
   which the former's `shown` is what arrives at the latter; the safety half of
   `Orchestrator`'s `Converges`, with a proviso as in `CompleteSyncMirrors`: a poll that no
   change of the world comes between leaves the right payload on the door.
2. `BleLink` completed (`stop_persistent_connection`, `read_battery`).
3. Agent and firmware composed, with writes over 64 bytes, which the firmware drops
   and the agent counts as shown; Core2 as a variant.
4. `Portal` composed with `MessageBoard`: the posts of a page that was left, several tabs.
5. Google's library and Slack's import of messages in `CalendarSync`, and the precedence of
   several accounts in `LiveStatus`.

## 6. Not modelled

Presentation (layout of the pages, tray, rendering of the panel), the static pages and
the contact form, text encodings, packaging and deployment, the HTTP calls of the
providers, the operating system's detection of camera and microphone, database set-up:
no interleaving of their own, or not in this repository. Apple's calendar service is
called by nothing. Of the web application, messages that a page still sends after it
was left are not modelled: `MessageBoard` lets tabs post at any time. `PROJECT.json` ("components") has a reason for each, and "hazards" lists,
with a note, those that no property covers yet.
