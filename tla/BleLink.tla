------------------------------ MODULE BleLink ------------------------------
(***************************************************************************)
(* The desktop agent's link to the display: BleClient (ble/client.py) and  *)
(* the FIFO of send tasks with which AgentOrchestrator feeds it            *)
(* (detection/service.py).                                                 *)
(*                                                                         *)
(* Two asyncio tasks share the client.  "loop" is _connection_loop: it     *)
(* reconnects, resyncs the display and writes keepalives.  "send" is the   *)
(* send task that holds the orchestrator's _send_lock, running write_now.  *)
(* Control passes from one to the other only at an await, so a step of     *)
(* this module is what a task does from one await to the next, and pc[p]   *)
(* names the await at which task p is suspended.                           *)
(***************************************************************************)
EXTENDS Naturals, Sequences

CONSTANTS
    Payloads,        \* the payloads the orchestrator pushes
    Free,            \* the payload of a user who is not busy
    Empty,           \* b"": no payload was ever written successfully
    NoOne,           \* the owner of a lock that nobody holds
    ResetAfter,      \* _BT_RESET_AFTER_FAILURES
    DisconnectRaises, \* may the BLE library's disconnect() raise?
    MaxPushes,       \* bound: pushes of a new state
    MaxQueue,        \* bound: sends beyond which the current state is not queued again
    MaxFaults        \* bound: link losses and failed or lost GATT writes

ASSUME PayloadsAssumption == Free \in Payloads /\ Empty \notin Payloads
ASSUME NoOneAssumption == NoOne \notin {"loop", "send"}
ASSUME BoundsAssumption ==
    /\ ResetAfter \in Nat \ {0}
    /\ DisconnectRaises \in BOOLEAN
    /\ MaxPushes \in Nat
    /\ MaxQueue \in Nat \ {0}
    /\ MaxFaults \in Nat

VARIABLES
    pc,          \* where each task is suspended
    connOwner,   \* the task that holds _lock
    writeOwner,  \* the task that holds _write_lock
    client,      \* _client: "none", or an object whose link is "up" or "dropped"
    connEvent,   \* _connected_event
    wake,        \* _wake
    lastPayload, \* _last_payload
    prevPayload, \* history: the value _last_payload had before this one
    recent,      \* less than a keepalive interval since _last_write_time
    streak,      \* _not_found_streak
    cooling,     \* the last Bluetooth reset is within its cooldown
    arg,         \* the payload of the loop's GATT write in flight
    attempt,     \* attempt of write_now: 0 or 1
    sendQ,       \* payloads of the send tasks, in the order of _send_lock
    target,      \* the payload of the state last computed
    display,     \* the payload last received by the display
    pushes,      \* pushes so far
    faults       \* faults so far

locks    == <<connOwner, writeOwner>>
health   == <<streak, cooling>>
payloads == <<lastPayload, prevPayload>>
world    == <<target, pushes>>
vars == <<pc, locks, client, connEvent, wake, payloads, recent, health, arg,
          attempt, sendQ, world, display, faults>>

Tasks == {"loop", "send"}

LoopLabels == {"check", "sleep", "nap", "btReset", "dead", "connWait",
               "connecting", "announcing", "resyncWait", "resyncing",
               "keepWait", "keeping", "discWait", "disconnecting"}

SendLabels == {"idle", "evWait", "go", "connWait", "connecting", "announcing",
               "writeWait", "writing", "sent", "failed", "discWait",
               "disconnecting"}

-----------------------------------------------------------------------------
(* asyncio.Lock: the first waiter owns a released lock before any newcomer.  *)

ConnWaiters  == {p \in Tasks : pc[p] \in {"connWait", "discWait"} /\ connOwner # p}
WriteWaiters == {p \in Tasks : /\ pc[p] \in {"resyncWait", "keepWait", "writeWait"}
                               /\ writeOwner # p}

HandOver(waiters) == IF waiters = {} THEN {NoOne} ELSE waiters

\* The send task that waits for _connected_event runs again once it is set.
Released == [pc EXCEPT !["send"] = IF @ = "evWait" THEN "go" ELSE @]

\* connect() up to its first await: take _lock, or queue for it.
EnterConnect(p) ==
    IF connOwner = NoOne
    THEN connOwner' = p /\ pc' = [pc EXCEPT ![p] = "connecting"]
    ELSE UNCHANGED connOwner /\ pc' = [pc EXCEPT ![p] = "connWait"]

\* Mutant: the loop writes without taking _write_lock.
EnterWriteUnlocked(at, p, waiting, writing) ==
    IF writeOwner = NoOne \/ p = "loop"
    THEN /\ writeOwner' = IF p = "loop" THEN writeOwner ELSE p
         /\ pc' = [at EXCEPT ![p] = writing]
         /\ arg' = IF p = "loop" THEN lastPayload ELSE arg
    ELSE /\ pc' = [at EXCEPT ![p] = waiting]
         /\ UNCHANGED <<writeOwner, arg>>

\* A GATT write up to its first await, the other task being at at[q].  The loop
\* reads _last_payload when it has taken the lock.
EnterWrite(at, p, waiting, writing) ==
    IF writeOwner = NoOne
    THEN /\ writeOwner' = p
         /\ pc' = [at EXCEPT ![p] = writing]
         /\ arg' = IF p = "loop" THEN lastPayload ELSE arg
    ELSE /\ pc' = [at EXCEPT ![p] = waiting]
         /\ UNCHANGED <<writeOwner, arg>>

\* The send task ends, and the next one gets _send_lock.
EndSend ==
    /\ pc' = [pc EXCEPT !["send"] = "idle"]
    /\ sendQ' = Tail(sendQ)
    /\ attempt' = 0

-----------------------------------------------------------------------------
(* connect() and what follows it: the resync of the loop, the write of send. *)

AfterConnect(p) ==
    IF p = "loop" /\ lastPayload = Empty
    THEN /\ connEvent' = TRUE /\ pc' = [Released EXCEPT ![p] = "sleep"]
         /\ streak' = 0
         /\ UNCHANGED <<writeOwner, arg>>
    ELSE /\ IF p = "loop" THEN EnterWrite(pc, p, "resyncWait", "resyncing")
                          ELSE EnterWrite(pc, p, "writeWait", "writing")
         /\ UNCHANGED <<connEvent, streak>>

\* Mutant: the comparison with the limit is off by one.
LoopFailedLate ==
    IF streak < ResetAfter
    THEN /\ streak' = streak + 1
         /\ pc' = [pc EXCEPT !["loop"] = "nap"]
         /\ UNCHANGED cooling
    ELSE /\ streak' = 0
         /\ cooling' = TRUE
         /\ pc' = [pc EXCEPT !["loop"] = IF cooling THEN "nap" ELSE "btReset"]

\* The except clause of the loop's reconnect branch.
LoopFailed ==
    IF streak + 1 < ResetAfter
    THEN /\ streak' = streak + 1
         /\ pc' = [pc EXCEPT !["loop"] = "nap"]
         /\ UNCHANGED cooling
    ELSE /\ streak' = 0
         /\ cooling' = TRUE
         /\ pc' = [pc EXCEPT !["loop"] = IF cooling THEN "nap" ELSE "btReset"]

-----------------------------------------------------------------------------
(* disconnect().  ev is the value _connected_event has on entry.             *)

AfterDisconnect(p) ==
    IF p = "loop" THEN /\ pc' = [pc EXCEPT ![p] = "nap"]
                       /\ UNCHANGED <<sendQ, attempt>>
    ELSE IF attempt = 0
         THEN /\ attempt' = 1
              /\ pc' = [pc EXCEPT ![p] = IF connEvent' THEN "go" ELSE "evWait"]
              /\ UNCHANGED sendQ
         ELSE EndSend

\* Mutant: disconnect() does not wake the connection loop.
CloseClientQuietly == client' = "none" /\ connEvent' = FALSE /\ UNCHANGED wake

\* The finally clause.
CloseClient == client' = "none" /\ connEvent' = FALSE /\ wake' = TRUE

\* disconnect() from the moment it holds _lock.
TakeDisconnect(p, ev) ==
    \/ /\ client = "none"
       /\ connEvent' = ev
       /\ connOwner' \in HandOver(ConnWaiters)
       /\ AfterDisconnect(p)
       /\ UNCHANGED <<client, wake>>
    \/ /\ client = "dropped"
       /\ CloseClient
       /\ connOwner' \in HandOver(ConnWaiters)
       /\ AfterDisconnect(p)
    \/ /\ client = "up"
       /\ connEvent' = ev
       /\ connOwner' = p
       /\ pc' = [pc EXCEPT ![p] = "disconnecting"]
       /\ UNCHANGED <<client, wake, sendQ, attempt>>

EnterDisconnect(p, ev) ==
    IF connOwner = NoOne \/ (connOwner = p /\ ConnWaiters = {})
    THEN TakeDisconnect(p, ev)
    ELSE /\ connOwner' \in IF connOwner = p THEN HandOver(ConnWaiters) ELSE {connOwner}
         /\ pc' = [pc EXCEPT ![p] = "discWait"]
         /\ connEvent' = ev
         /\ UNCHANGED <<client, wake, sendQ, attempt>>

-----------------------------------------------------------------------------
Init ==
    /\ pc = [p \in Tasks |-> IF p = "loop" THEN "check" ELSE "idle"]
    /\ connOwner = NoOne /\ writeOwner = NoOne
    /\ client \in {"none", "up"}         \* the eager connect() at startup
    /\ connEvent = FALSE /\ wake = FALSE
    /\ lastPayload = Empty /\ prevPayload = Empty /\ arg = Empty
    /\ recent = FALSE
    /\ streak = 0 /\ cooling = FALSE
    /\ attempt = 0 /\ sendQ = <<>>
    /\ target = Free
    /\ display \in Payloads              \* restored by the firmware
    /\ pushes = 0 /\ faults = 0

\* Top of the loop, the link down.
LoopReconnect ==
    /\ pc["loop"] = "check" /\ client # "up"
    /\ connEvent' = FALSE
    /\ EnterConnect("loop")
    /\ UNCHANGED <<writeOwner, client, wake, payloads, recent, health, arg,
                   attempt, sendQ, world, display, faults>>

\* Top of the loop, the link up and no keepalive due.
LoopIdle ==
    /\ pc["loop"] = "check" /\ client = "up"
    /\ lastPayload = Empty \/ recent
    /\ connEvent' = TRUE
    /\ pc' = [Released EXCEPT !["loop"] = "sleep"]
    /\ UNCHANGED <<locks, client, wake, payloads, recent, health, arg, attempt,
                   sendQ, world, display, faults>>

\* Top of the loop, the link up and a keepalive due.
LoopKeepalive ==
    /\ pc["loop"] = "check" /\ client = "up"
    /\ lastPayload # Empty /\ ~recent
    /\ connEvent' = TRUE
    /\ EnterWrite(Released, "loop", "keepWait", "keeping")
    /\ UNCHANGED <<connOwner, client, wake, payloads, recent, health, attempt,
                   sendQ, world, display, faults>>

\* _sleep_or_wake returns, the timer having expired or _wake being set.
LoopAwake ==
    /\ pc["loop"] \in {"sleep", "nap"}
    /\ pc' = [pc EXCEPT !["loop"] = "check"]
    /\ wake' = FALSE
    /\ UNCHANGED <<locks, client, connEvent, payloads, recent, health, arg,
                   attempt, sendQ, world, display, faults>>

\* connect(): the lock has been granted after a wait.
ConnectGranted(p) ==
    /\ pc[p] = "connWait" /\ connOwner = p
    /\ IF client = "up"
       THEN connOwner' \in HandOver(ConnWaiters) /\ AfterConnect(p)
       ELSE /\ pc' = [pc EXCEPT ![p] = "connecting"]
            /\ UNCHANGED <<locks, connEvent, streak, arg>>
    /\ UNCHANGED <<client, wake, payloads, recent, cooling, attempt, sendQ,
                   world, display, faults>>

\* The link is established.  While connect() emits BLE_CONNECTED, the
\* orchestrator's handler pushes the current state (the last element of sendQ,
\* if there is one, is a push of it already: at MaxQueue it is not repeated).
ConnectOk(p) ==
    /\ pc[p] = "connecting"
    /\ client' = "up"
    /\ sendQ' = IF Len(sendQ) < MaxQueue THEN Append(sendQ, target) ELSE sendQ
    /\ pc' = [pc EXCEPT ![p] = "announcing"]
    /\ UNCHANGED <<locks, connEvent, wake, payloads, recent, health, arg,
                   attempt, world, display, faults>>

\* connect() returns.
Connected(p) ==
    /\ pc[p] = "announcing"
    /\ connOwner' \in HandOver(ConnWaiters)
    /\ AfterConnect(p)
    /\ UNCHANGED <<client, wake, payloads, recent, cooling, attempt, sendQ,
                   world, display, faults>>

\* The display is not found, or the connection attempt fails.
LoopConnectFails ==
    /\ pc["loop"] = "connecting"
    /\ connOwner' \in HandOver(ConnWaiters)
    /\ LoopFailed
    /\ UNCHANGED <<writeOwner, client, connEvent, wake, payloads, recent, arg,
                   attempt, sendQ, world, display, faults>>

SendConnectFails ==
    /\ pc["send"] = "connecting"
    /\ EnterDisconnect("send", FALSE)
    /\ UNCHANGED <<writeOwner, payloads, recent, health, arg, world, display,
                   faults>>

-----------------------------------------------------------------------------
(* GATT writes.  A failed write may have reached the display; it consumes a  *)
(* fault unless the link is already gone.                                    *)

Fault ==
    /\ client = "up" => faults < MaxFaults
    /\ faults' = IF client = "up" THEN faults + 1 ELSE faults

\* A GATT write that waited for _write_lock begins, on the client of that time.
WriteGranted(p, waiting, writing) ==
    /\ pc[p] = waiting /\ writeOwner = p
    /\ client # "none"
    /\ pc' = [pc EXCEPT ![p] = writing]
    /\ arg' = IF p = "loop" THEN lastPayload ELSE arg
    /\ UNCHANGED <<locks, client, connEvent, wake, payloads, recent, health,
                   attempt, sendQ, world, display, faults>>

\* _client is None by the time the lock is granted (AttributeError), or the
\* write raises.  shown is what the display may show then.
WriteRaises(p, waiting, writing) ==
    /\ writeOwner = p
    /\ \/ pc[p] = waiting /\ client = "none" /\ UNCHANGED <<display, faults>>
       \/ /\ pc[p] = writing
          /\ Fault
          /\ display' \in {display, IF p = "loop" THEN arg ELSE Head(sendQ)}
    /\ writeOwner' \in HandOver(WriteWaiters)
    /\ arg' = IF p = "loop" THEN Empty ELSE arg

ResyncDone ==
    /\ pc["loop"] = "resyncing"
    /\ display' = arg /\ arg' = Empty
    /\ writeOwner' \in HandOver(WriteWaiters)
    /\ recent' = TRUE
    /\ connEvent' = TRUE
    /\ pc' = [Released EXCEPT !["loop"] = "sleep"]
    /\ streak' = 0
    /\ UNCHANGED <<connOwner, client, wake, payloads, cooling, attempt, sendQ,
                   world, faults>>

ResyncFails ==
    /\ WriteRaises("loop", "resyncWait", "resyncing")
    /\ LoopFailed
    /\ UNCHANGED <<connOwner, client, connEvent, wake, payloads, recent,
                   attempt, sendQ, world>>

\* A keepalive is written without response, so it may be lost unnoticed.
KeepaliveDone ==
    /\ pc["loop"] = "keeping"
    /\ \/ display' = arg /\ UNCHANGED faults
       \/ Fault /\ UNCHANGED display
    /\ arg' = Empty
    /\ writeOwner' \in HandOver(WriteWaiters)
    /\ recent' = TRUE
    /\ pc' = [pc EXCEPT !["loop"] = "sleep"]
    /\ UNCHANGED <<connOwner, client, connEvent, wake, payloads, health,
                   attempt, sendQ, world>>

\* Mutant: disconnect() is called inside the `async with` of _write_lock.
KeepaliveFailsInside ==
    /\ pc["loop"] = "keeping"
    /\ Fault
    /\ arg' = Empty
    /\ EnterDisconnect("loop", connEvent)
    /\ UNCHANGED <<payloads, recent, health, world, writeOwner, display>>

KeepaliveFails ==
    /\ WriteRaises("loop", "keepWait", "keeping")
    /\ EnterDisconnect("loop", connEvent)
    /\ UNCHANGED <<payloads, recent, health, world>>

\* The write of send_payload succeeds; _last_payload is not yet updated while
\* BLE_PAYLOAD_SENT is emitted.
SendWritten ==
    /\ pc["send"] = "writing"
    /\ display' = Head(sendQ)
    /\ writeOwner' \in HandOver(WriteWaiters)
    /\ recent' = TRUE
    /\ pc' = [pc EXCEPT !["send"] = "sent"]
    /\ UNCHANGED <<connOwner, client, connEvent, wake, payloads, health, arg,
                   attempt, sendQ, world, faults>>

\* send_payload emits BLE_ERROR before the exception reaches write_now.
SendRaises ==
    /\ WriteRaises("send", "writeWait", "writing")
    /\ pc' = [pc EXCEPT !["send"] = "failed"]
    /\ UNCHANGED <<connOwner, client, connEvent, wake, payloads, recent, health,
                   attempt, sendQ, world>>

-----------------------------------------------------------------------------
(* write_now                                                                 *)

SendStart ==
    /\ pc["send"] = "idle" /\ sendQ # <<>>
    /\ pc' = [pc EXCEPT !["send"] = IF connEvent THEN "go" ELSE "evWait"]
    /\ UNCHANGED <<locks, client, connEvent, wake, payloads, recent, health,
                   arg, attempt, sendQ, world, display, faults>>

\* Mutant: the wait for a connection has no timeout.
SendTimeoutNever == FALSE /\ UNCHANGED vars

\* No connection within _WRITE_WAIT_S.
SendTimeout ==
    /\ pc["send"] = "evWait"
    /\ EndSend
    /\ UNCHANGED <<locks, client, connEvent, wake, payloads, recent, health,
                   arg, world, display, faults>>

\* send_payload, from ensure_connected on.
SendAttempt ==
    /\ pc["send"] = "go"
    /\ \/ /\ client = "up"
          /\ EnterWrite(pc, "send", "writeWait", "writing")
          /\ UNCHANGED connOwner
       \/ /\ client # "up"
          /\ EnterConnect("send")
          /\ UNCHANGED <<writeOwner, arg>>
    /\ UNCHANGED <<client, connEvent, wake, payloads, recent, health, attempt,
                   sendQ, world, display, faults>>

\* write_now records the payload as the last one.
SendConfirm ==
    /\ pc["send"] = "sent"
    /\ lastPayload' = Head(sendQ) /\ prevPayload' = lastPayload
    /\ EndSend
    /\ UNCHANGED <<locks, client, connEvent, wake, recent, health, arg, world,
                   display, faults>>

\* The except clause of write_now.
SendFailed ==
    /\ pc["send"] = "failed"
    /\ EnterDisconnect("send", FALSE)
    /\ UNCHANGED <<writeOwner, payloads, recent, health, arg, world, display,
                   faults>>

-----------------------------------------------------------------------------
(* disconnect(), resumed                                                     *)

DisconnectGranted(p) ==
    /\ pc[p] = "discWait" /\ connOwner = p
    /\ TakeDisconnect(p, connEvent)
    /\ UNCHANGED <<writeOwner, payloads, recent, health, arg, world, display,
                   faults>>

Disconnected(p) ==
    /\ pc[p] = "disconnecting"
    /\ CloseClient
    /\ connOwner' \in HandOver(ConnWaiters)
    /\ AfterDisconnect(p)
    /\ UNCHANGED <<writeOwner, payloads, recent, health, arg, world, display,
                   faults>>

\* The exception leaves the except clause it was called from: it ends
\* _connection_loop, or the send task.
DisconnectFails(p) ==
    /\ DisconnectRaises
    /\ pc[p] = "disconnecting"
    /\ CloseClient
    /\ connOwner' \in HandOver(ConnWaiters)
    /\ IF p = "loop" THEN /\ pc' = [pc EXCEPT ![p] = "dead"]
                          /\ UNCHANGED <<sendQ, attempt>>
                     ELSE EndSend
    /\ UNCHANGED <<writeOwner, payloads, recent, health, arg, world, display,
                   faults>>

-----------------------------------------------------------------------------
(* The environment, and the orchestrator that feeds the send tasks.          *)

LinkDrop ==
    /\ client = "up" /\ faults < MaxFaults
    /\ client' = "dropped" /\ faults' = faults + 1
    /\ UNCHANGED <<pc, locks, connEvent, wake, payloads, recent, health, arg,
                   attempt, sendQ, world, display>>

\* A keepalive interval has passed since the last write (the handlers of
\* BLE_PAYLOAD_SENT, which follow a write, take far less).
KeepaliveDue ==
    /\ recent /\ recent' = FALSE
    /\ pc["send"] # "sent"
    /\ UNCHANGED <<pc, locks, client, connEvent, wake, payloads, health, arg,
                   attempt, sendQ, world, display, faults>>

\* _BT_RESET_COOLDOWN_S has passed since the last Bluetooth reset.
CooldownOver ==
    /\ cooling /\ cooling' = FALSE
    /\ UNCHANGED <<pc, locks, client, connEvent, wake, payloads, recent, streak,
                   arg, attempt, sendQ, world, display, faults>>

\* _reset_bluetooth returns.  It cuts every link when blueutil is installed.
BtResetDone ==
    /\ pc["loop"] = "btReset"
    /\ pc' = [pc EXCEPT !["loop"] = "nap"]
    /\ client' \in {client, IF client = "up" THEN "dropped" ELSE client}
    /\ UNCHANGED <<locks, connEvent, wake, payloads, recent, health, arg,
                   attempt, sendQ, world, display, faults>>

\* _push_combined_state for a state that is no longer the one last pushed.
Push(p) ==
    /\ pushes < MaxPushes
    /\ pushes' = pushes + 1
    /\ target' = p
    /\ sendQ' = Append(sendQ, p)
    /\ UNCHANGED <<pc, locks, client, connEvent, wake, payloads, recent, health,
                   arg, attempt, display, faults>>

\* Mutant: the heartbeat calls resend_last instead of _push_combined_state.
HeartbeatResendsLast ==
    /\ sendQ = <<>> /\ lastPayload # Empty
    /\ sendQ' = Append(sendQ, lastPayload)
    /\ UNCHANGED <<pc, locks, client, connEvent, wake, payloads, recent, health,
                   arg, attempt, world, display, faults>>

\* _heartbeat_loop pushes the current state again unless a send is pending.
Heartbeat ==
    /\ sendQ = <<>>
    /\ sendQ' = Append(sendQ, target)
    /\ UNCHANGED <<pc, locks, client, connEvent, wake, payloads, recent, health,
                   arg, attempt, world, display, faults>>

-----------------------------------------------------------------------------
LoopStep ==
    \/ LoopReconnect \/ LoopIdle \/ LoopKeepalive \/ LoopAwake
    \/ WriteGranted("loop", "resyncWait", "resyncing")
    \/ WriteGranted("loop", "keepWait", "keeping")
    \/ ResyncDone \/ ResyncFails \/ KeepaliveDone \/ KeepaliveFails
    \/ LoopConnectFails \/ BtResetDone

SendStep ==
    \/ SendStart \/ SendAttempt \/ SendWritten \/ SendRaises \/ SendConfirm
    \/ WriteGranted("send", "writeWait", "writing")
    \/ SendFailed \/ SendConnectFails \/ SendTimeout

LinkStep(p) ==
    \/ ConnectGranted(p) \/ ConnectOk(p) \/ Connected(p)
    \/ DisconnectGranted(p) \/ Disconnected(p) \/ DisconnectFails(p)

Next ==
    \/ LoopStep
    \/ SendStep
    \/ \E p \in Tasks : LinkStep(p)
    \/ LinkDrop \/ KeepaliveDue \/ CooldownOver \/ Heartbeat
    \/ \E p \in Payloads : Push(p)

Spec == Init /\ [][Next]_vars

\* The event loop runs every task that can run, and timers expire.
Fairness ==
    /\ WF_vars(LoopStep \/ LinkStep("loop"))
    /\ WF_vars(SendStep \/ LinkStep("send"))
    /\ WF_vars(KeepaliveDue)
    /\ WF_vars(Heartbeat)

FairSpec == Spec /\ Fairness

-----------------------------------------------------------------------------
(* Properties                                                                *)

\* Where the tasks can be.
PcTypeOK ==
    /\ pc \in [Tasks -> LoopLabels \cup SendLabels]
    /\ pc["loop"] \in LoopLabels /\ pc["send"] \in SendLabels

\* What the locks, the link and the timers hold.
LinkTypeOK ==
    /\ connOwner \in Tasks \cup {NoOne} /\ writeOwner \in Tasks \cup {NoOne}
    /\ client \in {"none", "up", "dropped"}
    /\ connEvent \in BOOLEAN /\ wake \in BOOLEAN
    /\ recent \in BOOLEAN /\ cooling \in BOOLEAN
    /\ streak \in 0 .. ResetAfter - 1

\* What is written, and what is queued to be written.
PayloadTypeOK ==
    /\ lastPayload \in Payloads \cup {Empty}
    /\ prevPayload \in Payloads \cup {Empty}
    /\ arg \in Payloads \cup {Empty}
    /\ attempt \in {0, 1}
    /\ sendQ \in Seq(Payloads)
    /\ target \in Payloads /\ display \in Payloads
    /\ pushes \in 0 .. MaxPushes /\ faults \in 0 .. MaxFaults

DataTypeOK == LinkTypeOK /\ PayloadTypeOK

\* Every variable has its type: each task is at an await of its own, the streak
\* of failures stays below the threshold that resets Bluetooth, and no task puts
\* on the display what is not a payload.
TypeOK == PcTypeOK /\ DataTypeOK

\* The tasks that are inside the critical section of each lock.
InConn(p)  == pc[p] \in {"connecting", "announcing", "disconnecting"}
InWrite(p) == pc[p] \in {"resyncing", "keeping", "writing"}

\* Whoever is inside a critical section holds its lock, nobody waits for a lock
\* that is free, and _write_lock is never held by a task that takes or awaits
\* _lock: the two locks of BleClient cannot deadlock, and no waiter is forgotten
\* by any of the exits (success, exception, early return) from `async with`.
LockDiscipline ==
    /\ \A p \in Tasks : InConn(p) => connOwner = p
    /\ \A p \in Tasks : InWrite(p) => writeOwner = p
    /\ connOwner = NoOne => ConnWaiters = {}
    /\ writeOwner = NoOne => WriteWaiters = {}
    /\ \A p \in Tasks : ~(connOwner = p /\ writeOwner = p)

\* The payload the agent last wrote with success: write_now records it only
\* after the BLE_PAYLOAD_SENT event.
Newest == IF pc["send"] = "sent" THEN Head(sendQ) ELSE lastPayload

LoopWriting == pc["loop"] \in {"resyncing", "keeping"}

\* A keepalive or resync in flight carries a payload that was written before,
\* and at most one newer payload has been written since: the loop never sends an
\* empty message and never goes back further than one state.
StaleByAtMostOne ==
    LoopWriting => /\ arg # Empty
                   /\ arg \in {Newest, lastPayload, prevPayload}
                   /\ pc["send"] = "sent" => arg = lastPayload

\* What __init__ says of _write_lock: "the keepalive can't interleave a stale
\* payload after a fresh one".
NewestInFlight == LoopWriting => arg = Newest

\* A link torn down by disconnect() while the loop sleeps until the next
\* keepalive leaves _wake set, so the loop reconnects at once.
PromptReconnect == pc["loop"] = "sleep" /\ client = "none" => wake

\* start_persistent_connection keeps the connection alive: the loop never ends.
LoopAlive == pc["loop"] # "dead"

\* Every write_now returns, whatever the link does.
SendsReturn == []<>(pc["send"] = "idle")

ConnectFails == LoopConnectFails \/ SendConnectFails

\* The link is a register with the display as its value.  Between SendWritten and
\* SendConfirm the payload at the head of sendQ has been written already.
Written == pc["send"] = "sent"

Register == INSTANCE DisplayRegister WITH
    Values <- Payloads, Unset <- Empty,
    wanted <- target,
    queue  <- IF Written THEN Tail(sendQ) ELSE sendQ,
    newest <- Newest,
    older  <- IF Written THEN lastPayload ELSE prevPayload,
    shown  <- display

\* Once the display stays within reach (connection attempts no longer fail) and pushes
\* and faults have ceased, the display shows the current state for good, provided the
\* loop has not ended: neither a failed write, nor a stale or lost keepalive, nor a
\* disconnect() that raises in the send task or closes the link the other task has just
\* opened is final.
Converges == <>[][~ConnectFails]_vars /\ []LoopAlive => Register!Settles

\* The display shows what the agent queued, in that order: reconnections, failed writes,
\* keepalives and resyncs add nothing but a repetition of the payload last confirmed or
\* of the one before it, each queued payload was the state of its time, and in the end
\* the display settles on the current one.
DisplayIsRegister == Register!Spec /\ Converges
=============================================================================
