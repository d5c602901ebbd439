---------------------------- MODULE Orchestrator ----------------------------
(***************************************************************************)
(* How the agent decides what the display shows (AgentOrchestrator in      *)
(* detection/service.py): it combines what the computer's camera and       *)
(* microphone say with what the API answers, and reports the former to the *)
(* API, whose answers depend on it.                                        *)
(*                                                                         *)
(* The loops of the agent are asyncio tasks; a step is what one of them    *)
(* does from one await to the next, or one query of the API.  sent is the  *)
(* payload of the newest send task: BleLink models how it gets to the      *)
(* display.                                                                *)
(***************************************************************************)
EXTENDS LiveStatus

CONSTANTS
    Meetings,       \* what may be in the user's calendar
    Nothing,        \* no answer, or not read yet
    Staleness,      \* _API_STALENESS_S, in minutes
    MaxTime,        \* bound: minutes
    MaxChanges      \* bound: changes of the world, and lost presence requests

ASSUME MeetingsAssumption == \A e \in Meetings : e.start \in Nat /\ e.end \in Nat
ASSUME NothingAssumption  ==
    /\ Nothing \notin Statuses \cup Custom \cup {NoMessage}
    /\ Nothing \notin Answers /\ Nothing \notin BOOLEAN
ASSUME BoundsAssumption   ==
    Staleness \in Nat /\ MaxTime \in Nat /\ MaxChanges \in Nat

VARIABLES
    \* the world, and what the API knows of it
    now,        \* minutes since the start
    hw,         \* is the camera or the microphone in use?
    call,       \* does an app report a call?
    events,     \* the calendar in the database
    message,    \* the current custom message
    mic,        \* micActive, while it is fresh
    \* the agent
    snapshot,   \* the detector's snapshot in hand
    machine,    \* the status of PresenceStateMachine
    lastHw,     \* _last_hw_busy
    posting,    \* POST /agent/presence in flight
    asked,      \* GET live-status in flight: what the API has read for it
    flags,      \* _last_api_busy, _last_api_upcoming, _last_custom_message_id
    cached,     \* _last_api_data
    missed,     \* has a poll failed since the last that succeeded?
    age,        \* minutes since _last_api_success_at
    sent,       \* the payload of the newest send task
    changes     \* so far

world == <<hw, call, events, message, changes>>
agent == <<snapshot, machine, lastHw>>
polls == <<asked, flags, cached, missed>>
vars  == <<now, world, mic, agent, posting, polls, age, sent>>

NotAsked == [status |-> Nothing, message |-> Nothing]
NoFlags  == [busy |-> FALSE, upcoming |-> FALSE, custom |-> NoMessage]

-----------------------------------------------------------------------------
Init ==
    /\ now = 0
    /\ hw \in BOOLEAN /\ call = FALSE /\ message = NoMessage
    /\ events \in SUBSET Meetings
    /\ mic = FALSE
    /\ snapshot = Nothing /\ machine = FALSE /\ lastHw = FALSE
    /\ posting = Nothing
    /\ asked = NotAsked /\ flags = NoFlags /\ cached = Nothing
    /\ missed = FALSE /\ age = 0
    /\ sent = "FREE"
    /\ changes = 0

\* The payload chosen by _push_combined_state.
Combined(busy, api) ==
    IF busy THEN "BUSY"
    ELSE IF api # Nothing /\ (api.custom # NoMessage \/ api.busy \/ api.upcoming)
         THEN api.payload
         ELSE "FREE"

\* Mutant: the age of the cached answer is not looked at.
CachedForever == cached

\* The cached answer, unless it is too old.
Usable == IF age < Staleness THEN cached ELSE Nothing

-----------------------------------------------------------------------------
(* Hardware detection                                                        *)

\* The detector looks at the devices, in a thread of its own.
Detect ==
    /\ snapshot = Nothing
    /\ snapshot' = hw
    /\ UNCHANGED <<now, world, mic, machine, lastHw, posting, polls, age, sent>>

\* apply_snapshot(): nothing has changed.
SnapshotSame ==
    /\ snapshot # Nothing /\ machine = lastHw /\ snapshot = machine
    /\ snapshot' = Nothing
    /\ UNCHANGED <<now, world, mic, machine, lastHw, posting, polls, age, sent>>

\* apply_snapshot(): a transition; OCCUPANCY_CHANGED is emitted.
SnapshotChanges ==
    /\ snapshot # Nothing /\ machine = lastHw /\ snapshot # machine
    /\ machine' = snapshot
    /\ UNCHANGED <<now, world, mic, snapshot, lastHw, posting, polls, age, sent>>

\* Once the event is handled, the new state is recorded and pushed.
HandleSnapshot ==
    /\ snapshot # Nothing /\ machine # lastHw
    /\ lastHw' = machine
    /\ sent' = Combined(machine, Usable)
    /\ snapshot' = Nothing
    /\ UNCHANGED <<now, world, mic, machine, posting, polls, age>>

-----------------------------------------------------------------------------
(* Reports to the API: _mic_heartbeat_loop and POST /agent/presence          *)

PostPresence ==
    /\ posting = Nothing
    /\ posting' = lastHw
    /\ UNCHANGED <<now, world, mic, agent, polls, age, sent>>

PresencePosted ==
    /\ posting # Nothing
    /\ mic' = posting
    /\ posting' = Nothing
    /\ UNCHANGED <<now, world, agent, polls, age, sent>>

PresenceLost ==
    /\ posting # Nothing
    /\ posting' = Nothing
    /\ UNCHANGED <<now, world, mic, agent, polls, age, sent>>

\* The report is older than 30 s, with or without a new one on its way.
MicExpires ==
    /\ mic /\ mic' = FALSE
    /\ UNCHANGED <<now, world, agent, posting, polls, age, sent>>

-----------------------------------------------------------------------------
(* _api_poll_loop and GET /agent/live-status                                 *)

\* The API computes the status; what cannot be read of the calls, the microphone
\* or the calendar counts as absent.
ReadStatus ==
    /\ asked.status = Nothing
    /\ \E c \in {call, FALSE}, m \in {mic, FALSE}, es \in {events, {}} :
         /\ asked' = [asked EXCEPT !.status = Live(c, m, es, now)]
         /\ IF <<c, m, es>> = <<call, mic, events>> THEN UNCHANGED changes
            ELSE changes < MaxChanges /\ changes' = changes + 1
    /\ UNCHANGED <<now, hw, call, events, message, mic, agent, posting, flags,
                   cached, missed, age, sent>>

\* In parallel it looks for the custom message.
ReadMessage ==
    /\ asked.message = Nothing
    /\ asked' = [asked EXCEPT !.message = message]
    /\ UNCHANGED <<now, world, mic, agent, posting, flags, cached, missed, age,
                   sent>>

\* Mutant: the custom message is not compared.
SameFlagsButMessage(f) == f.busy = flags.busy /\ f.upcoming = flags.upcoming

\* Has nothing changed since the last answer?
SameFlags(f) == f = flags

\* Mutant: the answer may be incomplete.
AnsweredPartly == asked # NotAsked

Answered == asked.status # Nothing /\ asked.message # Nothing

\* What the poll compares of an answer.
FlagsOf(a) ==
    [busy |-> a.busy /\ ~a.upcoming, upcoming |-> a.upcoming, custom |-> a.custom]

\* The agent records the answer, and pushes it if it differs in kind.
PollAnswered ==
    /\ Answered
    /\ LET a == Answer(asked.status, asked.message)
       IN  /\ cached' = a
           /\ IF SameFlags(FlagsOf(a)) THEN UNCHANGED <<flags, sent>>
              ELSE flags' = FlagsOf(a) /\ sent' = Combined(lastHw, a)
    /\ missed' = FALSE /\ age' = 0
    /\ asked' = NotAsked
    /\ UNCHANGED <<now, world, mic, agent, posting>>

\* No answer, a 401, or one that cannot be understood.
PollFails ==
    /\ asked' = NotAsked
    /\ missed' = TRUE
    /\ UNCHANGED <<now, world, mic, agent, posting, flags, cached, age, sent>>

-----------------------------------------------------------------------------
\* Mutant: the last payload is sent again.
RepushLast == FALSE /\ UNCHANGED vars

\* The state is computed again by _heartbeat_loop, and when BLE has connected.
Repush ==
    /\ sent' = Combined(lastHw, Usable)
    /\ UNCHANGED <<now, world, mic, agent, posting, polls, age>>

-----------------------------------------------------------------------------
(* The environment                                                           *)

Older(n, limit) == IF n < limit THEN n + 1 ELSE n

\* A minute passes.  It holds several polls: the last success was less than a
\* minute ago unless a poll has failed since.
Tick ==
    /\ now' = Older(now, MaxTime)
    /\ age' = IF missed THEN Older(age, Staleness) ELSE age
    /\ UNCHANGED <<world, mic, agent, posting, polls, sent>>

\* A device is used or released, a call begins or ends, the calendar is
\* synchronised, a custom message is sent or cancelled.
WorldChanges ==
    /\ changes < MaxChanges /\ changes' = changes + 1
    /\ \/ hw' = ~hw /\ UNCHANGED <<call, events, message>>
       \/ call' = ~call /\ UNCHANGED <<hw, events, message>>
       \/ events' \in SUBSET Meetings /\ UNCHANGED <<hw, call, message>>
       \/ message' \in Custom \cup {NoMessage} /\ UNCHANGED <<hw, call, events>>
    /\ UNCHANGED <<now, mic, agent, posting, polls, age, sent>>

-----------------------------------------------------------------------------
DetectorStep == Detect \/ SnapshotSame \/ SnapshotChanges \/ HandleSnapshot

PollStep == ReadStatus \/ ReadMessage \/ PollAnswered

Next ==
    \/ DetectorStep
    \/ PostPresence \/ PresencePosted \/ PresenceLost \/ MicExpires
    \/ PollStep \/ PollFails
    \/ Repush
    \/ Tick \/ WorldChanges

Spec == Init /\ [][Next]_vars

\* The agent's tasks run and its timers expire; nothing is promised of the
\* network, on which the agent's reports may all be lost.
Fairness ==
    /\ WF_vars(DetectorStep)
    /\ WF_vars(PollStep)
    /\ WF_vars(Repush)
    /\ WF_vars(MicExpires)
    /\ WF_vars(Tick)

FairSpec == Spec /\ Fairness

-----------------------------------------------------------------------------
(* Properties                                                                *)

\* The world and what the API knows of it.
WorldTypeOK ==
    /\ now \in 0 .. MaxTime /\ changes \in 0 .. MaxChanges
    /\ hw \in BOOLEAN /\ call \in BOOLEAN /\ mic \in BOOLEAN
    /\ events \subseteq Meetings
    /\ message \in Custom \cup {NoMessage}

\* The detector and the reports.
AgentTypeOK ==
    /\ snapshot \in BOOLEAN \cup {Nothing}
    /\ machine \in BOOLEAN /\ lastHw \in BOOLEAN
    /\ posting \in BOOLEAN \cup {Nothing}

\* The poll and what it has led to.
PollTypeOK ==
    /\ missed \in BOOLEAN /\ age \in 0 .. Staleness
    /\ asked \in [status : Statuses \cup {Nothing},
                  message : Custom \cup {NoMessage, Nothing}]
    /\ flags \in [busy : BOOLEAN, upcoming : BOOLEAN, custom : Custom \cup {NoMessage}]
    /\ cached \in Answers \cup {Nothing}
    /\ sent \in Statuses \cup Custom \cup {"BUSY"}

\* Every variable has its type; the cached answer is one that the API can give.
TypeOK == WorldTypeOK /\ AgentTypeOK /\ PollTypeOK

\* The state machine runs ahead of what is recorded only while a snapshot is being
\* handled; "BUSY" alone, which stands for the devices, is shown exactly while they
\* are recorded as in use, whatever polls and heartbeats push in between.
HardwareWins == (lastHw <=> sent = "BUSY") /\ (machine # lastHw => snapshot = machine)

\* What the door shows agrees in kind with the flags by which the poll decides that
\* nothing has changed, or the door says FREE: an answer that is not pushed is
\* never one that would take BUSY or a message off the door.
ShownAgrees ==
    ~lastHw /\ sent # "FREE" =>
        IF flags.custom # NoMessage THEN sent = flags.custom
        ELSE /\ IsBusy(sent) <=> flags.busy
             /\ sent = "UPCOMING" <=> flags.upcoming

\* What the door should show.
Wanted ==
    IF hw THEN "BUSY" ELSE Answer(Live(call, FALSE, events, now), message).payload

\* If polls succeed from some point on, the door ends up showing the right payload,
\* its text included, although the poll pushes only a change of kind, the agent's
\* own reports come back as calls, and they may be late or lost.
Converges == <>[][~PollFails]_vars => <>[](sent = Wanted)

\* If no poll succeeds any more, no answer of the API is shown for ever: the door
\* ends up showing the devices alone.
FallsBack == <>[][~PollAnswered]_vars => <>[](sent = IF hw THEN "BUSY" ELSE "FREE")
=============================================================================
