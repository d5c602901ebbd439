------------------------- MODULE OrchestratorProofs -------------------------
(***************************************************************************)
(* Theorems about Orchestrator, for every calendar, set of custom messages *)
(* and bound: what the calendar says, what takes precedence on the door,   *)
(* the types, that the devices come first, and that what the door shows    *)
(* agrees with the flags the poll compares.                                *)
(***************************************************************************)
EXTENDS Orchestrator, WellFoundedInduction, TLAPS

\* The flags are those of the cached answer, if there is one: a push from the
\* cache and a push from a poll are compared with the same flags.
CachedInv == flags = IF cached = Nothing THEN NoFlags ELSE FlagsOf(cached)

IInv == TypeOK /\ HardwareWins /\ CachedInv /\ ShownAgrees

-----------------------------------------------------------------------------
(* The calendar                                                              *)

\* The meetings that are on.
On(meetings, t) == {e \in meetings : e.start <= t /\ t < e.end}

\* The meetings that are about to begin.
Soon(meetings, t) ==
    {e \in meetings : t < e.start /\ e.start <= t + Window /\ t < e.end}

\* A set of numbers that is not empty has a least element.
LEMMA LeastExists ==
    ASSUME NEW T \in SUBSET Nat, T # {}
    PROVE  \E x \in T : \A y \in T : x <= y
  <1>1. PICK x \in T : \A y \in T : ~(<<y, x>> \in OpToRel(<, Nat))
    BY NatLessThanWellFounded, WFMin
  <1>2. \A y \in T : y \in Nat /\ x \in Nat /\ ~(y < x)
    BY <1>1 DEF OpToRel
  <1> QED
    BY <1>2

\* findFirst in the order of startAt finds a meeting, if one is relevant.
LEMMA EarliestFound ==
    ASSUME NEW es, es # {}, \A e \in es : e.start \in Nat
    PROVE  Earliest(es) \in es /\ \A f \in es : Earliest(es).start <= f.start
  <1> DEFINE starts == {e.start : e \in es}
  <1>1. starts \in SUBSET Nat /\ starts # {}
    OBVIOUS
  <1>2. PICK x \in starts : \A y \in starts : x <= y
    BY <1>1, LeastExists
  <1>3. \E e \in es : \A f \in es : e.start <= f.start
    BY <1>2
  <1> QED
    BY <1>3 DEF Earliest

\* However the meetings overlap: the calendar says JOINING exactly if a meeting is on
\* and all those that are on began less than Grace minutes ago, and UPCOMING exactly if
\* none is on and one is about to begin.  A meeting that is on, even one that began long
\* ago and was never joined, hides all those that are about to begin.
THEOREM CalendarSays ==
    ASSUME NEW es, \A e \in es : e.start \in Nat /\ e.end \in Nat, NEW t \in Nat
    PROVE  /\ Calendar(es, t) = "JOINING" <=>
                 On(es, t) # {} /\ \A e \in On(es, t) : t < e.start + Grace
           /\ Calendar(es, t) = "UPCOMING" <=> On(es, t) = {} /\ Soon(es, t) # {}
  <1> DEFINE relevant == Relevant(es, t)
             first    == Earliest(relevant)
  <1>1. Window \in Nat /\ Grace \in Nat
    BY MinutesAssumption
  <1>2. relevant = On(es, t) \cup Soon(es, t)
    <2>1. \A e \in es : (e.start <= t + Window /\ e.end > t) <=>
                          \/ e.start <= t /\ t < e.end
                          \/ t < e.start /\ e.start <= t + Window /\ t < e.end
      BY <1>1
    <2> QED
      BY <2>1 DEF Relevant, On, Soon
  <1>3. CASE relevant = {}
    BY <1>2, <1>3 DEF Calendar
  <1>4. CASE relevant # {}
    <2>1. \A e \in relevant : e \in es /\ e.start \in Nat
      BY DEF Relevant
    <2>2. first \in relevant /\ \A f \in relevant : first.start <= f.start
      BY <1>4, <2>1, EarliestFound
    <2>3. first.start \in Nat
      BY <2>1, <2>2
    <2>4. Calendar(es, t) = IF first.start > t THEN "UPCOMING"
                            ELSE IF t - first.start < Grace THEN "JOINING" ELSE "FREE"
      BY <1>4 DEF Calendar
    <2> HIDE DEF first, relevant
    <2>5. CASE first.start > t
      <3>1. \A e \in On(es, t) : e \in relevant /\ e.start <= t
        BY <1>2 DEF On
      <3>2. On(es, t) = {}
        BY <2>1, <2>2, <2>3, <2>5, <3>1
      <3> QED
        BY <1>2, <1>4, <2>4, <2>5, <3>2
    <2>6. CASE ~(first.start > t)
      <3>1. \A e \in Soon(es, t) : t < e.start
        BY DEF Soon
      <3>2. first \in On(es, t)
        BY <1>2, <2>2, <2>3, <2>6, <3>1
      <3>3. \A e \in On(es, t) : e.start \in Nat /\ first.start <= e.start
        BY <1>2, <2>1, <2>2
      <3>4. (t - first.start < Grace) <=> \A e \in On(es, t) : t < e.start + Grace
        BY <1>1, <2>3, <3>2, <3>3
      <3> QED
        BY <2>4, <2>6, <3>2, <3>4
    <2> QED
      BY <2>5, <2>6
  <1> QED
    BY <1>3, <1>4

-----------------------------------------------------------------------------
(* The answers of the API                                                    *)

\* What an answer is: a status, or the custom message that took it over.
LEMMA AnswerShape ==
    ASSUME NEW a \in Answers
    PROVE  /\ a.busy \in BOOLEAN /\ a.upcoming \in BOOLEAN
           /\ a.custom \in Custom \cup {NoMessage}
           /\ a.payload \in Statuses \cup Custom
           /\ a.custom # NoMessage => a.payload = a.custom
           /\ a.custom = NoMessage => /\ a.payload \in Statuses
                                      /\ a.busy <=> IsBusy(a.payload)
                                      /\ a.upcoming <=> a.payload = "UPCOMING"
  <1>1. PICK s \in Statuses, m \in Custom \cup {NoMessage} : a = Answer(s, m)
    BY DEF Answers
  <1>2. a.busy = IsBusy(s) /\ a.upcoming = (s = "UPCOMING")
    BY <1>1 DEF Answer
  <1>3. \/ a.custom = NoMessage /\ a.payload = s
        \/ a.custom = m /\ m # NoMessage /\ a.payload = m
    BY <1>1 DEF Answer
  <1>4. IsBusy(s) \in BOOLEAN
    BY DEF IsBusy
  <1> QED
    BY <1>2, <1>3, <1>4

\* Its flags have the type of flags.
LEMMA FlagsTyped ==
    ASSUME NEW a \in Answers
    PROVE  FlagsOf(a) \in [busy : BOOLEAN, upcoming : BOOLEAN,
                           custom : Custom \cup {NoMessage}]
  BY AnswerShape DEF FlagsOf

\* The live status is one of the five, whatever the calendar holds.
LEMMA LiveTyped ==
    ASSUME NEW c \in BOOLEAN, NEW m \in BOOLEAN, NEW es, NEW t
    PROVE  Live(c, m, es, t) \in Statuses
  BY DEF Live, Calendar, Statuses

\* What is pushed for devices and an answer: "BUSY" exactly if the devices are in
\* use, and otherwise a payload that agrees with the answer's flags, or FREE.
LEMMA CombinedShown ==
    ASSUME NEW busy \in BOOLEAN, NEW api \in Answers \cup {Nothing}
    PROVE  /\ Combined(busy, api) \in Statuses \cup Custom \cup {"BUSY"}
           /\ busy <=> Combined(busy, api) = "BUSY"
           /\ ~busy /\ Combined(busy, api) # "FREE" =>
                /\ api # Nothing
                /\ IF FlagsOf(api).custom # NoMessage
                   THEN Combined(busy, api) = FlagsOf(api).custom
                   ELSE /\ IsBusy(Combined(busy, api)) <=> FlagsOf(api).busy
                        /\ Combined(busy, api) = "UPCOMING" <=> FlagsOf(api).upcoming
  <1>1. CASE busy \/ api = Nothing
    BY <1>1 DEF Combined, Statuses
  <1>2. CASE ~busy /\ api # Nothing
    <2>1. api \in Answers
      BY <1>2
    <2>2. "BUSY" \notin Statuses \cup Custom
      BY CustomAssumption DEF Statuses, Custom
    <2>3. Combined(busy, api) \in {api.payload, "FREE"}
      BY <1>2 DEF Combined
    <2>4. Combined(busy, api) \in Statuses \cup Custom
      BY <2>1, <2>3, AnswerShape DEF Statuses
    <2>5. CASE api.custom # NoMessage
      <3>1. Combined(busy, api) = api.custom
        BY <1>2, <2>1, <2>5, AnswerShape DEF Combined
      <3> QED
        BY <1>2, <2>2, <2>4, <2>5, <3>1 DEF FlagsOf
    <2>6. CASE api.custom = NoMessage
      <3>1. FlagsOf(api).custom = NoMessage
        BY <2>6 DEF FlagsOf
      <3>2. Combined(busy, api) # "FREE" => Combined(busy, api) = api.payload
        BY <2>3
      <3>3. FlagsOf(api).busy <=> IsBusy(api.payload)
        BY <2>1, <2>6, AnswerShape DEF FlagsOf, IsBusy
      <3>4. FlagsOf(api).upcoming <=> api.payload = "UPCOMING"
        BY <2>1, <2>6, AnswerShape DEF FlagsOf
      <3> QED
        BY <1>2, <2>2, <2>4, <3>1, <3>2, <3>3, <3>4
    <2> QED
      BY <2>5, <2>6
  <1> QED
    BY <1>1, <1>2

\* What the agent makes of the API's answer for a live status and a custom message: the
\* devices come first, then a permanent message, then a passing one if the status is
\* FREE, then the status.  The agent's own test of the answer takes nothing away.
THEOREM DoorSays ==
    ASSUME NEW busy \in BOOLEAN, NEW s \in Statuses, NEW m \in Custom \cup {NoMessage}
    PROVE  Combined(busy, Answer(s, m)) =
               IF busy THEN "BUSY"
               ELSE IF m \in Lasting \/ (m \in Passing /\ s = "FREE") THEN m ELSE s
  <1>1. Answer(s, m) \in Answers
    BY DEF Answers
  <1>2. Answer(s, m) # Nothing
    BY <1>1, NothingAssumption
  <1>3. m # NoMessage <=> m \in Lasting \/ m \in Passing
    BY CustomAssumption DEF Custom
  <1>4. CASE busy
    BY <1>4 DEF Combined
  <1>5. CASE ~busy /\ (m \in Lasting \/ (m \in Passing /\ s = "FREE"))
    <2>1. Answer(s, m).custom = m /\ Answer(s, m).payload = m /\ m # NoMessage
      BY <1>3, <1>5 DEF Answer
    <2> QED
      BY <1>2, <1>5, <2>1 DEF Combined
  <1>6. CASE ~busy /\ ~(m \in Lasting \/ (m \in Passing /\ s = "FREE"))
    <2>1. ~(m # NoMessage /\ (m \in Lasting \/ s = "FREE"))
      BY <1>3, <1>6, CustomAssumption
    <2>2. /\ Answer(s, m).custom = NoMessage /\ Answer(s, m).payload = s
          /\ Answer(s, m).busy = IsBusy(s) /\ Answer(s, m).upcoming = (s = "UPCOMING")
      BY <2>1 DEF Answer
    <2>3. s = "FREE" \/ IsBusy(s) \/ s = "UPCOMING"
      BY DEF Statuses, IsBusy
    <2> QED
      BY <1>2, <1>6, <2>2, <2>3 DEF Combined
  <1> QED
    BY <1>4, <1>5, <1>6

-----------------------------------------------------------------------------
(* The invariant                                                             *)

LEMMA InitIInv == Init => IInv
  <1> SUFFICES ASSUME Init PROVE IInv
    OBVIOUS
  <1>1. now \in 0 .. MaxTime /\ changes \in 0 .. MaxChanges /\ age \in 0 .. Staleness
    BY BoundsAssumption DEF Init
  <1>2. WorldTypeOK /\ AgentTypeOK
    BY <1>1, Zenon DEF Init, WorldTypeOK, AgentTypeOK
  <1>3. asked \in [status : Statuses \cup {Nothing},
                  message : Custom \cup {NoMessage, Nothing}]
    BY DEF Init, NotAsked
  <1>4. flags \in [busy : BOOLEAN, upcoming : BOOLEAN,
                  custom : Custom \cup {NoMessage}]
    BY DEF Init, NoFlags
  <1>5. missed \in BOOLEAN /\ cached \in Answers \cup {Nothing}
                          /\ sent \in Statuses \cup Custom \cup {"BUSY"}
    BY DEF Init, Statuses
  <1>6. PollTypeOK
    BY <1>1, <1>3, <1>4, <1>5 DEF PollTypeOK
  <1>7. HardwareWins /\ CachedInv /\ ShownAgrees
    BY DEF Init, HardwareWins, CachedInv, ShownAgrees
  <1> QED
    BY <1>2, <1>6, <1>7 DEF IInv, TypeOK

\* The devices' new state is pushed with what is cached of the API.
LEMMA HandleSnapshotStep ==
    ASSUME IInv, HandleSnapshot
    PROVE  IInv'
  <1>1. machine \in BOOLEAN /\ Usable \in Answers \cup {Nothing}
    BY DEF IInv, TypeOK, AgentTypeOK, PollTypeOK, Usable
  <1>2. TypeOK'
    <2>1. WorldTypeOK' /\ AgentTypeOK'
      BY DEF IInv, TypeOK, WorldTypeOK, AgentTypeOK, HandleSnapshot, world
    <2>2. PollTypeOK'
      BY <1>1, CombinedShown DEF IInv, TypeOK, PollTypeOK, HandleSnapshot, polls
    <2> QED
      BY <2>1, <2>2 DEF TypeOK
  <1>3. HardwareWins'
    BY <1>1, CombinedShown DEF HardwareWins, HandleSnapshot
  <1>4. CachedInv'
    BY DEF IInv, CachedInv, HandleSnapshot, polls
  <1>5. ShownAgrees'
    <2>1. Usable # Nothing => flags = FlagsOf(Usable)
      BY DEF IInv, CachedInv, Usable
    <2>2. sent' = Combined(machine, Usable) /\ lastHw' = machine /\ flags' = flags
      BY DEF HandleSnapshot, polls
    <2> QED
      BY <1>1, <2>1, <2>2, CombinedShown DEF ShownAgrees
  <1> QED
    BY <1>2, <1>3, <1>4, <1>5 DEF IInv

\* The state is pushed again.
LEMMA RepushStep ==
    ASSUME IInv, Repush
    PROVE  IInv'
  <1>1. lastHw \in BOOLEAN /\ Usable \in Answers \cup {Nothing}
    BY DEF IInv, TypeOK, AgentTypeOK, PollTypeOK, Usable
  <1>2. TypeOK'
    <2>1. WorldTypeOK' /\ AgentTypeOK'
      BY DEF IInv, TypeOK, WorldTypeOK, AgentTypeOK, Repush, world, agent
    <2>2. PollTypeOK'
      BY <1>1, CombinedShown DEF IInv, TypeOK, PollTypeOK, Repush, polls
    <2> QED
      BY <2>1, <2>2 DEF TypeOK
  <1>3. HardwareWins'
    BY <1>1, CombinedShown DEF IInv, HardwareWins, Repush, agent
  <1>4. CachedInv'
    BY DEF IInv, CachedInv, Repush, polls
  <1>5. ShownAgrees'
    <2>1. Usable # Nothing => flags = FlagsOf(Usable)
      BY DEF IInv, CachedInv, Usable
    <2>2. sent' = Combined(lastHw, Usable) /\ lastHw' = lastHw /\ flags' = flags
      BY DEF Repush, agent, polls
    <2> QED
      BY <1>1, <2>1, <2>2, CombinedShown DEF ShownAgrees
  <1> QED
    BY <1>2, <1>3, <1>4, <1>5 DEF IInv

\* An answer arrives: it is pushed if its flags are new, and if they are not, what
\* is shown agrees with them already.
LEMMA PollAnsweredStep ==
    ASSUME IInv, PollAnswered
    PROVE  IInv'
  <1> DEFINE a == Answer(asked.status, asked.message)
  <1>1. a \in Answers
    BY DEF IInv, TypeOK, PollTypeOK, PollAnswered, Answered, Answers
  <1>2. /\ cached' = a /\ flags' = FlagsOf(a)
        /\ \/ sent' = sent /\ flags' = flags
           \/ sent' = Combined(lastHw, a)
        /\ asked' = NotAsked /\ missed' = FALSE /\ age' = 0
        /\ UNCHANGED <<now, world, mic, agent, posting>>
    BY DEF PollAnswered, SameFlags
  <1> HIDE DEF a
  <1>3. lastHw \in BOOLEAN /\ lastHw' = lastHw
    BY <1>2 DEF IInv, TypeOK, AgentTypeOK, agent
  <1>4. TypeOK'
    <2>1. sent' \in Statuses \cup Custom \cup {"BUSY"}
      BY <1>1, <1>2, <1>3, CombinedShown DEF IInv, TypeOK, PollTypeOK
    <2>2. flags' \in [busy : BOOLEAN, upcoming : BOOLEAN,
                      custom : Custom \cup {NoMessage}]
      BY <1>1, <1>2, FlagsTyped
    <2>3. asked' \in [status : Statuses \cup {Nothing},
                      message : Custom \cup {NoMessage, Nothing}]
      BY <1>2 DEF NotAsked
    <2>4. age' \in 0 .. Staleness
      BY <1>2, BoundsAssumption
    <2>5. WorldTypeOK' /\ AgentTypeOK'
      BY <1>2 DEF IInv, TypeOK, WorldTypeOK, AgentTypeOK, world, agent
    <2>6. PollTypeOK'
      BY <1>1, <1>2, <2>1, <2>2, <2>3, <2>4 DEF PollTypeOK
    <2> QED
      BY <2>5, <2>6 DEF TypeOK
  <1>5. HardwareWins'
    BY <1>1, <1>2, <1>3, CombinedShown DEF IInv, HardwareWins, agent
  <1>6. CachedInv'
    BY <1>1, <1>2, NothingAssumption DEF CachedInv
  <1>7. ShownAgrees'
    BY <1>1, <1>2, <1>3, CombinedShown DEF IInv, ShownAgrees
  <1> QED
    BY <1>4, <1>5, <1>6, <1>7 DEF IInv

\* The API computes the status.
LEMMA ReadStatusStep ==
    ASSUME IInv, ReadStatus
    PROVE  IInv'
  <1>1. PICK c \in {call, FALSE}, m \in {mic, FALSE}, es \in {events, {}} :
          /\ asked' = [asked EXCEPT !.status = Live(c, m, es, now)]
          /\ IF <<c, m, es>> = <<call, mic, events>> THEN UNCHANGED changes
             ELSE changes < MaxChanges /\ changes' = changes + 1
    BY DEF ReadStatus
  <1>2. asked' \in [status : Statuses \cup {Nothing},
                    message : Custom \cup {NoMessage, Nothing}]
    <2>1. Live(c, m, es, now) \in Statuses
      BY LiveTyped DEF IInv, TypeOK, WorldTypeOK
    <2> QED
      BY <1>1, <2>1 DEF IInv, TypeOK, PollTypeOK
  <1>3. changes' \in 0 .. MaxChanges
    <2>1. changes' = changes \/ (changes < MaxChanges /\ changes' = changes + 1)
      BY <1>1
    <2> QED
      BY <2>1, BoundsAssumption DEF IInv, TypeOK, WorldTypeOK
  <1>4. UNCHANGED <<now, hw, call, events, message, mic, agent, posting, flags,
                    cached, missed, age, sent>>
    BY DEF ReadStatus
  <1>5. TypeOK'
    BY <1>2, <1>3, <1>4
       DEF IInv, TypeOK, WorldTypeOK, AgentTypeOK, PollTypeOK, agent
  <1>6. HardwareWins' /\ CachedInv' /\ ShownAgrees'
    BY <1>4 DEF IInv, HardwareWins, CachedInv, ShownAgrees, agent
  <1> QED
    BY <1>5, <1>6 DEF IInv

\* The steps of the detector that push nothing.
LEMMA DetectorQuietStep ==
    ASSUME IInv, Detect \/ SnapshotSame \/ SnapshotChanges
    PROVE  IInv'
  <1>1. UNCHANGED <<now, world, mic, lastHw, posting, polls, age, sent>>
    BY DEF Detect, SnapshotSame, SnapshotChanges
  <1>2. snapshot' \in BOOLEAN \cup {Nothing} /\ machine' \in BOOLEAN
    BY DEF IInv, TypeOK, WorldTypeOK, AgentTypeOK, Detect, SnapshotSame,
           SnapshotChanges
  <1>3. TypeOK'
    BY <1>1, <1>2
       DEF IInv, TypeOK, WorldTypeOK, AgentTypeOK, PollTypeOK, world, polls
  <1>4. HardwareWins'
    BY NothingAssumption
       DEF IInv, TypeOK, AgentTypeOK, HardwareWins, Detect, SnapshotSame, SnapshotChanges
  <1>5. CachedInv' /\ ShownAgrees'
    BY <1>1 DEF IInv, CachedInv, ShownAgrees, polls
  <1> QED
    BY <1>3, <1>4, <1>5 DEF IInv

\* The steps that touch neither the flags nor what is shown.
LEMMA QuietStep ==
    ASSUME IInv,
           \/ PostPresence \/ PresencePosted \/ PresenceLost \/ MicExpires
           \/ ReadMessage \/ PollFails \/ Tick \/ WorldChanges \/ UNCHANGED vars
    PROVE  IInv'
  <1>1. UNCHANGED <<agent, flags, cached, sent>>
    BY DEF PostPresence, PresencePosted, PresenceLost, MicExpires, ReadMessage,
           PollFails, Tick, WorldChanges, vars, polls
  <1>2. HardwareWins' /\ CachedInv' /\ ShownAgrees'
    BY <1>1 DEF IInv, HardwareWins, CachedInv, ShownAgrees, agent
  <1>3. WorldTypeOK'
    <2>1. CASE Tick \/ WorldChanges
      <3>1. now' \in 0 .. MaxTime /\ changes' \in 0 .. MaxChanges
        BY <2>1, BoundsAssumption
           DEF IInv, TypeOK, WorldTypeOK, Tick, Older, WorldChanges, world
      <3>2. hw' \in BOOLEAN /\ call' \in BOOLEAN /\ mic' \in BOOLEAN
        BY <2>1, Zenon
           DEF IInv, TypeOK, WorldTypeOK, Tick, WorldChanges, world
      <3>3. events' \subseteq Meetings /\ message' \in Custom \cup {NoMessage}
        BY <2>1 DEF IInv, TypeOK, WorldTypeOK, Tick, WorldChanges, world
      <3> QED
        BY <3>1, <3>2, <3>3 DEF WorldTypeOK
    <2>2. CASE PresencePosted \/ MicExpires
      BY <2>2, NothingAssumption
         DEF IInv, TypeOK, WorldTypeOK, AgentTypeOK, PresencePosted, MicExpires, world
    <2>3. CASE PostPresence \/ PresenceLost \/ ReadMessage \/ PollFails
               \/ UNCHANGED vars
      BY <2>3
         DEF IInv, TypeOK, WorldTypeOK, PostPresence, PresenceLost, ReadMessage,
             PollFails, vars, world
    <2> QED
      BY <2>1, <2>2, <2>3
  <1>4. AgentTypeOK'
    BY DEF IInv, TypeOK, AgentTypeOK, agent, PostPresence, PresencePosted,
           PresenceLost, MicExpires, ReadMessage, PollFails, Tick, WorldChanges, vars
  <1>5. PollTypeOK'
    <2>1. CASE Tick
      BY <2>1, BoundsAssumption DEF IInv, TypeOK, PollTypeOK, Tick, Older, polls
    <2>2. CASE ReadMessage \/ PollFails
      <3>1. asked' \in [status : Statuses \cup {Nothing},
                       message : Custom \cup {NoMessage, Nothing}]
        BY <2>2
           DEF IInv, TypeOK, WorldTypeOK, PollTypeOK, ReadMessage, PollFails, NotAsked
      <3>2. missed' \in BOOLEAN /\ UNCHANGED <<age, flags, cached, sent>>
        BY <2>2 DEF IInv, TypeOK, PollTypeOK, ReadMessage, PollFails
      <3> QED
        BY <3>1, <3>2 DEF IInv, TypeOK, PollTypeOK
    <2>3. CASE PostPresence \/ PresencePosted \/ PresenceLost \/ MicExpires
               \/ WorldChanges \/ UNCHANGED vars
      BY <2>3
         DEF IInv, TypeOK, PollTypeOK, PostPresence, PresencePosted, PresenceLost,
             MicExpires, WorldChanges, vars, polls
    <2> QED
      BY <2>1, <2>2, <2>3
  <1> QED
    BY <1>2, <1>3, <1>4, <1>5 DEF IInv, TypeOK

\* Every step preserves the invariant.
LEMMA NextIInv == IInv /\ [Next]_vars => IInv'
  BY HandleSnapshotStep, RepushStep, PollAnsweredStep, ReadStatusStep,
     DetectorQuietStep, QuietStep
     DEF Next, DetectorStep, PollStep

\* IInv is an invariant of the orchestrator, however polls, reports and snapshots
\* interleave.
THEOREM Inductive == Spec => []IInv
  BY InitIInv, NextIInv, PTL DEF Spec

\* The types: the cached answer is one the API can give, and a custom message, a
\* status or "BUSY" is all that is ever pushed.
THEOREM TypeCorrect == Spec => []TypeOK
  <1>1. IInv => TypeOK
    BY DEF IInv
  <1> QED
    BY Inductive, <1>1, PTL

\* "BUSY" is on the door exactly while the devices are recorded as in use, whatever
\* the API answers (_push_combined_state, handle_snapshot).
THEOREM DevicesFirst == Spec => []HardwareWins
  <1>1. IInv => HardwareWins
    BY DEF IInv
  <1> QED
    BY Inductive, <1>1, PTL

\* What is shown agrees with the flags of the poll, so that an answer that is not
\* pushed needs no push to keep a busy state or a message on the door.
THEOREM ShownWithFlags == Spec => []ShownAgrees
  <1>1. IInv => ShownAgrees
    BY DEF IInv
  <1> QED
    BY Inductive, <1>1, PTL
=============================================================================
