----------------------------- MODULE LiveStatus -----------------------------
(***************************************************************************)
(* What the API answers an agent that asks for the live status: the order  *)
(* of precedence of calls, microphone, calendar and custom messages        *)
(* (integrations.service.ts, agent.controller.ts).                         *)
(*                                                                         *)
(* Time is in minutes.  An event is [start, end]; all-day, cancelled and   *)
(* free events are not among them.  A payload is named by its cause.       *)
(***************************************************************************)
EXTENDS Naturals

CONSTANTS
    Window,     \* the minutes before a meeting in which it is upcoming
    Grace,      \* JOIN_GRACE_MINUTES
    Lasting,    \* permanent custom messages
    Passing,    \* other custom messages
    NoMessage   \* no custom message

ASSUME MinutesAssumption == Window \in Nat /\ Grace \in Nat

\* Causes of the payloads built by getLiveStatus.
Statuses == {"FREE", "CALL", "MIC", "JOINING", "UPCOMING"}

ASSUME CustomAssumption ==
    /\ Lasting \cap Passing = {}
    /\ NoMessage \notin Lasting \cup Passing
    /\ (Lasting \cup Passing) \cap (Statuses \cup {"BUSY"}) = {}

Custom == Lasting \cup Passing

IsBusy(status) == status \in {"CALL", "MIC", "JOINING"}

\* The events that are on, or are about to begin.
Relevant(events, now) == {e \in events : e.start <= now + Window /\ e.end > now}

Earliest(events) == CHOOSE e \in events : \A f \in events : e.start <= f.start

\* getBusyStatus(), and what getLiveStatus makes of it.
Calendar(events, now) ==
    LET relevant == Relevant(events, now)
        first    == Earliest(relevant)
    IN  IF relevant = {} THEN "FREE"
        ELSE IF first.start > now THEN "UPCOMING"
        ELSE IF now - first.start < Grace THEN "JOINING" ELSE "FREE"

\* getLiveStatus().
Live(call, mic, events, now) ==
    IF call THEN "CALL" ELSE IF mic THEN "MIC" ELSE Calendar(events, now)

\* GET live-status: the custom message takes the display over, or yields.
Answer(status, message) ==
    LET shown == /\ message # NoMessage
                 /\ message \in Lasting \/ status = "FREE"
    IN  [busy     |-> IsBusy(status),
         upcoming |-> status = "UPCOMING",
         custom   |-> IF shown THEN message ELSE NoMessage,
         payload  |-> IF shown THEN message ELSE status]

Answers == {Answer(s, m) : s \in Statuses, m \in Custom \cup {NoMessage}}
=============================================================================
