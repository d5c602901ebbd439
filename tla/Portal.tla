------------------------------- MODULE Portal -------------------------------
(***************************************************************************)
(* The dashboard in one browser: its pages, one of them mounted at a time. *)
(* A page that is left loses its state, and what is in flight does not     *)
(* reach it any more.                                                      *)
(***************************************************************************)
EXTENDS CalendarPage, IntegrationsPage, StatusPage, DevicePage

vars == <<shellVars, calendarVars, integrationsVars, statusVars, deviceVars>>

Unmounted ==
    CalendarUnmounted /\ IntegrationsUnmounted /\ StatusUnmounted /\ DeviceUnmounted

Init == InitShell /\ Unmounted /\ away = Nothing

\* What a page does, the others being unmounted.
Calendar(A)     == A /\ UNCHANGED <<integrationsVars, statusVars, deviceVars>>
Integrations(A) == A /\ UNCHANGED <<calendarVars, statusVars, deviceVars>>
Status(A)       == A /\ UNCHANGED <<calendarVars, integrationsVars, deviceVars>>
Device(A)       == A /\ UNCHANGED <<calendarVars, integrationsVars, statusVars>>

\* A page is opened.
Mount ==
    \/ Open("calendar")     /\ away = Nothing /\ Calendar(CalendarMount)
    \/ Open("integrations") /\ away = Nothing /\ Integrations(IntegrationsMount)
    \/ Open("status")       /\ away = Nothing /\ Status(StatusMount)
    \/ Open("device")       /\ away = Nothing /\ Device(DeviceMount)

Unmount ==
    /\ Close
    /\ \/ page = "calendar"     /\ Calendar(CalendarLeave)
       \/ page = "integrations" /\ Integrations(IntegrationsLeave /\ away' = Nothing)
       \/ page = "status"       /\ Status(StatusLeave)
       \/ page = "device"       /\ Device(DeviceLeave)

\* handleConnect(): the answer takes the browser to the provider ...
Redirected ==
    /\ page = "integrations" /\ connecting # Nothing
    /\ page' = "none" /\ session' = "loading"
    /\ Integrations(IntegrationsLeave /\ away' = connecting)

\* ... which sends it back, after the callback of the API.
Returned ==
    /\ away # Nothing
    /\ page' = "integrations" /\ UNCHANGED session
    /\ \E outcome \in {"connected", "error"} : Integrations(IntegrationsReturn(outcome))

\* The session arrives with its token, and the effects that wait for it run.
Session ==
    \/ page = "none"         /\ UNCHANGED <<calendarVars, integrationsVars, statusVars, deviceVars>>
    \/ page = "calendar"     /\ Calendar(CalendarSession)
    \/ page = "integrations" /\ Integrations(IntegrationsSession)
    \/ page = "status"       /\ Status(StatusSession)
    \/ page = "device"       /\ Device(DeviceSession)

PageStep ==
    /\ UNCHANGED shellVars
    /\ \/ Calendar(CalendarStep) \/ Integrations(IntegrationsStep)
       \/ Status(StatusStep) \/ Device(DeviceStep)

Next ==
    \/ Mount \/ Unmount \/ Redirected \/ Returned
    \/ SessionReady /\ away = Nothing /\ Session
    \/ SessionBroken /\ away = Nothing
       /\ UNCHANGED <<calendarVars, integrationsVars, statusVars, deviceVars>>
    \/ PageStep

Spec == Init /\ [][Next]_vars
=============================================================================
