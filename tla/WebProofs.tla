------------------------------ MODULE WebProofs ------------------------------
(***************************************************************************)
(* Theorems about the web application: the invariants of Portal, its       *)
(* dashboard, for any events, accounts, addresses and lengths of weeks and *)
(* months, and those of Accounts, the users and the sessions behind it,    *)
(* for any browsers, emails and limits.                                    *)
(***************************************************************************)
EXTENDS Portal, Accounts, TLAPS

\* The device page: as long as its status is "idle", nothing has been asked for that the
\* user has not seen fail.
DeviceInv ==
    /\ asked \in {0, 1}
    /\ pairStatus = "idle" => asked = 0
    /\ page # "device" => asked = 0 /\ pairStatus = "idle"

\* The hook: a message waits only behind another.
HookInv ==
    /\ wasBusy \in {"unset", "busy", "free"}
    /\ queued # Nothing => sending # Nothing
    /\ NothingDropped

\* The calendar: what the page holds was read for what it shows, and so will be the
\* answers that it does not ignore.
CalendarInv ==
    IF page # "calendar" THEN CalendarUnmounted
    ELSE
        /\ view \in {"week", "day", "month"} /\ day \in Nat
        /\ table \subseteq Events /\ basis \subseteq Events
        /\ requests \subseteq [first : Int, last : Int, ignore : BOOLEAN]
        /\ \A r \in requests :
             ~r.ignore => r.first = First(view, day) /\ r.last = Last(view, day)
        /\ ~Token => requests = {}
        /\ Token /\ ~asking =>
             events = {e \in basis : First(view, day) <= e.at /\ e.at <= Last(view, day)}

-----------------------------------------------------------------------------
(* The browser                                                               *)

\* While it is at a provider's site, no page is mounted.
AwayInv == away # Nothing => page = "none"

LEMMA AwayInit == Init => AwayInv
  BY DEF Init, AwayInv

LEMMA AwayNext == AwayInv /\ [Next]_vars => AwayInv'
  <1> SUFFICES ASSUME AwayInv, [Next]_vars PROVE AwayInv'
    OBVIOUS
  <1>1. CASE Mount
    <2>1. UNCHANGED away /\ away = Nothing
      BY <1>1 DEF Mount, Calendar, Integrations, Status, Device, IntegrationsMount,
                  integrationsVars, wireVars
    <2> QED
      BY <2>1 DEF AwayInv
  <1>2. CASE Unmount
    BY <1>2 DEF Unmount, Close, AwayInv
  <1>3. CASE Redirected \/ Returned
    BY <1>3 DEF Redirected, Returned, Integrations, IntegrationsReturn, AwayInv
  <1>4. CASE SessionReady /\ Session
    <2>1. UNCHANGED away /\ UNCHANGED page
      BY <1>4 DEF SessionReady, Session, Calendar, Integrations, Status, Device,
                  IntegrationsSession, integrationsVars, wireVars
    <2> QED
      BY <2>1 DEF AwayInv
  <1>5. CASE PageStep
    <2>1. UNCHANGED page
      BY <1>5 DEF PageStep, shellVars
    <2>2. CASE UNCHANGED integrationsVars
      BY <2>1, <2>2 DEF AwayInv, integrationsVars, wireVars
    <2>3. CASE IntegrationsStep
      <3>1. UNCHANGED away
        BY <2>3 DEF IntegrationsStep, PostEnds, CheckCalendar, ConnectFails, ListRead,
                    ListAnswered, Connect, PollSent, PollRead, PollAnswered, Sync,
                    SyncEnds, Disconnect, DisconnectEnds, DisconnectFails, wireVars
      <3> QED
        BY <2>1, <3>1 DEF AwayInv
    <2> QED
      BY <1>5, <2>2, <2>3 DEF PageStep, Calendar, Integrations, Status, Device
  <1>6. CASE UNCHANGED <<page, integrationsVars>>
    BY <1>6 DEF AwayInv, integrationsVars, wireVars
  <1> QED
    BY <1>1, <1>2, <1>3, <1>4, <1>5, <1>6 DEF Next, SessionBroken, vars, shellVars

-----------------------------------------------------------------------------
(* The device page                                                           *)

LEMMA DeviceInit == Init => DeviceInv
  BY DEF Init, InitShell, Unmounted, DeviceUnmounted, DeviceInv

\* The effect approves when nobody has: then the status is "idle" no more.
LEMMA DeviceArrives ==
    ASSUME DeviceInv,
           \/ Open("device") /\ DeviceMount
           \/ SessionReady /\ page = "device" /\ DeviceSession
    PROVE  DeviceInv'
  BY DEF DeviceInv, Open, SessionReady, DeviceMount, DeviceSession, AutoApprove

\* Only the user takes the status back to "idle", after a failure; with that, the effect
\* may approve once more.
LEMMA DeviceSteps ==
    ASSUME DeviceInv, UNCHANGED shellVars, DeviceStep
    PROVE  DeviceInv'
  <1>1. CASE ParamChanges \/ ApproveAnswered
    BY <1>1 DEF DeviceInv, ParamChanges, ApproveAnswered, AutoApprove, shellVars, DeviceStep
  <1>2. CASE TypeCode \/ LinkAgent
    BY <1>2 DEF DeviceInv, TypeCode, LinkAgent, FormShown, Acted, AutoApprove, shellVars,
                DeviceStep
  <1>3. CASE ConfigRead \/ ConfigAnswered \/ ConfigFails \/ TypeAddress \/ Save
             \/ SaveAnswered \/ SaveFails
    <2>1. UNCHANGED pairVars
      BY <1>3 DEF ConfigRead, ConfigAnswered, ConfigFails, TypeAddress, Save,
                  SaveAnswered, SaveFails
    <2> QED
      BY <2>1 DEF DeviceInv, pairVars, shellVars
  <1> QED
    BY <1>1, <1>2, <1>3 DEF DeviceStep

LEMMA DeviceNext == AwayInv /\ DeviceInv /\ [Next]_vars => DeviceInv'
  <1> SUFFICES ASSUME AwayInv, DeviceInv, [Next]_vars PROVE DeviceInv'
    OBVIOUS
  <1>1. CASE Mount
    BY <1>1, DeviceArrives DEF Mount, Open, Calendar, Integrations, Status, Device,
                               DeviceInv, deviceVars
  <1>2. CASE Unmount
    BY <1>2 DEF Unmount, Close, Calendar, Integrations, Status, Device, DeviceLeave,
                DeviceInv, deviceVars
  <1>3. CASE Redirected \/ Returned
    BY <1>3 DEF Redirected, Returned, Integrations, AwayInv, DeviceInv, deviceVars
  <1>4. CASE SessionReady /\ Session
    BY <1>4, DeviceArrives DEF SessionReady, Session, Calendar, Integrations, Status,
                               Device, DeviceInv, deviceVars
  <1>5. CASE SessionBroken /\ UNCHANGED <<integrationsVars, statusVars, deviceVars>>
    BY <1>5 DEF SessionBroken, DeviceInv, deviceVars
  <1>6. CASE PageStep
    <2>1. UNCHANGED shellVars /\ (DeviceStep \/ UNCHANGED deviceVars)
      BY <1>6 DEF PageStep, Calendar, Integrations, Status, Device
    <2> QED
      BY <2>1, DeviceSteps DEF DeviceInv, deviceVars, shellVars
  <1>7. CASE UNCHANGED vars
    BY <1>7 DEF vars, DeviceInv, deviceVars, shellVars
  <1> QED
    BY <1>1, <1>2, <1>3, <1>4, <1>5, <1>6, <1>7 DEF Next

\* Unless the user acts on a failure, the page asks for one approval, however its address
\* bar, its session and its answers change in between (device/page.tsx).
THEOREM NeverApprovesAgain == Spec => []NoRepeatedApproval
  <1>1. DeviceInv => NoRepeatedApproval
    BY DEF DeviceInv, NoRepeatedApproval
  <1> QED
    BY AwayInit, AwayNext, DeviceInit, DeviceNext, <1>1, PTL DEF Spec

-----------------------------------------------------------------------------
(* The hook                                                                  *)

LEMMA HookInit == Init => HookInv
  BY DEF Init, Unmounted, IntegrationsUnmounted, HookInv, NothingDropped

LEMMA HookReset == IntegrationsLeave => HookInv'
  BY DEF IntegrationsLeave, HookInv, NothingDropped

\* A message is sent or waits: it is the newest from now on.
LEMMA SendNewest ==
    ASSUME NEW message \in {"BUSY", "FREE"}, Send(message), UNCHANGED posted,
           queued # Nothing => sending # Nothing
    PROVE  /\ queued' # Nothing => sending' # Nothing
           /\ message = IF queued' # Nothing THEN queued'
                        ELSE IF sending' # Nothing THEN sending' ELSE posted'
  <1>1. message # Nothing
    BY AccountsAssumption
  <1> QED
    BY <1>1 DEF Send

\* Every evaluation of the effect keeps the newest message right.
LEMMA Evaluation ==
    ASSUME HookInv, NEW known, NEW busy, Evaluate(known, busy), UNCHANGED posted
    PROVE  HookInv'
  <1> DEFINE now == IF SlackBusy(known) \/ busy = "busy" THEN "busy" ELSE "free"
             message == IF now = "busy" THEN "BUSY" ELSE "FREE"
  <1>1. now \in {"busy", "free"} /\ message \in {"BUSY", "FREE"}
        /\ (now = "busy" => message = "BUSY") /\ (now = "free" => message = "FREE")
    OBVIOUS
  <1>2. \/ UNCHANGED <<wasBusy, sending, queued>>
        \/ wasBusy' = now /\ Send(message)
    BY DEF Evaluate
  <1> HIDE DEF now, message
  <1>3. CASE UNCHANGED <<wasBusy, sending, queued>>
    BY <1>3 DEF HookInv, NothingDropped
  <1>4. CASE wasBusy' = now /\ Send(message)
    <2>1. /\ queued' # Nothing => sending' # Nothing
          /\ message = IF queued' # Nothing THEN queued'
                       ELSE IF sending' # Nothing THEN sending' ELSE posted'
      BY <1>1, <1>4, SendNewest DEF HookInv
    <2> QED
      BY <1>1, <1>4, <2>1 DEF HookInv, NothingDropped
  <1> QED
    BY <1>2, <1>3, <1>4

\* The steps of the page.
LEMMA HookSteps ==
    ASSUME HookInv, IntegrationsStep
    PROVE  HookInv'
  <1>1. CASE PostEnds
    BY <1>1 DEF HookInv, NothingDropped, PostEnds
  <1>2. CASE CheckCalendar
    BY <1>2, Evaluation DEF CheckCalendar
  <1>3. ASSUME NEW i \in Ids, PollAnswered(i) \/ DisconnectEnds(i) PROVE HookInv'
    BY <1>3, Evaluation DEF PollAnswered, DisconnectEnds
  <1>4. ASSUME \/ ConnectFails \/ ListRead \/ ListAnswered
               \/ \E p \in Providers : Connect(p)
               \/ \E i \in Ids : PollSent(i) \/ PollRead(i) \/ Sync(i) \/ SyncEnds(i)
                                 \/ Disconnect(i) \/ DisconnectFails(i)
        PROVE  HookInv'
    <2>1. UNCHANGED hookVars
      BY <1>4 DEF ConnectFails, ListRead, ListAnswered, Connect, PollSent, PollRead, Sync,
                  SyncEnds, Disconnect, DisconnectFails
    <2> QED
      BY <2>1 DEF HookInv, NothingDropped, hookVars
  <1> QED
    BY <1>1, <1>2, <1>3, <1>4 DEF IntegrationsStep

LEMMA HookKept == HookInv /\ UNCHANGED hookVars => HookInv'
  BY DEF HookInv, NothingDropped, hookVars

LEMMA HookNext == HookInv /\ [Next]_vars => HookInv'
  <1> SUFFICES ASSUME HookInv, [Next]_vars PROVE HookInv'
    OBVIOUS
  <1>1. CASE Mount
    <2>1. UNCHANGED hookVars
      BY <1>1 DEF Mount, Calendar, Integrations, Status, Device, IntegrationsMount,
                  integrationsVars
    <2> QED
      BY <2>1, HookKept
  <1>2. CASE Unmount
    <2>1. UNCHANGED hookVars \/ IntegrationsLeave
      BY <1>2 DEF Unmount, Calendar, Integrations, Status, Device, integrationsVars
    <2> QED
      BY <2>1, HookKept, HookReset
  <1>3. CASE Redirected
    BY <1>3, HookReset DEF Redirected, Integrations
  <1>4. CASE Returned
    <2>1. UNCHANGED hookVars
      BY <1>4 DEF Returned, Integrations, IntegrationsReturn
    <2> QED
      BY <2>1, HookKept
  <1>5. CASE Session
    <2>1. UNCHANGED hookVars
      BY <1>5 DEF Session, Calendar, Integrations, Status, Device, IntegrationsSession,
                  integrationsVars
    <2> QED
      BY <2>1, HookKept
  <1>6. CASE UNCHANGED integrationsVars
    BY <1>6, HookKept DEF integrationsVars
  <1>7. CASE PageStep
    <2>1. UNCHANGED hookVars \/ IntegrationsStep
      BY <1>7 DEF PageStep, Calendar, Integrations, Status, Device, integrationsVars
    <2> QED
      BY <2>1, HookKept, HookSteps
  <1> QED
    BY <1>1, <1>2, <1>3, <1>4, <1>5, <1>6, <1>7 DEF Next, vars

\* useBusyStatus drops no transition while the page is open.
THEOREM KeepsTheNewest == Spec => []NothingDropped
  <1>1. HookInv => NothingDropped
    BY DEF HookInv
  <1> QED
    BY HookInit, HookNext, <1>1, PTL DEF Spec

-----------------------------------------------------------------------------
(* The calendar                                                              *)

LEMMA Remainder ==
    ASSUME NEW d \in Nat, NEW n \in Nat \ {0}
    PROVE  d % n \in 0 .. n - 1
  OBVIOUS

LEMMA Halves ==
    ASSUME NEW a \in Nat
    PROVE  a \div 2 \in Nat /\ a % 2 \in {0, 1} /\ a = (2 * (a \div 2)) + (a % 2)
  OBVIOUS

\* A period contains the day that it is the period of.
LEMMA Periods ==
    ASSUME NEW d \in Nat
    PROVE  /\ WeekStart(d) \in Int /\ WeekEnd(d) \in Int
           /\ WeekStart(d) <= d /\ d <= WeekEnd(d)
           /\ MonthStart(d) \in Int /\ MonthEnd(d) \in Int
           /\ MonthStart(d) <= d /\ d <= MonthEnd(d)
  <1>1. d % DaysPerWeek \in 0 .. DaysPerWeek - 1 /\ d % DaysPerMonth \in 0 .. DaysPerMonth - 1
    BY Remainder, CalendarAssumption
  <1>2. DaysPerWeek \in Nat /\ DaysPerMonth \in Nat
    BY CalendarAssumption
  <1> QED
    BY <1>1, <1>2 DEF WeekStart, WeekEnd, MonthStart, MonthEnd

\* The range asked for holds the events of the days displayed, but those cut off.
LEMMA RangeFits ==
    ASSUME view \in {"week", "day", "month"}, day \in Nat,
           NEW e \in Events, DayOf(e) \in Displayed
    PROVE  (First(view, day) <= e.at /\ e.at <= Last(view, day)) <=> ~CutOff(e)
  <1> DEFINE d == DayOf(e)
  <1>1. e.at \in Nat
    BY CalendarAssumption
  <1>2. d \in Nat /\ e.at % 2 \in {0, 1} /\ e.at = (2 * d) + (e.at % 2)
    BY <1>1, Halves DEF DayOf
  <1> HIDE DEF d
  <1>3. CASE view = "month"
    <2>1. MonthStart(day) <= d /\ d <= MonthEnd(day)
          /\ MonthStart(day) \in Int /\ MonthEnd(day) \in Int
      BY <1>2, <1>3, Periods DEF Displayed, MonthView, d
    <2>2. First(view, day) = 2 * MonthStart(day) /\ Last(view, day) = (2 * MonthEnd(day)) + 1
      BY <1>3 DEF First, Last
    <2>3. ~CutOff(e)
      BY <1>3 DEF CutOff
    <2> QED
      BY <1>1, <1>2, <2>1, <2>2, <2>3
  <1>4. CASE view \in {"week", "day"}
    <2>1. WeekStart(day) <= d /\ d <= WeekEnd(day)
          /\ WeekStart(day) \in Int /\ WeekEnd(day) \in Int
      BY <1>2, <1>4, Periods DEF Displayed, WeekView, DayView, d
    <2>2. First(view, day) = 2 * WeekStart(day) /\ Last(view, day) = 2 * WeekEnd(day)
      BY <1>4 DEF First, Last
    <2>3. CutOff(e) <=> d = WeekEnd(day) /\ e.at % 2 = 1
      BY <1>4 DEF CutOff, d
    <2> QED
      BY <1>1, <1>2, <2>1, <2>2, <2>3
  <1> QED
    BY <1>3, <1>4

LEMMA CalendarShown == CalendarInv => CalendarComplete
  <1> SUFFICES ASSUME CalendarInv, page = "calendar", Token, ~asking, NEW d \in Displayed
               PROVE  EventsForDay(d) = {e \in basis : DayOf(e) = d /\ e.provider \in active
                                                      /\ ~CutOff(e)}
    BY DEF CalendarComplete
  <1>1. /\ view \in {"week", "day", "month"} /\ day \in Nat /\ basis \subseteq Events
        /\ events = {e \in basis : First(view, day) <= e.at /\ e.at <= Last(view, day)}
    BY DEF CalendarInv
  <1>2. ASSUME NEW e \in basis, DayOf(e) = d
        PROVE  (First(view, day) <= e.at /\ e.at <= Last(view, day)) <=> ~CutOff(e)
    BY <1>1, <1>2, RangeFits
  <1> QED
    BY <1>1, <1>2 DEF EventsForDay

\* A request for what is shown, with those before it ignored.
LEMMA FetchFits ==
    ASSUME NEW v, NEW d \in Nat, Fetch(v, d),
           requests \subseteq [first : Int, last : Int, ignore : BOOLEAN]
    PROVE  /\ asking' = TRUE
           /\ requests' \subseteq [first : Int, last : Int, ignore : BOOLEAN]
           /\ \A r \in requests' : ~r.ignore => r.first = First(v, d) /\ r.last = Last(v, d)
  <1> DEFINE new == [first |-> First(v, d), last |-> Last(v, d), ignore |-> FALSE]
  <1>1. First(v, d) \in Int /\ Last(v, d) \in Int
    BY Periods DEF First, Last
  <1>2. new \in [first : Int, last : Int, ignore : BOOLEAN]
        /\ new.first = First(v, d) /\ new.last = Last(v, d)
    BY <1>1
  <1>3. asking' = TRUE /\ requests' = {[r EXCEPT !.ignore = TRUE] : r \in requests} \cup {new}
    BY DEF Fetch
  <1>4. \A r \in requests : /\ [r EXCEPT !.ignore = TRUE].ignore = TRUE
                            /\ [r EXCEPT !.ignore = TRUE] \in
                                 [first : Int, last : Int, ignore : BOOLEAN]
    OBVIOUS
  <1> HIDE DEF new
  <1> QED
    BY <1>2, <1>3, <1>4

LEMMA CalendarInit == Init => CalendarInv
  BY DEF Init, InitShell, Unmounted, CalendarInv

\* The page is opened.
LEMMA CalendarMounts ==
    ASSUME CalendarUnmounted, Open("calendar"), CalendarMount
    PROVE  CalendarInv'
  <1>1. view' = "week" /\ day' = Today /\ basis' = {} /\ requests = {} /\ session' = session
        /\ view = "week" /\ day = Today /\ table' \subseteq Events /\ Today \in Nat
    BY CalendarAssumption DEF CalendarUnmounted, Open, CalendarMount
  <1>2. CASE Token
    <2>1. Fetch(view, day)
      BY <1>2 DEF CalendarMount
    <2> QED
      BY <1>1, <1>2, <2>1, FetchFits DEF CalendarInv, Open, Token
  <1>3. CASE ~Token
    <2>1. requests' = {} /\ ~Token'
      BY <1>1, <1>3 DEF CalendarMount, Token
    <2> QED
      BY <1>1, <2>1 DEF CalendarInv, Open
  <1> QED
    BY <1>2, <1>3

\* The user looks at something else.
LEMMA CalendarShows ==
    ASSUME CalendarInv, page = "calendar", UNCHANGED shellVars,
           NEW v \in {"week", "day", "month"}, NEW d, Show(v, d)
    PROVE  CalendarInv'
  <1>1. view' = v /\ day' = d /\ d \in Nat /\ UNCHANGED <<table, basis, page, session>>
    BY DEF Show, shellVars
  <1>2. CASE Token
    <2>1. Fetch(v, d)
      BY <1>2 DEF Show
    <2> QED
      BY <1>1, <1>2, <2>1, FetchFits DEF CalendarInv, Token
  <1>3. CASE ~Token
    <2>1. requests = {} /\ UNCHANGED requests /\ ~Token'
      BY <1>1, <1>3 DEF Show, Token, CalendarInv
    <2> QED
      BY <1>1, <2>1 DEF CalendarInv
  <1> QED
    BY <1>2, <1>3

\* An answer: one that is not ignored was asked for what the page shows.
LEMMA CalendarReads ==
    ASSUME CalendarInv, page = "calendar", UNCHANGED shellVars,
           NEW r \in requests, EventsAnswered(r)
    PROVE  CalendarInv'
  <1>1. UNCHANGED <<page, session, table, view, day, active>> /\ requests' = requests \ {r}
    BY DEF EventsAnswered, shellVars
  <1>2. CASE r.ignore
    <2>1. UNCHANGED <<events, basis, asking>>
      BY <1>2 DEF EventsAnswered
    <2> QED
      BY <1>1, <2>1 DEF CalendarInv, Token, First, Last
  <1>3. CASE ~r.ignore
    <2>1. r.first = First(view, day) /\ r.last = Last(view, day) /\ Token
      BY <1>3 DEF CalendarInv
    <2>2. \/ events' = Between(r.first, r.last) /\ basis' = table
          \/ events' = {} /\ basis' = {}
      BY <1>3 DEF EventsAnswered
    <2>3. /\ basis' \subseteq Events
          /\ events' = {e \in basis' : First(view, day) <= e.at /\ e.at <= Last(view, day)}
      BY <2>1, <2>2 DEF CalendarInv, Between
    <2> QED
      BY <1>1, <2>3 DEF CalendarInv, Token, First, Last
  <1> QED
    BY <1>2, <1>3

\* Everything else on the page.
LEMMA CalendarSteps ==
    ASSUME CalendarInv, UNCHANGED shellVars, CalendarStep
    PROVE  CalendarInv'
  <1>1. page = "calendar"
    BY DEF CalendarStep
  <1>2. CASE Navigate
    <2>1. PICK d : Show(view, d)
      BY <1>2 DEF Navigate
    <2>2. view \in {"week", "day", "month"}
      BY <1>1 DEF CalendarInv
    <2> QED
      BY <1>1, <2>1, <2>2, CalendarShows
  <1>3. CASE SetView
    BY <1>1, <1>3, CalendarShows DEF SetView
  <1>4. CASE ToggleProvider \/ TableChanges
    <2>1. UNCHANGED <<view, day, events, basis, asking, requests>>
      BY <1>4 DEF ToggleProvider, TableChanges
    <2>2. table' \subseteq Events
      BY <1>1, <1>4 DEF CalendarInv, ToggleProvider, TableChanges
    <2> QED
      BY <1>1, <2>1, <2>2 DEF CalendarInv, shellVars, Token, First, Last
  <1>5. ASSUME NEW r \in requests, EventsAnswered(r) PROVE CalendarInv'
    BY <1>1, <1>5, CalendarReads
  <1> QED
    BY <1>2, <1>3, <1>4, <1>5 DEF CalendarStep

\* The token arrives.
LEMMA CalendarArrives ==
    ASSUME CalendarInv, SessionReady, page = "calendar", CalendarSession
    PROVE  CalendarInv'
  <1>1. /\ Fetch(view, day) /\ day \in Nat /\ Token' /\ page' = "calendar"
        /\ UNCHANGED <<table, view, day, basis>>
        /\ requests \subseteq [first : Int, last : Int, ignore : BOOLEAN]
    BY DEF CalendarInv, CalendarSession, SessionReady, Token
  <1> QED
    BY <1>1, FetchFits DEF CalendarInv

\* Nothing happens to the calendar.
LEMMA CalendarKept ==
    ASSUME CalendarInv, UNCHANGED calendarVars,
           page = "calendar" => page' = "calendar" /\ (Token' <=> Token),
           page # "calendar" => page' # "calendar"
    PROVE  CalendarInv'
  BY DEF CalendarInv, calendarVars, CalendarUnmounted, First, Last

LEMMA CalendarNext == AwayInv /\ CalendarInv /\ [Next]_vars => CalendarInv'
  <1> SUFFICES ASSUME AwayInv, CalendarInv, [Next]_vars PROVE CalendarInv'
    OBVIOUS
  <1>1. CASE Mount
    <2>1. CASE Open("calendar") /\ CalendarMount
      BY <2>1, CalendarMounts DEF CalendarInv, Open
    <2>2. CASE UNCHANGED calendarVars /\ page = "none" /\ page' # "calendar"
      BY <2>2, CalendarKept
    <2> QED
      BY <1>1, <2>1, <2>2 DEF Mount, Open, Calendar, Integrations, Status, Device
  <1>2. CASE Unmount
    <2>1. CASE Close /\ CalendarLeave
      BY <2>1 DEF Close, CalendarLeave, CalendarUnmounted, CalendarInv
    <2>2. CASE Close /\ page # "calendar" /\ UNCHANGED calendarVars
      BY <2>2, CalendarKept DEF Close
    <2> QED
      BY <1>2, <2>1, <2>2 DEF Unmount, Calendar, Integrations, Status, Device
  <1>3. CASE Redirected \/ Returned
    BY <1>3, CalendarKept DEF Redirected, Returned, Integrations, AwayInv
  <1>4. CASE SessionReady /\ Session
    <2>1. CASE page = "calendar"
      BY <1>4, <2>1, CalendarArrives DEF Session, Calendar
    <2>2. CASE page # "calendar"
      <3>1. UNCHANGED calendarVars /\ UNCHANGED page
        BY <1>4, <2>2 DEF Session, SessionReady, Calendar, Integrations, Status, Device
      <3> QED
        BY <2>2, <3>1, CalendarKept
    <2> QED
      BY <2>1, <2>2
  <1>5. CASE SessionBroken /\ UNCHANGED calendarVars
    BY <1>5, CalendarKept DEF SessionBroken, Token
  <1>6. CASE PageStep
    <2>1. UNCHANGED shellVars /\ (CalendarStep \/ UNCHANGED calendarVars)
      BY <1>6 DEF PageStep, Calendar, Integrations, Status, Device
    <2> QED
      BY <2>1, CalendarSteps, CalendarKept DEF shellVars, Token
  <1>7. CASE UNCHANGED vars
    BY <1>7, CalendarKept DEF vars, shellVars, Token
  <1> QED
    BY <1>1, <1>2, <1>3, <1>4, <1>5, <1>6, <1>7 DEF Next

\* The days on display show exactly their events, but those of a week's last day, for
\* weeks and months of any length ((dashboard)/page.tsx).
THEOREM ShowsItsDays == Spec => []CalendarComplete
  BY AwayInit, AwayNext, CalendarInit, CalendarNext, CalendarShown, PTL DEF Spec

-----------------------------------------------------------------------------
(* The users and their sessions (Accounts)                                   *)

SigningIn == {"register", "login", "oauth"}

\* The requests and the cookies that occur: whoever signs in has given an email.
NamedJob == {j \in Job : /\ j.op \in SigningIn => j.email \in Emails
                         /\ j.at \in {"find", "create"} => j.op \in SigningIn}
NamedCookie == {c \in Cookie : c.via = "oauth" => c.email \in Emails}

Named == job \in [Browsers -> NamedJob] /\ cookie \in [Browsers -> NamedCookie]

\* The inductive invariant.
AccountsInv == TypeOK /\ Named /\ Revoked

\* An id belongs to one email: EmailOf finds the one that has it.
LEMMA OwnerFound ==
    ASSUME UsersTyped, NEW e \in Emails, account[e].id # 0
    PROVE  Exists(account[e].id) /\ EmailOf(account[e].id) = e
  BY DEF UsersTyped, Exists, EmailOf

\* Whoever exists has an email, an id that has been given, and the password of its row.
LEMMA OwnerKnown ==
    ASSUME UsersTyped, NEW u, Exists(u)
    PROVE  /\ EmailOf(u) \in Emails /\ account[EmailOf(u)].id = u
           /\ u \in Users /\ u <= users
           /\ Pw(u) \in 0 .. MaxPasswords
  <1>1. PICK e \in Emails : account[e].id = u /\ u # 0
    BY DEF Exists
  <1>2. EmailOf(u) = e
    BY <1>1, OwnerFound
  <1>3. account[e] \in Account
    BY <1>1 DEF UsersTyped
  <1>4. account[e].id \in 0 .. MaxUsers /\ account[e].pw \in 0 .. MaxPasswords
    BY <1>3 DEF Account
  <1>5. account[e].id <= users /\ users \in Nat
    BY LimitsAssumption DEF UsersTyped
  <1> QED
    BY <1>1, <1>2, <1>4, <1>5, LimitsAssumption DEF Pw, Users

\* Where a row keeps its id and its password, its user keeps them.
LEMMA OwnerKept ==
    ASSUME UsersTyped, UsersTyped', NEW u, Exists(u),
           account'[EmailOf(u)] = account[EmailOf(u)]
    PROVE  Exists(u)' /\ Pw(u)' = Pw(u)
  <1> DEFINE e == EmailOf(u)
  <1>1. e \in Emails /\ account[e].id = u /\ u # 0
    BY OwnerKnown DEF Users, Exists
  <1>2. account'[e].id = u
    BY <1>1
  <1>3. Exists(u)'
    BY <1>1, <1>2 DEF Exists
  <1>4. EmailOf(u)' = e
    BY <1>1, <1>2 DEF UsersTyped, EmailOf
  <1> QED
    BY <1>3, <1>4 DEF Pw

LEMMA NothingTyped == NoJob \in NamedJob /\ NoCookie \in NamedCookie
  <1>1. 0 \in 0 .. MaxUsers /\ 0 \in 0 .. MaxSessions /\ 0 \in 0 .. MaxPasswords
    BY LimitsAssumption
  <1>2. NoJob \in Job /\ NoJob.op = "none" /\ NoJob.at = "idle"
    BY <1>1 DEF NoJob, Job
  <1>3. NoCookie \in Cookie /\ NoCookie.via = "none"
    BY <1>1 DEF NoCookie, Cookie
  <1> QED
    BY <1>2, <1>3 DEF NamedJob, NamedCookie, SigningIn

LEMMA AccountsInit == InitAccounts => AccountsInv
  <1> SUFFICES ASSUME InitAccounts PROVE AccountsInv
    OBVIOUS
  <1>1. UsersTyped
    BY LimitsAssumption DEF InitAccounts, UsersTyped, NoAccount, Account
  <1>2. SessionsTyped
    BY LimitsAssumption DEF InitAccounts, SessionsTyped
  <1>3. Named
    BY NothingTyped DEF InitAccounts, Named
  <1>4. RequestsTyped
    BY <1>3, LimitsAssumption DEF InitAccounts, Named, NamedJob, NamedCookie, RequestsTyped
  <1>5. Revoked
    BY DEF InitAccounts, Revoked
  <1> QED
    BY <1>1, <1>2, <1>3, <1>4, <1>5 DEF TypeOK, AccountsInv

\* The fields of a request and of a cookie.
LEMMA RequestFields ==
    ASSUME Named, NEW b \in Browsers
    PROVE  /\ job[b] \in NamedJob /\ cookie[b] \in NamedCookie
           /\ job[b] \in Job /\ cookie[b] \in Cookie
           /\ job[b].op \in SigningIn => job[b].email \in Emails
           /\ job[b].at \in {"find", "create"} => job[b].op \in SigningIn
           /\ cookie[b].via = "oauth" => cookie[b].email \in Emails
           /\ job[b].user \in 0 .. MaxUsers /\ job[b].own \in 0 .. MaxSessions
           /\ job[b].seen \in 0 .. MaxPasswords /\ cookie[b].token \in 0 .. MaxSessions
  <1>1. job[b] \in NamedJob /\ cookie[b] \in NamedCookie
    BY DEF Named
  <1>2. job[b] \in Job /\ cookie[b] \in Cookie
    BY <1>1 DEF NamedJob, NamedCookie
  <1>3. /\ job[b].user \in 0 .. MaxUsers /\ job[b].own \in 0 .. MaxSessions
        /\ job[b].seen \in 0 .. MaxPasswords /\ cookie[b].token \in 0 .. MaxSessions
    BY <1>2 DEF Job, Cookie
  <1> QED
    BY <1>1, <1>2, <1>3 DEF NamedJob, NamedCookie

\* What the requests and the cookies become is typed when they stay named.
LEMMA RequestsStayTyped ==
    ASSUME Named', faults' \in 0 .. MaxFaults
    PROVE  RequestsTyped'
  BY DEF Named, NamedJob, NamedCookie, RequestsTyped

\* A change of password stays between its two writes while another request moves on.
LEMMA ChangingKept ==
    ASSUME Named, NEW b \in Browsers, NEW j, job' = [job EXCEPT ![b] = j],
           NEW u, Changing(u), job[b].at # "others" \/ job[b].user # u
    PROVE  Changing(u)'
  <1>1. PICK c \in Browsers : job[c].at = "others" /\ job[c].user = u
    BY DEF Changing
  <1>2. job'[c] = job[c]
    BY <1>1 DEF Named
  <1> QED
    BY <1>1, <1>2 DEF Changing

\* A step of a request that is not between the two writes of a change of password, and
\* that touches no row, disturbs nothing.
LEMMA RequestStep ==
    ASSUME AccountsInv, NEW b \in Browsers, NEW j \in NamedJob, job[b].at # "others",
           job' = [job EXCEPT ![b] = j], cookie' \in [Browsers -> NamedCookie],
           UNCHANGED <<account, users, sessions, opened, faults>>
    PROVE  AccountsInv'
  <1>1. UsersTyped' /\ SessionsTyped'
    BY DEF AccountsInv, TypeOK, UsersTyped, SessionsTyped, Exists
  <1>2. Named'
    BY DEF AccountsInv, Named
  <1>3. RequestsTyped'
    BY <1>2, RequestsStayTyped DEF AccountsInv, TypeOK, RequestsTyped
  <1>4. \A s \in sessions : Changing(s.user) => Changing(s.user)'
    BY ChangingKept DEF AccountsInv
  <1>5. \A s \in sessions : Pw(s.user)' = Pw(s.user)
    BY DEF Pw, EmailOf
  <1>6. Revoked'
    BY <1>4, <1>5 DEF AccountsInv, Revoked
  <1> QED
    BY <1>1, <1>2, <1>3, <1>6 DEF TypeOK, AccountsInv

\* What a failed request leaves in the cookies is typed.
LEMMA CookieAfterFailureNamed ==
    ASSUME Named, NEW b \in Browsers
    PROVE  CookieAfterFailure(b) \in [Browsers -> NamedCookie]
  <1>1. CASE job[b].op = "oauth"
    <2> DEFINE c == [via |-> "oauth", email |-> job[b].email, token |-> 0]
    <2>1. job[b].email \in Emails
      BY <1>1, RequestFields DEF SigningIn
    <2>2. c \in NamedCookie
      BY <2>1, LimitsAssumption DEF NamedCookie, Cookie
    <2> HIDE DEF c
    <2> QED
      BY <1>1, <2>2 DEF c, CookieAfterFailure, Named
  <1>2. CASE job[b].op # "oauth"
    BY <1>2 DEF CookieAfterFailure, Named
  <1> QED
    BY <1>1, <1>2

\* So it is when the request ends, and the cookies stay or are what a failure leaves.
LEMMA RequestEnds ==
    ASSUME AccountsInv, NEW b \in Browsers, job[b].at # "others", Done(b),
           UNCHANGED cookie \/ cookie' = CookieAfterFailure(b),
           UNCHANGED <<account, users, sessions, opened, faults>>
    PROVE  AccountsInv'
  <1>1. CookieAfterFailure(b) \in [Browsers -> NamedCookie]
    BY CookieAfterFailureNamed DEF AccountsInv
  <1>2. cookie' \in [Browsers -> NamedCookie]
    BY <1>1 DEF AccountsInv, Named
  <1> QED
    BY <1>2, NothingTyped, RequestStep DEF Done

-----------------------------------------------------------------------------
(* What the user does                                                        *)

LEMMA AskSteps ==
    ASSUME AccountsInv, NEW b \in Browsers, NEW j \in NamedJob, Ask(b, j)
    PROVE  AccountsInv'
  BY RequestStep DEF Ask, Idle, AccountsInv, Named

\* The requests that a page makes are typed.
LEMMA SignInAsked ==
    ASSUME NEW o \in SigningIn, NEW e \in Emails
    PROVE  [NoJob EXCEPT !.op = o, !.at = "find", !.email = e] \in NamedJob
  <1> DEFINE j == [NoJob EXCEPT !.op = o, !.at = "find", !.email = e]
  <1>1. NoJob \in Job
    BY NothingTyped DEF NamedJob
  <1> HIDE DEF NoJob
  <1>2. j \in Job
    BY <1>1 DEF Job, SigningIn
  <1>3. j.op = o /\ j.email = e
    BY <1>1 DEF Job
  <1> HIDE DEF j
  <1>4. j \in NamedJob
    BY <1>2, <1>3 DEF NamedJob
  <1> QED
    BY <1>4 DEF j

LEMMA PageAsked ==
    ASSUME NEW o \in {"password", "revoke", "delete", "query"}, NEW n \in 0 .. MaxSessions
    PROVE  [NoJob EXCEPT !.op = o, !.at = "guard", !.own = n] \in NamedJob
  <1> DEFINE j == [NoJob EXCEPT !.op = o, !.at = "guard", !.own = n]
  <1>1. NoJob \in Job
    BY NothingTyped DEF NamedJob
  <1> HIDE DEF NoJob
  <1>2. j \in Job
    BY <1>1 DEF Job
  <1>3. j.op = o /\ j.at = "guard"
    BY <1>1 DEF Job
  <1> HIDE DEF j
  <1>4. j \in NamedJob
    BY <1>2, <1>3 DEF NamedJob, SigningIn
  <1> QED
    BY <1>4 DEF j

LEMMA UserSteps ==
    ASSUME AccountsInv, NEW b \in Browsers, UserStep(b) \/ Heal(b)
    PROVE  AccountsInv'
  <1>1. CASE SubmitRegister(b) \/ SubmitLogin(b) \/ OAuthSignIn(b)
    <2>1. PICK o \in {"register", "login", "oauth"}, e \in Emails :
            Ask(b, [NoJob EXCEPT !.op = o, !.at = "find", !.email = e])
      BY <1>1 DEF SubmitRegister, SubmitLogin, OAuthSignIn
    <2> QED
      BY <2>1, SignInAsked, AskSteps DEF SigningIn
  <1>2. CASE Heal(b)
    <2>1. cookie[b].email \in Emails
      BY <1>2, RequestFields DEF AccountsInv, Heal
    <2> QED
      BY <1>2, <2>1, SignInAsked, AskSteps DEF Heal, SigningIn
  <1>3. CASE LoadPage(b) \/ ChangePassword(b) \/ RevokeSession(b) \/ DeleteAccount(b)
    <2>1. PICK o \in {"query", "password", "revoke", "delete"} :
            Ask(b, [NoJob EXCEPT !.op = o, !.at = "guard", !.own = cookie[b].token])
      BY <1>3 DEF LoadPage, ChangePassword, RevokeSession, DeleteAccount, Request
    <2>2. cookie[b].token \in 0 .. MaxSessions
      BY RequestFields DEF AccountsInv
    <2> QED
      BY <2>1, <2>2, PageAsked, AskSteps
  <1>4. CASE SignOut(b)
    <2>1. cookie' \in [Browsers -> NamedCookie]
      BY <1>4, NothingTyped DEF SignOut, AccountsInv, Named
    <2>2. job' = [job EXCEPT ![b] = job[b]] /\ job[b] \in NamedJob
      BY <1>4 DEF SignOut, AccountsInv, Named
    <2> QED
      BY <1>4, <2>1, <2>2, RequestStep DEF SignOut, Idle
  <1> QED
    BY <1>1, <1>2, <1>3, <1>4 DEF UserStep

-----------------------------------------------------------------------------
(* Signing in                                                                *)

LEMMA FindStep ==
    ASSUME AccountsInv, NEW b \in Browsers, Find(b)
    PROVE  AccountsInv'
  <1> DEFINE row == account[job[b].email]
  <1>1. /\ job[b] \in NamedJob /\ job[b] \in Job /\ job[b].at = "find"
        /\ job[b].op \in SigningIn /\ job[b].email \in Emails
    BY RequestFields DEF AccountsInv, Find
  <1>2. row.id \in 0 .. MaxUsers /\ row.pw \in 0 .. MaxPasswords
    BY <1>1 DEF AccountsInv, TypeOK, UsersTyped, Account
  <1>3. UNCHANGED <<account, users, sessions, opened, cookie, faults>>
    BY DEF Find
  <1>4. cookie' \in [Browsers -> NamedCookie]
    BY <1>3 DEF AccountsInv, Named
  <1>5. CASE Goto(b, "create")
    <2>1. [job[b] EXCEPT !.at = "create"] \in NamedJob
      BY <1>1 DEF NamedJob, Job
    <2> QED
      BY <1>1, <1>3, <1>4, <1>5, <2>1, RequestStep DEF Goto
  <1>6. CASE job' = [job EXCEPT ![b].at = "session", ![b].user = row.id, ![b].seen = row.pw]
    <2> DEFINE j == [job[b] EXCEPT !.at = "session", !.user = row.id, !.seen = row.pw]
    <2>1. j \in Job
      BY <1>1, <1>2 DEF Job
    <2>2. j.op = job[b].op /\ j.email = job[b].email
      BY <1>1 DEF Job
    <2>3. j \in NamedJob
      BY <1>1, <2>1, <2>2 DEF NamedJob
    <2>4. job' = [job EXCEPT ![b] = j]
      BY <1>6 DEF AccountsInv, Named
    <2> HIDE DEF j
    <2> QED
      BY <1>1, <1>3, <1>4, <2>3, <2>4, RequestStep
  <1>7. CASE Done(b)
    BY <1>1, <1>3, <1>7, RequestEnds
  <1> QED
    BY <1>5, <1>6, <1>7 DEF Find

\* The new row has an id of its own; nobody else's changes.
LEMMA CreateStep ==
    ASSUME AccountsInv, NEW b \in Browsers, Create(b)
    PROVE  AccountsInv'
  <1>1. PICK e \in Emails, pw \in 0 .. MaxPasswords :
          /\ e = job[b].email /\ account[e].id = 0
          /\ account' = [account EXCEPT ![e] = [id |-> users + 1, pw |-> pw]]
          /\ job' = [job EXCEPT ![b].at = "session", ![b].user = users + 1, ![b].seen = pw]
    <2> DEFINE n == IF job[b].op = "register" THEN 1 ELSE 0
    <2>1. job[b].email \in Emails
      BY RequestFields DEF AccountsInv, Create
    <2>2. n \in Nat /\ n <= MaxPasswords
      BY DEF Create
    <2>3. n \in 0 .. MaxPasswords
      BY <2>2, LimitsAssumption
    <2>4. /\ account[job[b].email].id = 0
          /\ account' = [account EXCEPT ![job[b].email] = [id |-> users + 1, pw |-> n]]
          /\ job' = [job EXCEPT ![b].at = "session", ![b].user = users + 1, ![b].seen = n]
      BY DEF Create, Registered
    <2> HIDE DEF n
    <2> QED
      BY <2>1, <2>3, <2>4
  <1>2. /\ users' = users + 1 /\ users < MaxUsers /\ job[b].at = "create"
        /\ UNCHANGED <<sessions, opened, cookie, faults>>
    BY DEF Create
  <1>3. users \in Nat /\ users' \in 0 .. MaxUsers /\ users + 1 \in 0 .. MaxUsers
    BY <1>2, LimitsAssumption DEF AccountsInv, TypeOK, UsersTyped
  <1>4. UsersTyped'
    <2>1. [id |-> users + 1, pw |-> pw] \in Account
      BY <1>1, <1>3 DEF Account
    <2>2. account' \in [Emails -> Account]
      BY <1>1, <2>1 DEF AccountsInv, TypeOK, UsersTyped
    <2>3. \A f \in Emails : account[f].id \in Nat /\ account[f].id <= users
      BY DEF AccountsInv, TypeOK, UsersTyped, Account
    <2>4. account'[e].id = users + 1 /\ \A f \in Emails \ {e} : account'[f] = account[f]
      BY <1>1 DEF AccountsInv, TypeOK, UsersTyped
    <2>5. \A f \in Emails : account'[f].id <= users'
      BY <1>2, <1>3, <2>3, <2>4
    <2>6. \A f, g \in Emails :
            account'[f].id = account'[g].id => f = g \/ account'[f].id = 0
      BY <1>3, <2>3, <2>4 DEF AccountsInv, TypeOK, UsersTyped
    <2> QED
      BY <1>3, <2>2, <2>5, <2>6 DEF UsersTyped
  <1>5. \A s \in sessions : Exists(s.user)' /\ Pw(s.user)' = Pw(s.user)
    <2> SUFFICES ASSUME NEW s \in sessions PROVE Exists(s.user)' /\ Pw(s.user)' = Pw(s.user)
      OBVIOUS
    <2>1. Exists(s.user) /\ UsersTyped
      BY DEF AccountsInv, TypeOK, SessionsTyped
    <2>2. EmailOf(s.user) \in Emails \ {e}
      BY <1>1, <2>1, OwnerKnown DEF Exists
    <2>3. account'[EmailOf(s.user)] = account[EmailOf(s.user)]
      BY <1>1, <2>2 DEF AccountsInv, TypeOK, UsersTyped
    <2> QED
      BY <1>4, <2>1, <2>3, OwnerKept
  <1>6. PICK j : /\ j = [job[b] EXCEPT !.at = "session", !.user = users + 1, !.seen = pw]
                 /\ job' = [job EXCEPT ![b] = j]
    BY <1>1 DEF AccountsInv, Named
  <1>7. Named'
    <2>1. job[b] \in NamedJob /\ job[b] \in Job
      BY RequestFields DEF AccountsInv
    <2>2. j \in Job
      BY <1>3, <1>6, <2>1 DEF Job
    <2>3. j.op = job[b].op /\ j.email = job[b].email /\ j.at = "session"
      BY <1>6, <2>1 DEF Job
    <2>4. j \in NamedJob
      BY <2>1, <2>2, <2>3 DEF NamedJob
    <2> QED
      BY <1>2, <1>6, <2>4 DEF AccountsInv, Named
  <1>8. SessionsTyped'
    BY <1>2, <1>5 DEF AccountsInv, TypeOK, SessionsTyped
  <1>9. RequestsTyped'
    BY <1>2, <1>7, RequestsStayTyped DEF AccountsInv, TypeOK, RequestsTyped
  <1>10. Revoked'
    <2>1. \A s \in sessions : Changing(s.user) => Changing(s.user)'
      BY <1>2, <1>6, ChangingKept DEF AccountsInv
    <2> QED
      BY <1>2, <1>5, <2>1 DEF AccountsInv, Revoked
  <1> QED
    BY <1>4, <1>7, <1>8, <1>9, <1>10 DEF AccountsInv, TypeOK

LEMMA CreateRefusedStep ==
    ASSUME AccountsInv, NEW b \in Browsers, CreateRefused(b)
    PROVE  AccountsInv'
  BY RequestEnds DEF CreateRefused

LEMMA UserGoneStep ==
    ASSUME AccountsInv, NEW b \in Browsers, UserGone(b)
    PROVE  AccountsInv'
  BY RequestEnds DEF UserGone

\* A session that a login inserts with a password that is no longer the user's: a change
\* has not deleted the others yet, or the session is one that it spared.
LEMMA OpenSessionStep ==
    ASSUME AccountsInv, NEW b \in Browsers, OpenSession(b)
    PROVE  AccountsInv'
  <1> DEFINE u == job[b].user
  <1>1. PICK new : new = [id |-> opened + 1, user |-> u, seen |-> job[b].seen, kept |-> FALSE,
                          spared |-> job[b].seen # Pw(u) /\ ~Changing(u)]
    OBVIOUS
  <1>2. /\ job[b].at = "session" /\ Exists(u) /\ opened < MaxSessions
        /\ opened' = opened + 1 /\ sessions' = sessions \cup {new}
        /\ UNCHANGED <<account, users, cookie, faults>>
    BY <1>1 DEF OpenSession
  <1>3. PICK j : /\ j = [job[b] EXCEPT !.at = "answer", !.own = opened + 1]
                 /\ job' = [job EXCEPT ![b] = j]
    BY DEF OpenSession, AccountsInv, Named
  <1>4. /\ opened \in Nat /\ opened' \in 0 .. MaxSessions
        /\ opened + 1 \in 0 .. MaxSessions /\ opened + 1 \in 1 .. MaxSessions
    BY <1>2, LimitsAssumption DEF AccountsInv, TypeOK, SessionsTyped
  <1>5. UsersTyped'
    BY <1>2 DEF AccountsInv, TypeOK, UsersTyped
  <1>6. u \in Users
    BY <1>2, OwnerKnown DEF AccountsInv, TypeOK
  <1>7. SessionsTyped'
    <2>1. new \in SessionRow
      <3>1. job[b].seen \in 0 .. MaxPasswords /\ opened + 1 \in Tokens
        BY <1>4, RequestFields DEF AccountsInv, Tokens
      <3>2. (job[b].seen # Pw(u) /\ ~Changing(u)) \in BOOLEAN
        OBVIOUS
      <3> HIDE DEF u
      <3> QED
        BY <1>1, <1>6, <3>1, <3>2 DEF SessionRow
    <2>2. new.id = opened + 1 /\ new.user = u
      BY <1>1
    <2>3. \A s \in sessions : s.id \in Nat /\ s.id <= opened /\ Exists(s.user)
      BY DEF AccountsInv, TypeOK, SessionsTyped, SessionRow, Tokens
    <2>4. \A s \in sessions' : s.id <= opened' /\ Exists(s.user)'
      BY <1>2, <1>4, <2>2, <2>3 DEF Exists
    <2>5. \A s, t \in sessions' : s.id = t.id => s = t
      BY <1>2, <1>4, <2>2, <2>3 DEF AccountsInv, TypeOK, SessionsTyped
    <2> QED
      BY <1>2, <1>4, <2>1, <2>4, <2>5 DEF AccountsInv, TypeOK, SessionsTyped
  <1>8. Named'
    <2>1. job[b] \in NamedJob /\ job[b] \in Job
      BY RequestFields DEF AccountsInv
    <2>2. j \in Job
      BY <1>3, <1>4, <2>1 DEF Job
    <2>3. j.op = job[b].op /\ j.email = job[b].email /\ j.at = "answer"
      BY <1>3, <2>1 DEF Job
    <2>4. j \in NamedJob
      BY <2>1, <2>2, <2>3 DEF NamedJob
    <2> QED
      BY <1>2, <1>3, <2>4 DEF AccountsInv, Named
  <1>9. RequestsTyped'
    BY <1>2, <1>8, RequestsStayTyped DEF AccountsInv, TypeOK, RequestsTyped
  <1>10. Revoked'
    <2>1. \A w : Changing(w) => Changing(w)'
      BY <1>2, <1>3, ChangingKept DEF AccountsInv
    <2>2. \A w : Pw(w)' = Pw(w)
      BY <1>2 DEF Pw, EmailOf
    <2>3. new.user = u /\ (new.seen = Pw(u) \/ new.spared \/ Changing(u))
      BY <1>1
    <2> HIDE DEF u
    <2> QED
      BY <1>2, <2>1, <2>2, <2>3 DEF AccountsInv, Revoked
  <1> QED
    BY <1>5, <1>7, <1>8, <1>9, <1>10 DEF AccountsInv, TypeOK

LEMMA AnswerStep ==
    ASSUME AccountsInv, NEW b \in Browsers, Answer(b)
    PROVE  AccountsInv'
  <1>1. /\ job[b].at = "answer" /\ job[b].at # "others"
        /\ UNCHANGED <<account, users, sessions, opened, faults>>
    BY DEF Answer
  <1>2. CASE job[b].op = "register"
    <2> DEFINE j == [NoJob EXCEPT !.op = "login", !.at = "find", !.email = job[b].email]
    <2>1. job' = [job EXCEPT ![b] = j] /\ UNCHANGED cookie
      BY <1>2 DEF Answer
    <2>2. job[b].email \in Emails
      BY <1>2, RequestFields DEF AccountsInv, SigningIn
    <2>3. j \in NamedJob
      BY <2>2, SignInAsked DEF SigningIn
    <2> HIDE DEF j
    <2> QED
      BY <1>1, <2>1, <2>3, RequestStep DEF AccountsInv, Named
  <1>3. CASE job[b].op # "register"
    <2> DEFINE c == [via |-> IF job[b].op = "oauth" THEN "oauth" ELSE "password",
                     email |-> job[b].email, token |-> job[b].own]
    <2>1. cookie' = [cookie EXCEPT ![b] = c] /\ Done(b)
      BY <1>3 DEF Answer
    <2>2. /\ job[b].email \in Emails \cup {Nobody} /\ job[b].own \in 0 .. MaxSessions
          /\ job[b].op = "oauth" => job[b].email \in Emails
      BY RequestFields DEF AccountsInv, Job, SigningIn
    <2>3. c \in NamedCookie
      BY <2>2 DEF Cookie, NamedCookie
    <2> HIDE DEF c
    <2>4. cookie' \in [Browsers -> NamedCookie]
      BY <2>1, <2>3 DEF AccountsInv, Named
    <2> QED
      BY <1>1, <2>1, <2>4, NothingTyped, RequestStep DEF Done
  <1> QED
    BY <1>2, <1>3

LEMMA SignInSteps ==
    ASSUME AccountsInv, NEW b \in Browsers, SignInStep(b)
    PROVE  AccountsInv'
  BY FindStep, CreateStep, CreateRefusedStep, OpenSessionStep, UserGoneStep, AnswerStep
     DEF SignInStep
-----------------------------------------------------------------------------
(* Requests with a token                                                     *)

LEMMA GuardStep ==
    ASSUME AccountsInv, NEW b \in Browsers, Guard(b)
    PROVE  AccountsInv'
  <1>1. PICK s \in sessions, p \in {"verify", "run"} :
          job' = [job EXCEPT ![b].user = s.user, ![b].at = p]
    BY DEF Guard
  <1>2. /\ job[b].at = "guard" /\ job[b] \in NamedJob /\ job[b] \in Job
        /\ UNCHANGED <<account, users, sessions, opened, cookie, faults>>
    BY RequestFields DEF AccountsInv, Guard
  <1>3. PICK j : j = [job[b] EXCEPT !.user = s.user, !.at = p] /\ job' = [job EXCEPT ![b] = j]
    BY <1>1 DEF AccountsInv, Named
  <1>4. s.user \in 0 .. MaxUsers
    BY LimitsAssumption DEF AccountsInv, TypeOK, SessionsTyped, SessionRow, Users
  <1>5. j \in Job /\ j.op = job[b].op /\ j.email = job[b].email /\ j.at = p
    BY <1>2, <1>3, <1>4 DEF Job
  <1>6. j \in NamedJob
    BY <1>2, <1>5 DEF NamedJob
  <1> QED
    BY <1>2, <1>3, <1>6, RequestStep DEF AccountsInv, Named

LEMMA VerifyStep ==
    ASSUME AccountsInv, NEW b \in Browsers, Verify(b)
    PROVE  AccountsInv'
  <1>1. /\ job[b].at = "verify" /\ job[b] \in NamedJob /\ job[b] \in Job
        /\ UNCHANGED <<account, users, sessions, opened, cookie, faults>>
    BY RequestFields DEF AccountsInv, Verify
  <1>2. CASE Done(b)
    BY <1>1, <1>2, RequestEnds
  <1>3. CASE /\ Exists(job[b].user)
             /\ job' = [job EXCEPT ![b].at = "update", ![b].seen = Pw(job[b].user)]
    <2>1. PICK n : n = Pw(job[b].user) /\ n \in 0 .. MaxPasswords
      BY <1>3, OwnerKnown DEF AccountsInv, TypeOK
    <2>2. PICK j : j = [job[b] EXCEPT !.at = "update", !.seen = n] /\ job' = [job EXCEPT ![b] = j]
      BY <1>3, <2>1 DEF AccountsInv, Named
    <2>3. j \in Job /\ j.op = job[b].op /\ j.email = job[b].email /\ j.at = "update"
      BY <1>1, <2>1, <2>2 DEF Job
    <2>4. j \in NamedJob
      BY <1>1, <2>3 DEF NamedJob
    <2> QED
      BY <1>1, <2>2, <2>4, RequestStep DEF AccountsInv, Named
  <1> QED
    BY <1>2, <1>3 DEF Verify

\* The other sessions have an older password now, and the change is between its writes.
LEMMA UpdatePasswordStep ==
    ASSUME AccountsInv, NEW b \in Browsers, UpdatePassword(b)
    PROVE  AccountsInv'
  <1>0. PICK u, e : u = job[b].user /\ e = EmailOf(u)
    OBVIOUS
  <1>1. PICK n \in Passwords :
          /\ u = job[b].user /\ e = EmailOf(u) /\ Exists(u)
          /\ account' = [account EXCEPT ![e].pw = n]
    BY <1>0 DEF UpdatePassword
  <1>2. /\ job[b].at = "update" /\ Goto(b, "others")
        /\ UNCHANGED <<users, sessions, opened, cookie, faults>>
    BY DEF UpdatePassword
  <1>3. e \in Emails /\ account[e].id = u /\ u # 0 /\ account[e] \in Account
    BY <1>1, OwnerKnown DEF AccountsInv, TypeOK, UsersTyped, Users
  <1>4. n \in 0 .. MaxPasswords
    BY LimitsAssumption DEF Passwords
  <1>5. PICK row : row = [account[e] EXCEPT !.pw = n] /\ account' = [account EXCEPT ![e] = row]
    BY <1>1 DEF AccountsInv, TypeOK, UsersTyped
  <1>6. row \in Account /\ row.id = u
    BY <1>3, <1>4, <1>5 DEF Account
  <1>7. UsersTyped'
    <2>1. \A f \in Emails : account'[f].id = account[f].id
      BY <1>3, <1>5, <1>6 DEF AccountsInv, TypeOK, UsersTyped
    <2>2. account' \in [Emails -> Account]
      BY <1>5, <1>6 DEF AccountsInv, TypeOK, UsersTyped
    <2> QED
      BY <1>2, <2>1, <2>2 DEF AccountsInv, TypeOK, UsersTyped
  <1>8. \A w : Exists(w) => Exists(w)'
    <2>1. \A f \in Emails : account'[f].id = account[f].id
      BY <1>3, <1>5, <1>6 DEF AccountsInv, TypeOK, UsersTyped
    <2> QED
      BY <2>1 DEF Exists
  <1>9. \A w : Exists(w) /\ w # u => Pw(w)' = Pw(w)
    <2> SUFFICES ASSUME NEW w, Exists(w), w # u PROVE Pw(w)' = Pw(w)
      OBVIOUS
    <2>1. EmailOf(w) \in Emails /\ EmailOf(w) # e
      BY <1>3, OwnerKnown DEF AccountsInv, TypeOK
    <2>2. account'[EmailOf(w)] = account[EmailOf(w)]
      BY <1>5, <2>1 DEF AccountsInv, TypeOK, UsersTyped
    <2> QED
      BY <1>7, <2>2, OwnerKept DEF AccountsInv, TypeOK
  <1>10. PICK j : j = [job[b] EXCEPT !.at = "others"] /\ job' = [job EXCEPT ![b] = j]
    BY <1>2 DEF Goto, AccountsInv, Named
  <1>11. /\ job[b] \in NamedJob /\ j \in Job /\ j.op = job[b].op
         /\ j.email = job[b].email /\ j.at = "others" /\ j.user = u
    BY <1>1, <1>10, RequestFields DEF AccountsInv, Job
  <1>12. Named'
    <2>1. j \in NamedJob
      BY <1>11 DEF NamedJob
    <2> QED
      BY <1>2, <1>10, <2>1 DEF AccountsInv, Named
  <1>13. SessionsTyped'
    BY <1>2, <1>8 DEF AccountsInv, TypeOK, SessionsTyped
  <1>14. RequestsTyped'
    BY <1>2, <1>12, RequestsStayTyped DEF AccountsInv, TypeOK, RequestsTyped
  <1>15. Revoked'
    <2>1. Changing(u)'
      <3>1. job'[b] = j
        BY <1>10 DEF AccountsInv, Named
      <3> QED
        BY <1>11, <3>1 DEF Changing
    <2>2. \A w : Changing(w) => Changing(w)'
      BY <1>2, <1>10, ChangingKept DEF AccountsInv
    <2>3. \A s \in sessions : Exists(s.user)
      BY DEF AccountsInv, TypeOK, SessionsTyped
    <2> QED
      BY <1>2, <1>9, <2>1, <2>2, <2>3 DEF AccountsInv, Revoked
  <1> QED
    BY <1>7, <1>12, <1>13, <1>14, <1>15 DEF AccountsInv, TypeOK

\* A request ends that may be between the two writes of a change for user u; the
\* sessions that are left are rows that were there, of u or marked in one of two ways.
LEMMA RowsGo ==
    ASSUME AccountsInv, NEW b \in Browsers, NEW u, u = job[b].user, Done(b),
           cookie' \in [Browsers -> NamedCookie], faults' \in 0 .. MaxFaults,
           UNCHANGED <<account, users, opened>>,
           \A r \in sessions' : \E s \in sessions :
             \/ r = s /\ (s.user # u \/ job[b].at # "others")
             \/ s.user = u /\ r = [s EXCEPT !.kept = TRUE]
             \/ s.user = u /\ r = [s EXCEPT !.spared = TRUE],
           \A r, t \in sessions' : r.id = t.id => r = t
    PROVE  AccountsInv'
  <1>1. UsersTyped'
    BY DEF AccountsInv, TypeOK, UsersTyped
  <1>2. ASSUME NEW r \in sessions'
        PROVE  /\ r \in SessionRow /\ r.id <= opened /\ Exists(r.user)
               /\ r.seen = Pw(r.user) \/ r.kept \/ r.spared
                  \/ (Changing(r.user) /\ (r.user # u \/ job[b].at # "others"))
    <2>1. PICK s \in sessions :
             \/ r = s /\ (s.user # u \/ job[b].at # "others")
             \/ s.user = u /\ r = [s EXCEPT !.kept = TRUE]
             \/ s.user = u /\ r = [s EXCEPT !.spared = TRUE]
      OBVIOUS
    <2>2. /\ s \in SessionRow /\ s.id <= opened /\ Exists(s.user)
          /\ s.seen = Pw(s.user) \/ s.kept \/ s.spared \/ Changing(s.user)
      BY DEF AccountsInv, TypeOK, SessionsTyped, Revoked
    <2>3. CASE r = s /\ (s.user # u \/ job[b].at # "others")
      BY <2>2, <2>3
    <2>4. CASE r = [s EXCEPT !.kept = TRUE]
      <3>1. r \in SessionRow /\ r.id = s.id /\ r.user = s.user /\ r.kept
        BY <2>2, <2>4 DEF SessionRow
      <3> QED
        BY <2>2, <3>1
    <2>5. CASE r = [s EXCEPT !.spared = TRUE]
      <3>1. r \in SessionRow /\ r.id = s.id /\ r.user = s.user /\ r.spared
        BY <2>2, <2>5 DEF SessionRow
      <3> QED
        BY <2>2, <3>1
    <2> QED
      BY <2>1, <2>3, <2>4, <2>5
  <1>3. SessionsTyped'
    BY <1>2 DEF AccountsInv, TypeOK, SessionsTyped, Exists
  <1>4. Named'
    BY NothingTyped DEF Done, AccountsInv, Named
  <1>5. RequestsTyped'
    BY <1>4, RequestsStayTyped
  <1>6. Revoked'
    <2>1. \A w : Pw(w)' = Pw(w)
      BY DEF Pw, EmailOf
    <2>2. \A w : Changing(w) /\ (w # u \/ job[b].at # "others") => Changing(w)'
      BY ChangingKept DEF Done, AccountsInv
    <2> QED
      BY <1>2, <2>1, <2>2 DEF Revoked
  <1> QED
    BY <1>1, <1>3, <1>4, <1>5, <1>6 DEF AccountsInv, TypeOK
LEMMA DeleteOthersStep ==
    ASSUME AccountsInv, NEW b \in Browsers, DeleteOthers(b)
    PROVE  AccountsInv'
  <1>1. PICK u : u = job[b].user
    OBVIOUS
  <1>2. /\ sessions' = {IF s.user = u THEN [s EXCEPT !.kept = TRUE] ELSE s :
                          s \in {t \in sessions : t.user # u \/ t.id = job[b].own}}
        /\ Done(b) /\ UNCHANGED <<account, users, opened, cookie, faults>>
    BY <1>1 DEF DeleteOthers
  <1>3. \A r \in sessions' : \E s \in sessions :
           \/ r = s /\ s.user # u
           \/ s.user = u /\ r = [s EXCEPT !.kept = TRUE]
    BY <1>2
  <1>4. \A r \in sessions' : \E s \in sessions :
           r.id = s.id /\ r = IF s.user = u THEN [s EXCEPT !.kept = TRUE] ELSE s
    BY <1>2 DEF AccountsInv, TypeOK, SessionsTyped, SessionRow
  <1>5. \A r, t \in sessions' : r.id = t.id => r = t
    <2> SUFFICES ASSUME NEW r \in sessions', NEW t \in sessions', r.id = t.id PROVE r = t
      OBVIOUS
    <2>1. PICK p \in sessions : r.id = p.id /\ r = IF p.user = u THEN [p EXCEPT !.kept = TRUE] ELSE p
      BY <1>4
    <2>2. PICK q \in sessions : t.id = q.id /\ t = IF q.user = u THEN [q EXCEPT !.kept = TRUE] ELSE q
      BY <1>4
    <2>3. p = q
      BY <2>1, <2>2 DEF AccountsInv, TypeOK, SessionsTyped
    <2> QED
      BY <2>1, <2>2, <2>3
  <1>6. cookie' \in [Browsers -> NamedCookie] /\ faults' \in 0 .. MaxFaults
    BY <1>2 DEF AccountsInv, Named, TypeOK, RequestsTyped
  <1> QED
    BY <1>1, <1>2, <1>3, <1>5, <1>6, RowsGo

LEMMA RunRevokeStep ==
    ASSUME AccountsInv, NEW b \in Browsers, RunRevoke(b)
    PROVE  AccountsInv'
  <1>1. /\ sessions' \subseteq sessions /\ Done(b) /\ job[b].at # "others"
        /\ UNCHANGED <<account, users, opened, cookie, faults>>
    BY DEF RunRevoke
  <1>2. \A r, t \in sessions' : r.id = t.id => r = t
    BY <1>1 DEF AccountsInv, TypeOK, SessionsTyped
  <1>3. cookie' \in [Browsers -> NamedCookie] /\ faults' \in 0 .. MaxFaults
    BY <1>1 DEF AccountsInv, Named, TypeOK, RequestsTyped
  <1> QED
    BY <1>1, <1>2, <1>3, RowsGo

\* The request, or the API, fails; a change between its writes spares the sessions.
LEMMA FailsStep ==
    ASSUME AccountsInv, NEW b \in Browsers, Fails(b)
    PROVE  AccountsInv'
  <1>1. PICK u : u = job[b].user
    OBVIOUS
  <1>2. /\ sessions' = IF job[b].at = "others"
                       THEN {IF s.user = u THEN [s EXCEPT !.spared = TRUE] ELSE s : s \in sessions}
                       ELSE sessions
        /\ Done(b) /\ cookie' = CookieAfterFailure(b) /\ Fault
        /\ UNCHANGED <<account, users, opened>>
    BY <1>1 DEF Fails
  <1>3. \A r \in sessions' : \E s \in sessions :
           \/ r = s /\ (s.user # u \/ job[b].at # "others")
           \/ s.user = u /\ r = [s EXCEPT !.kept = TRUE]
           \/ s.user = u /\ r = [s EXCEPT !.spared = TRUE]
    BY <1>2
  <1>4. \A r, t \in sessions' : r.id = t.id => r = t
    <2>1. CASE job[b].at = "others"
      <3>1. \A r \in sessions' : \E s \in sessions :
               r.id = s.id /\ r = IF s.user = u THEN [s EXCEPT !.spared = TRUE] ELSE s
        BY <1>2, <2>1 DEF AccountsInv, TypeOK, SessionsTyped, SessionRow
      <3> SUFFICES ASSUME NEW r \in sessions', NEW t \in sessions', r.id = t.id PROVE r = t
        OBVIOUS
      <3>2. PICK p \in sessions : r.id = p.id /\ r = IF p.user = u THEN [p EXCEPT !.spared = TRUE] ELSE p
        BY <3>1
      <3>3. PICK q \in sessions : t.id = q.id /\ t = IF q.user = u THEN [q EXCEPT !.spared = TRUE] ELSE q
        BY <3>1
      <3>4. p = q
        BY <3>2, <3>3 DEF AccountsInv, TypeOK, SessionsTyped
      <3> QED
        BY <3>2, <3>3, <3>4
    <2>2. CASE job[b].at # "others"
      BY <1>2, <2>2 DEF AccountsInv, TypeOK, SessionsTyped
    <2> QED
      BY <2>1, <2>2
  <1>5. cookie' \in [Browsers -> NamedCookie]
    BY <1>2, CookieAfterFailureNamed DEF AccountsInv
  <1>6. faults' \in 0 .. MaxFaults
    BY <1>2, LimitsAssumption DEF Fault, AccountsInv, TypeOK, RequestsTyped
  <1> QED
    BY <1>1, <1>2, <1>3, <1>4, <1>5, <1>6, RowsGo

\* The user's row goes and its sessions with it; nobody else's row changes.
LEMMA RunDeleteStep ==
    ASSUME AccountsInv, NEW b \in Browsers, RunDelete(b)
    PROVE  AccountsInv'
  <1>1. PICK u, e : u = job[b].user /\ e = EmailOf(u)
    OBVIOUS
  <1>2. /\ job[b].at = "run" /\ Done(b) /\ UNCHANGED <<users, opened>>
        /\ cookie' = cookie \/ cookie' = [cookie EXCEPT ![b] = NoCookie]
        /\ UNCHANGED faults \/ Fault
    BY DEF RunDelete
  <1>3. cookie' \in [Browsers -> NamedCookie]
    BY <1>2, NothingTyped DEF AccountsInv, Named
  <1>4. faults' \in 0 .. MaxFaults
    BY <1>2, LimitsAssumption DEF Fault, AccountsInv, TypeOK, RequestsTyped
  <1>5. CASE UNCHANGED <<account, sessions, cookie, faults>>
    BY <1>2, <1>5, RequestEnds
  <1>6. CASE Exists(u) /\ RemoveUser(u)
    <2>1. e \in Emails /\ account[e].id = u /\ u # 0
      BY <1>1, <1>6, OwnerKnown DEF AccountsInv, TypeOK, Users
    <2>2. account' = [account EXCEPT ![e] = NoAccount] /\ sessions' = {s \in sessions : s.user # u}
      BY <1>1, <1>6 DEF RemoveUser
    <2>3. UsersTyped'
      <3>1. NoAccount \in Account /\ NoAccount.id = 0
        BY LimitsAssumption DEF NoAccount, Account
      <3>2. users \in Nat
        BY LimitsAssumption DEF AccountsInv, TypeOK, UsersTyped
      <3> HIDE DEF NoAccount
      <3>3. account' \in [Emails -> Account]
        BY <2>2, <3>1 DEF AccountsInv, TypeOK, UsersTyped
      <3>4. \A f \in Emails : account'[f].id = 0 \/ account'[f] = account[f]
        BY <2>2, <3>1 DEF AccountsInv, TypeOK, UsersTyped
      <3>5. \A f \in Emails : account'[f].id <= users
        BY <3>2, <3>4 DEF AccountsInv, TypeOK, UsersTyped
      <3>6. \A f, g \in Emails : account'[f].id = account'[g].id => f = g \/ account'[f].id = 0
        BY <3>4 DEF AccountsInv, TypeOK, UsersTyped
      <3> QED
        BY <1>2, <3>3, <3>5, <3>6 DEF AccountsInv, TypeOK, UsersTyped
    <2>4. \A s \in sessions' : Exists(s.user)' /\ Pw(s.user)' = Pw(s.user)
      <3> SUFFICES ASSUME NEW s \in sessions, s.user # u
                   PROVE Exists(s.user)' /\ Pw(s.user)' = Pw(s.user)
        BY <2>2
      <3>1. Exists(s.user)
        BY DEF AccountsInv, TypeOK, SessionsTyped
      <3>2. EmailOf(s.user) \in Emails /\ EmailOf(s.user) # e
        BY <2>1, <3>1, OwnerKnown DEF AccountsInv, TypeOK
      <3>3. account'[EmailOf(s.user)] = account[EmailOf(s.user)]
        BY <2>2, <3>2 DEF AccountsInv, TypeOK, UsersTyped
      <3> QED
        BY <2>3, <3>1, <3>3, OwnerKept DEF AccountsInv, TypeOK
    <2>5. SessionsTyped'
      BY <1>2, <2>2, <2>4 DEF AccountsInv, TypeOK, SessionsTyped
    <2>6. Named'
      BY <1>2, <1>3, NothingTyped DEF Done, AccountsInv, Named
    <2>7. RequestsTyped'
      BY <1>4, <2>6, RequestsStayTyped
    <2>8. Revoked'
      <3>1. \A w : Changing(w) => Changing(w)'
        BY <1>2, ChangingKept DEF Done, AccountsInv
      <3> QED
        BY <2>2, <2>4, <3>1 DEF AccountsInv, Revoked
    <2> QED
      BY <2>3, <2>5, <2>6, <2>7, <2>8 DEF AccountsInv, TypeOK
  <1> QED
    BY <1>1, <1>5, <1>6 DEF RunDelete

LEMMA HandlerSteps ==
    ASSUME AccountsInv, NEW b \in Browsers, HandlerStep(b)
    PROVE  AccountsInv'
  <1>1. CASE GuardRefuses(b) \/ UpdateRefused(b) \/ RunQuery(b)
    BY <1>1, RequestEnds DEF GuardRefuses, UpdateRefused, RunQuery
  <1> QED
    BY <1>1, GuardStep, VerifyStep, UpdatePasswordStep, DeleteOthersStep, RunRevokeStep,
       RunDeleteStep DEF HandlerStep

LEMMA AccountsNext == AccountsInv /\ [NextAccounts]_accountsVars => AccountsInv'
  <1> SUFFICES ASSUME AccountsInv, [NextAccounts]_accountsVars PROVE AccountsInv'
    OBVIOUS
  <1>1. ASSUME NEW b \in Browsers, SignInStep(b) PROVE AccountsInv'
    BY <1>1, SignInSteps
  <1>2. ASSUME NEW b \in Browsers, HandlerStep(b) PROVE AccountsInv'
    BY <1>2, HandlerSteps
  <1>3. ASSUME NEW b \in Browsers, UserStep(b) \/ Heal(b) PROVE AccountsInv'
    BY <1>3, UserSteps
  <1>4. ASSUME NEW b \in Browsers, Fails(b) PROVE AccountsInv'
    BY <1>4, FailsStep
  <1>5. ASSUME NEW b \in Browsers, Bounded(b) PROVE AccountsInv'
    BY <1>5, RequestEnds DEF Bounded
  <1>6. CASE UNCHANGED accountsVars
    BY <1>6 DEF accountsVars, AccountsInv, TypeOK, UsersTyped, SessionsTyped, RequestsTyped,
                Exists, Named, Revoked, Pw, EmailOf, Changing
  <1> QED
    BY <1>1, <1>2, <1>3, <1>4, <1>5, <1>6 DEF NextAccounts

\* Types; in particular ids are given once, and the sessions of a user who deletes the
\* account, whatever else goes on, go with it (auth.service.ts, users.service.ts).
THEOREM AccountsTyped == SpecAccounts => []TypeOK
  BY AccountsInit, AccountsNext, PTL DEF SpecAccounts, AccountsInv

\* A session that a login opened with an older password outlives a change of password
\* only if the change spared it, failed, or had already done its deletion (users.service.ts).
THEOREM OthersRevoked == SpecAccounts => []Revoked
  BY AccountsInit, AccountsNext, PTL DEF SpecAccounts, AccountsInv
=============================================================================
