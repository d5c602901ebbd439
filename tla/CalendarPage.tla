---------------------------- MODULE CalendarPage ----------------------------
(***************************************************************************)
(* The calendar of the dashboard ((dashboard)/page.tsx) and the endpoint   *)
(* it reads (calendar.service.ts).                                         *)
(*                                                                         *)
(* Instant 2d is the first of day d, 2d + 1 stands for the rest of the     *)
(* day.  Weeks and months partition the days.  A request is answered from  *)
(* the table as it is then; the table may change at any time (CalendarSync *)
(* says how).                                                              *)
(***************************************************************************)
EXTENDS Shell, Integers, FiniteSets

CONSTANTS
    Events,        \* what may be in the table: [at, provider]
    DaysPerWeek, DaysPerMonth,
    Today,
    LastDay,       \* bound: the user looks at the days 0 .. LastDay
    MaxRequests    \* bound: requests in flight

ASSUME CalendarAssumption ==
    /\ DaysPerWeek \in Nat \ {0} /\ DaysPerMonth \in Nat \ {0}
    /\ LastDay \in Nat /\ Today \in 0 .. LastDay /\ MaxRequests \in Nat
    /\ \A e \in Events : e.at \in Nat

VARIABLES
    table,       \* the user's rows of CalendarEvent, while the page is mounted
    view, day,   \* view, currentDate
    events,      \* the page's events
    basis,       \* history: the table they were read from
    active,      \* activeProviders
    asking,      \* loading
    requests     \* GET /calendar/events in flight

calendarVars == <<table, view, day, events, basis, active, asking, requests>>

\* The keys of PROVIDER_COLORS: the providers that have a button.
Coloured == {"google", "microsoft", "slack"}

DayOf(e) == e.at \div 2

WeekStart(d)  == d - (d % DaysPerWeek)
MonthStart(d) == d - (d % DaysPerMonth)
WeekEnd(d)    == WeekStart(d) + DaysPerWeek - 1
MonthEnd(d)   == MonthStart(d) + DaysPerMonth - 1

\* The days that each view shows.
WeekView(d)  == WeekStart(d) .. WeekEnd(d)
DayView(d)   == {d}
MonthView(d) == MonthStart(d) .. MonthEnd(d)

Displayed ==
    CASE view = "week"  -> WeekView(day)
      [] view = "day"   -> DayView(day)
      [] view = "month" -> MonthView(day)

\* getEventsForDay().
EventsForDay(d) == {e \in events : e.provider \in active /\ DayOf(e) = d}

\* getEvents() of the API, without its filter of providers, which the page does not use.
Between(first, last) == {e \in table : first <= e.at /\ e.at <= last}

\* The range asked for.  That of a week ends where its last day begins.
First(v, d) == 2 * IF v = "month" THEN MonthStart(d) ELSE WeekStart(d)
Last(v, d)  == IF v = "month" THEN 2 * MonthEnd(d) + 1 ELSE 2 * WeekEnd(d)

-----------------------------------------------------------------------------
CalendarUnmounted ==
    /\ table = {} /\ view = "week" /\ day = Today /\ events = {} /\ basis = {}
    /\ active = Coloured /\ asking = TRUE /\ requests = {}

\* The page is left: its state is gone.
CalendarLeave ==
    /\ table' = {} /\ view' = "week" /\ day' = Today /\ events' = {} /\ basis' = {}
    /\ active' = Coloured /\ asking' = TRUE /\ requests' = {}

\* Mutant: the answer to an earlier request is not ignored.
FetchBoth(v, d) ==
    /\ requests' = requests \cup {[first |-> First(v, d), last |-> Last(v, d),
                                   ignore |-> FALSE]}
    /\ asking' = TRUE

\* The effect: the requests in flight are ignored from now on, and a new one is sent.
Fetch(v, d) ==
    /\ requests' = {[r EXCEPT !.ignore = TRUE] : r \in requests} \cup
         {[first |-> First(v, d), last |-> Last(v, d), ignore |-> FALSE]}
    /\ asking' = TRUE

CalendarMount ==
    /\ table' \in SUBSET Events
    /\ IF Token THEN Fetch(view, day) ELSE asking' = FALSE /\ UNCHANGED requests
    /\ UNCHANGED <<view, day, events, basis, active>>

CalendarSession ==
    /\ Fetch(view, day)
    /\ UNCHANGED <<table, view, day, events, basis, active>>

\* What the user does with the date or the view runs the effect again.
Show(v, d) ==
    /\ d \in 0 .. LastDay /\ Cardinality(requests) < MaxRequests
    /\ view' = v /\ day' = d
    /\ IF Token THEN Fetch(v, d) ELSE asking' = FALSE /\ UNCHANGED requests
    /\ UNCHANGED <<table, events, basis, active>>

\* One period on or back, or today.
Navigate ==
    LET step == CASE view = "week"  -> DaysPerWeek
                  [] view = "day"   -> 1
                  [] view = "month" -> DaysPerMonth
    IN  \E d \in {day + step, day - step, Today} : Show(view, d)

SetView == \E v \in {"week", "day", "month"} \ {view} : Show(v, day)

ToggleProvider ==
    /\ \E p \in Coloured :
         active' = IF p \in active THEN active \ {p} ELSE active \cup {p}
    /\ UNCHANGED <<table, view, day, events, basis, asking, requests>>

\* The request succeeds or fails: a page that could not read shows no events.
EventsAnswered(r) ==
    /\ requests' = requests \ {r}
    /\ IF r.ignore
       THEN UNCHANGED <<events, basis, asking>>
       ELSE /\ \/ events' = Between(r.first, r.last) /\ basis' = table
               \/ events' = {} /\ basis' = {}
            /\ asking' = FALSE
    /\ UNCHANGED <<table, view, day, active>>

\* A sync changes the table.
TableChanges ==
    /\ \E e \in Events : table' = IF e \in table THEN table \ {e} ELSE table \cup {e}
    /\ UNCHANGED <<view, day, events, basis, active, asking, requests>>

CalendarStep ==
    /\ page = "calendar"
    /\ \/ Navigate \/ SetView \/ ToggleProvider \/ TableChanges
       \/ \E r \in requests : EventsAnswered(r)

-----------------------------------------------------------------------------
\* The only events of the days displayed that a range leaves out.
CutOff(e) == view # "month" /\ DayOf(e) = WeekEnd(day) /\ e.at % 2 = 1

\* Whatever the user has clicked while requests were in flight, and whichever of them
\* was answered last: unless a request for them is in flight, the days on display show
\* exactly their events of the providers switched on, but for those of a week's last
\* day, which the page does not ask for in its week and day views.
CalendarComplete ==
    page = "calendar" /\ Token /\ ~asking =>
        \A d \in Displayed :
            EventsForDay(d) = {e \in basis : DayOf(e) = d /\ e.provider \in active
                                             /\ ~CutOff(e)}
=============================================================================
