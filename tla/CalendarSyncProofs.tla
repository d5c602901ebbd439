------------------------- MODULE CalendarSyncProofs -------------------------
(***************************************************************************)
(* Theorems about CalendarSync, for any events, pages, activities and      *)
(* bounds: the types, that Zoom's refresh is shared, that the stored       *)
(* refresh token stays valid, that pruning is safe, and that a sync that   *)
(* nothing disturbs makes the table equal to the calendar.                 *)
(***************************************************************************)
EXTENDS CalendarSync, TLAPS

\* Tokens are numbered as they are issued.
Numbered ==
    /\ row.refresh <= issued
    /\ \A a \in Activities : job[a].refresh <= issued

\* A rotated token on its way to the database is valid, and nobody else has it.
Arriving ==
    Rotates => \A a \in Activities : job[a].pc = "storing" =>
        /\ job[a].refresh \in valid /\ job[a].refresh # 0
        /\ job[a].refresh # row.refresh
        /\ \A b \in Activities \ {a} : job[b].refresh # job[a].refresh

\* Who is about to use up the stored token does so for the account that is connected.
Owned ==
    Rotates /\ row.id # 0 => \A a \in Activities :
        job[a].pc \in {"deciding", "refreshing"} /\ job[a].refresh = row.refresh =>
            job[a].id = row.id

\* A token that is not rotated is valid for ever.
Lasting == ~Rotates => row.refresh \in valid

TokenInv == Numbered /\ Arriving /\ Owned /\ Lasting /\ TokensAlive

\* What the calendar has held ever since is on a page to come, or in hand.
PageInv ==
    \A a \in Activities :
        /\ job[a].held \subseteq calendar
        /\ provider # "webex" =>
             IF job[a].pc = "writing" THEN job[a].held \subseteq job[a].got
             ELSE \A x \in job[a].held : PageOf[x] < job[a].page => x \in job[a].got

IInv == TypeOK /\ RefreshShared /\ TokenInv /\ PageInv

\* All the variables but the jobs.
RestTyped ==
    /\ provider \in Providers
    /\ calendar \subseteq Ids /\ table \subseteq Ids
    /\ valid \subseteq Nat /\ issued \in Nat /\ events \in 0 .. MaxEvents
    /\ row \in Rows
    /\ locks \subseteq Activities
    /\ lost \in BOOLEAN

JobsTyped == job \in [Activities -> Jobs]

LEMMA TypeParts == TypeOK <=> RestTyped /\ JobsTyped
  BY DEF TypeOK, RestTyped, JobsTyped

LEMMA TypePartsNext == RestTyped' /\ JobsTyped' => TypeOK'
  BY DEF TypeOK, RestTyped, JobsTyped

\* The fields of a job.
LEMMA JobFields ==
    ASSUME JobsTyped, NEW a \in Activities
    PROVE  /\ job[a] \in Jobs
           /\ job[a].pc \in {"idle", "deciding", "waiting", "refreshing", "storing",
                             "fetching", "writing"}
           /\ job[a].id \in Nat /\ job[a].refresh \in Nat /\ job[a].fresh \in BOOLEAN
           /\ job[a].page \in 1 .. LastPage
           /\ job[a].got \in SUBSET Ids /\ job[a].todo \in SUBSET Ids
           /\ job[a].held \in SUBSET Ids
  BY DEF JobsTyped, Jobs

LEMMA IdleTyped == Idle \in Jobs
  BY PagesAssumption DEF Idle, Jobs

LEMMA EventTyped == RestTyped /\ Event => events' \in 0 .. MaxEvents
  BY BoundsAssumption DEF RestTyped, Event

-----------------------------------------------------------------------------
(* Steps that leave the parts of the invariant alone                         *)

\* Nobody begins or ends a refresh, or waits for one.
LEMMA SharedKept ==
    ASSUME RefreshShared, JobsTyped, UNCHANGED <<provider, locks>>,
           \A a \in Activities :
             \/ job'[a].pc = job[a].pc /\ job'[a].id = job[a].id
             \/ /\ job[a].pc \notin {"waiting", "refreshing", "storing"}
                /\ job'[a].pc \notin {"waiting", "refreshing", "storing"}
             \/ job[a].pc = "refreshing" /\ job'[a].pc = "storing" /\ job'[a].id = job[a].id
    PROVE  RefreshShared'
  <1> SUFFICES ASSUME SharesRefresh
               PROVE  /\ locks = {a \in Activities : job'[a].pc \in {"refreshing", "storing"}}
                      /\ \A a, b \in locks : job'[a].id = job'[b].id => a = b
                      /\ \A a \in Activities : job'[a].pc = "waiting" =>
                           \E b \in locks : job'[b].id = job'[a].id
    BY DEF RefreshShared, SharesRefresh, Refreshing
  <1>1. /\ locks = {a \in Activities : job[a].pc \in {"refreshing", "storing"}}
        /\ \A a, b \in locks : job[a].id = job[b].id => a = b
        /\ \A a \in Activities : job[a].pc = "waiting" =>
             \E b \in locks : job[b].id = job[a].id
    BY DEF RefreshShared, Refreshing
  <1>2. \A a \in locks : job'[a].id = job[a].id
    BY <1>1
  <1>3. locks = {a \in Activities : job'[a].pc \in {"refreshing", "storing"}}
    BY <1>1
  <1>4. \A a \in Activities : job'[a].pc = "waiting" =>
          job[a].pc = "waiting" /\ job'[a].id = job[a].id
    OBVIOUS
  <1> QED
    BY <1>1, <1>2, <1>3, <1>4

\* A refresh of Zoom is over: those that share it are not waiting any more.
LEMMA SharedEnds ==
    ASSUME RefreshShared, JobsTyped, UNCHANGED provider,
           NEW a \in Activities, job[a].pc \in {"refreshing", "storing"},
           locks' = locks \ {a},
           \A b \in Activities :
             IF b = a \/ (a \in locks /\ b \in Sharing(a))
             THEN job'[b].pc \notin {"waiting", "refreshing", "storing"}
             ELSE job'[b] = job[b]
    PROVE  RefreshShared'
  <1> SUFFICES ASSUME SharesRefresh
               PROVE  /\ locks' = {b \in Activities : job'[b].pc \in {"refreshing", "storing"}}
                      /\ \A b, c \in locks' : job'[b].id = job'[c].id => b = c
                      /\ \A b \in Activities : job'[b].pc = "waiting" =>
                           \E c \in locks' : job'[c].id = job'[b].id
    BY DEF RefreshShared, SharesRefresh, Refreshing
  <1>1. /\ locks = {b \in Activities : job[b].pc \in {"refreshing", "storing"}}
        /\ \A b, c \in locks : job[b].id = job[c].id => b = c
        /\ \A b \in Activities : job[b].pc = "waiting" =>
             \E c \in locks : job[c].id = job[b].id
    BY DEF RefreshShared, Refreshing
  <1>2. a \in locks
    BY <1>1
  <1>3. \A b \in locks' : b # a /\ job'[b] = job[b]
    BY <1>1, <1>2 DEF Sharing
  <1>4. locks' = {b \in Activities : job'[b].pc \in {"refreshing", "storing"}}
    <2>1. ASSUME NEW b \in Activities, job'[b].pc \in {"refreshing", "storing"}
          PROVE  b \in locks'
      BY <1>1, <1>2, <2>1
    <2>2. ASSUME NEW b \in locks' PROVE b \in Activities /\ job'[b].pc \in {"refreshing", "storing"}
      BY <1>1, <1>3, <2>2
    <2> QED
      BY <2>1, <2>2
  <1>5. ASSUME NEW b \in Activities, job'[b].pc = "waiting"
        PROVE  \E c \in locks' : job'[c].id = job'[b].id
    <2>1. job'[b] = job[b] /\ b \notin Sharing(a)
      BY <1>2, <1>5
    <2>2. PICK c \in locks : job[c].id = job[b].id
      BY <1>1, <1>5, <2>1
    <2>3. c # a
      BY <1>5, <2>1, <2>2 DEF Sharing
    <2>4. c \in locks' /\ job'[c] = job[c]
      BY <1>3, <2>2, <2>3
    <2> QED
      BY <2>1, <2>2, <2>4
  <1> QED
    BY <1>1, <1>3, <1>4, <1>5

\* Nobody gets a token, and none is lost.
LEMMA TokensKept ==
    ASSUME TokenInv, RestTyped, JobsTyped,
           UNCHANGED <<provider, valid, issued, lost>>,
           row'.refresh = row.refresh, row'.id \in {row.id, 0},
           \A a \in Activities :
             \/ /\ job'[a].refresh = job[a].refresh /\ job'[a].id = job[a].id
                /\ \/ job'[a].pc = job[a].pc
                   \/ job'[a].pc \notin {"deciding", "refreshing", "storing"}
                   \/ job[a].pc = "deciding" /\ job'[a].pc = "refreshing"
             \/ job'[a].refresh = 0 /\ job'[a].pc \notin {"deciding", "refreshing", "storing"},
           \A a \in Activities :
             job[a].pc = "storing" /\ job[a].id = row.id =>
               job'[a].pc = "storing" /\ job'[a].id = job[a].id
    PROVE  TokenInv'
  <1>1. Numbered'
    BY DEF TokenInv, Numbered, RestTyped
  <1>2. Arriving'
    BY DEF TokenInv, Arriving, Rotates
  <1>3. Owned'
    BY DEF TokenInv, Owned, Rotates
  <1>4. Lasting'
    BY DEF TokenInv, Lasting, Rotates
  <1>5. TokensAlive'
    BY DEF TokenInv, TokensAlive
  <1> QED
    BY <1>1, <1>2, <1>3, <1>4, <1>5 DEF TokenInv

\* Nobody reads a page, and the calendar does not change.
LEMMA PagesKept ==
    ASSUME PageInv, UNCHANGED <<provider, calendar>>,
           \A a \in Activities :
             \/ job'[a].held = {}
             \/ /\ job'[a].held = job[a].held /\ job'[a].got = job[a].got
                /\ job'[a].page = job[a].page
                /\ job'[a].pc = "writing" <=> job[a].pc = "writing"
    PROVE  PageInv'
  <1> SUFFICES ASSUME NEW a \in Activities
               PROVE  /\ job'[a].held \subseteq calendar
                      /\ provider # "webex" =>
                           IF job'[a].pc = "writing" THEN job'[a].held \subseteq job'[a].got
                           ELSE \A x \in job'[a].held : PageOf[x] < job'[a].page => x \in job'[a].got
    BY DEF PageInv
  <1>1. CASE job'[a].held = {}
    BY <1>1
  <1>2. CASE /\ job'[a].held = job[a].held /\ job'[a].got = job[a].got
             /\ job'[a].page = job[a].page
             /\ job'[a].pc = "writing" <=> job[a].pc = "writing"
    BY <1>2 DEF PageInv
  <1> QED
    BY <1>1, <1>2

-----------------------------------------------------------------------------
LEMMA InitIInv == Init => IInv
  <1> SUFFICES ASSUME Init PROVE IInv
    OBVIOUS
  <1>1. \A a \in Activities : job[a] = Idle
    BY DEF Init
  <1>2. TypeOK
    <2>1. JobsTyped
      BY IdleTyped DEF Init, JobsTyped
    <2>2. row \in Rows
      BY DEF Init, Rows
    <2>3. events \in 0 .. MaxEvents /\ valid \subseteq Nat /\ locks \subseteq Activities
      BY BoundsAssumption DEF Init
    <2>4. RestTyped
      BY <2>2, <2>3 DEF Init, RestTyped
    <2> QED
      BY <2>1, <2>4, TypeParts
  <1>3. RefreshShared
    BY <1>1 DEF Init, RefreshShared, Idle
  <1>4. TokenInv
    BY <1>1 DEF Init, TokenInv, Numbered, Arriving, Owned, Lasting, TokensAlive, Idle
  <1>5. PageInv
    BY <1>1 DEF Init, PageInv, Idle
  <1> QED
    BY <1>2, <1>3, <1>4, <1>5 DEF IInv

LEMMA StartStep ==
    ASSUME IInv, NEW a \in Activities, Start(a)
    PROVE  IInv'
  <1> DEFINE new == Started(a, FALSE)
  <1> USE DEF IInv
  <1>1. /\ job[a].pc = "idle" /\ job[a].held = {} /\ row.id # 0
        /\ \A b \in Activities : job'[b] = IF b = a THEN new ELSE job[b]
        /\ UNCHANGED <<provider, calendar, valid, issued, row, table, locks, lost, events>>
    BY TypeParts DEF Start, JobsTyped, Idle
  <1>2. /\ new.pc = "deciding" /\ new.id = row.id /\ new.refresh = row.refresh
        /\ new.page = 1 /\ new.got = {} /\ new.held \subseteq calendar
    BY DEF Started, Idle
  <1>3. new \in Jobs
    BY IdleTyped, TypeParts DEF Started, Idle, Jobs, RestTyped, Rows
  <1> HIDE DEF new
  <1>4. TypeOK'
    <2>1. JobsTyped'
      BY <1>1, <1>3, TypeParts DEF JobsTyped, Start
    <2>2. RestTyped'
      BY <1>1, TypeParts DEF RestTyped
    <2> QED
      BY <2>1, <2>2, TypePartsNext
  <1>5. RefreshShared'
    BY <1>1, <1>2, TypeParts, SharedKept
  <1>6. TokenInv'
    <2>1. Numbered'
      BY <1>1, <1>2 DEF TokenInv, Numbered
    <2>2. Arriving'
      BY <1>1, <1>2 DEF TokenInv, Arriving, Rotates
    <2>3. Owned'
      BY <1>1, <1>2 DEF TokenInv, Owned, Rotates
    <2>4. Lasting'
      BY <1>1 DEF TokenInv, Lasting, Rotates
    <2>5. TokensAlive'
      BY <1>1 DEF TokenInv, TokensAlive
    <2> QED
      BY <2>1, <2>2, <2>3, <2>4, <2>5 DEF TokenInv
  <1>7. PageInv'
    <2>1. \A x \in new.held : ~(PageOf[x] < 1)
      BY <1>2, PagesAssumption, TypeParts DEF RestTyped
    <2> QED
      BY <1>1, <1>2, <2>1 DEF PageInv
  <1> QED
    BY <1>4, <1>5, <1>6, <1>7

\* A step that changes jobs, each of them in a way that keeps its types.
LEMMA JobsChanged ==
    ASSUME TypeOK, UNCHANGED <<provider, calendar, valid, issued, row, lost>>,
           table' \subseteq Ids, locks' \subseteq Activities, events' \in 0 .. MaxEvents,
           job' \in [Activities -> Jobs]
    PROVE  TypeOK'
  BY DEF TypeOK

LEMMA DecideStep ==
    ASSUME IInv, NEW a \in Activities, Decide(a)
    PROVE  IInv'
  <1> USE DEF IInv
  <1>1. PICK place \in {"fetching", "waiting", "refreshing"} :
          /\ job' = [job EXCEPT ![a].pc = place]
          /\ place = "waiting" => Refreshing(a)
          /\ place = "refreshing" => ~Refreshing(a)
          /\ locks' = IF place = "refreshing" /\ SharesRefresh THEN locks \cup {a} ELSE locks
    BY DEF Decide
  <1>2. /\ job[a].pc = "deciding"
        /\ UNCHANGED <<provider, calendar, valid, issued, row, table, lost, events>>
    BY DEF Decide
  <1>3. /\ job'[a].pc = place /\ job'[a].id = job[a].id /\ job'[a].refresh = job[a].refresh
        /\ job'[a].held = job[a].held /\ job'[a].got = job[a].got
        /\ job'[a].page = job[a].page
        /\ \A b \in Activities \ {a} : job'[b] = job[b]
        /\ job' \in [Activities -> Jobs]
    BY <1>1, TypeParts DEF JobsTyped, Jobs
  <1>4. TypeOK'
    BY <1>1, <1>2, <1>3, JobsChanged DEF TypeOK
  <1>5. RefreshShared'
    <2> SUFFICES ASSUME SharesRefresh
                 PROVE  /\ locks' = {b \in Activities : job'[b].pc \in {"refreshing", "storing"}}
                        /\ \A b, c \in locks' : job'[b].id = job'[c].id => b = c
                        /\ \A b \in Activities : job'[b].pc = "waiting" =>
                             \E c \in locks' : job'[c].id = job'[b].id
      BY <1>2 DEF RefreshShared, SharesRefresh, Refreshing
    <2>1. /\ locks = {b \in Activities : job[b].pc \in {"refreshing", "storing"}}
          /\ \A b, c \in locks : job[b].id = job[c].id => b = c
          /\ \A b \in Activities : job[b].pc = "waiting" =>
               \E c \in locks : job[c].id = job[b].id
      BY DEF RefreshShared, Refreshing
    <2>2. a \notin locks /\ locks \subseteq locks' /\ locks' \subseteq locks \cup {a}
      BY <1>1, <1>2, <2>1
    <2>3. \A b \in Activities : job'[b].id = job[b].id
      BY <1>3
    <2>4. locks' = {b \in Activities : job'[b].pc \in {"refreshing", "storing"}}
      BY <1>1, <1>3, <2>1, <2>2
    <2>5. \A b, c \in locks' : job'[b].id = job'[c].id => b = c
      BY <1>1, <2>1, <2>2, <2>3 DEF Refreshing, TypeOK
    <2>6. ASSUME NEW b \in Activities, job'[b].pc = "waiting"
          PROVE  \E c \in locks : job[c].id = job[b].id
      BY <1>1, <1>3, <2>1, <2>6 DEF Refreshing
    <2>7. \A c \in locks : job'[c].id = job[c].id
      BY <2>1, <2>3
    <2> QED
      BY <2>2, <2>3, <2>4, <2>5, <2>6, <2>7
  <1>6. TokenInv'
    BY <1>2, <1>3, TypeParts, TokensKept
  <1>7. PageInv'
    BY <1>2, <1>3, PagesKept
  <1> QED
    BY <1>4, <1>5, <1>6, <1>7

LEMMA GrantedTyped ==
    ASSUME TypeOK, NEW a \in Activities, Granted(a)
    PROVE  issued \in Nat /\ issued' \in Nat /\ issued <= issued' /\ valid' \subseteq Nat
  <1>1. issued \in Nat /\ valid \subseteq Nat
    BY DEF TypeOK
  <1>2. CASE Rotates
    <2>1. issued' = issued + 1 /\ valid' = (valid \ {job[a].refresh}) \cup {issued'}
      BY <1>2 DEF Granted
    <2>2. issued' \in Nat /\ issued <= issued'
      BY <1>1, <2>1
    <2> QED
      BY <1>1, <2>1, <2>2
  <1>3. CASE ~Rotates
    <2>1. issued' = issued /\ valid' = valid
      BY <1>3 DEF Granted
    <2> QED
      BY <1>1, <2>1
  <1> QED
    BY <1>2, <1>3

\* The provider grants: the job takes the new token, if there is one.
LEMMA RefreshStep ==
    ASSUME IInv, NEW a \in Activities, Refresh(a)
    PROVE  IInv'
  <1> USE DEF IInv
  <1>1. /\ job[a].pc = "refreshing" /\ job[a].refresh \in valid
        /\ IF Rotates THEN issued' = issued + 1
                           /\ valid' = (valid \ {job[a].refresh}) \cup {issued'}
           ELSE valid' = valid /\ issued' = issued
        /\ UNCHANGED <<provider, calendar, row, table, locks, lost, events>>
    BY DEF Refresh, Granted
  <1>2. issued \in Nat /\ issued' \in Nat /\ valid' \subseteq Nat
    BY GrantedTyped DEF Refresh
  <1>3. /\ job'[a].pc = "storing" /\ job'[a].id = job[a].id
        /\ job'[a].refresh = IF Rotates THEN issued' ELSE job[a].refresh
        /\ job'[a].held = job[a].held /\ job'[a].got = job[a].got
        /\ job'[a].page = job[a].page
        /\ \A b \in Activities \ {a} : job'[b] = job[b]
        /\ job' \in [Activities -> Jobs]
    <2>1. PICK new : new = IF Rotates THEN issued' ELSE job[a].refresh
      OBVIOUS
    <2>2. job \in [Activities -> Jobs] /\ new \in Nat
      BY <1>2, <2>1, TypeParts, JobFields DEF JobsTyped
    <2>3. job' = [job EXCEPT ![a] = [@ EXCEPT !.pc = "storing", !.refresh = new]]
      BY <2>1, <2>2 DEF Refresh, Jobs
    <2>4. /\ job'[a] = [job[a] EXCEPT !.pc = "storing", !.refresh = new]
          /\ \A b \in Activities \ {a} : job'[b] = job[b]
      BY <2>2, <2>3
    <2>5. job'[a] \in Jobs
      BY <2>2, <2>4 DEF Jobs
    <2>6. job' \in [Activities -> Jobs]
      BY <2>2, <2>3, <2>4, <2>5
    <2>7. /\ job'[a].pc = "storing" /\ job'[a].id = job[a].id /\ job'[a].refresh = new
          /\ job'[a].held = job[a].held /\ job'[a].got = job[a].got
          /\ job'[a].page = job[a].page
      BY <2>2, <2>4 DEF Jobs
    <2> QED
      BY <2>1, <2>4, <2>6, <2>7
  <1>4. TypeOK'
    BY <1>1, <1>2, <1>3 DEF TypeOK
  <1>5. RefreshShared'
    BY <1>1, <1>3, TypeParts, SharedKept
  <1>6. TokenInv'
    <2>1. Numbered'
      BY <1>1, <1>2, <1>3, TypeParts, JobFields DEF TokenInv, Numbered, TypeOK, Rows
    <2>2. Arriving'
      <3> SUFFICES ASSUME Rotates, NEW b \in Activities, job'[b].pc = "storing"
                   PROVE  /\ job'[b].refresh \in valid' /\ job'[b].refresh # 0
                          /\ job'[b].refresh # row.refresh
                          /\ \A c \in Activities \ {b} : job'[c].refresh # job'[b].refresh
        BY <1>1 DEF Arriving, Rotates
      <3>1. row.refresh <= issued /\ \A c \in Activities : job[c].refresh <= issued
        BY DEF TokenInv, Numbered
      <3>2. row.refresh \in Nat /\ \A c \in Activities : job[c].refresh \in Nat
        BY TypeParts, JobFields DEF TypeOK, Rows
      <3>3. CASE b = a
        BY <1>1, <1>2, <1>3, <3>1, <3>2, <3>3
      <3>4. CASE b # a
        <4>1. /\ job[b].refresh \in valid /\ job[b].refresh # 0
              /\ job[b].refresh # row.refresh
              /\ \A c \in Activities \ {b} : job[c].refresh # job[b].refresh
          BY <1>3, <3>4 DEF TokenInv, Arriving
        <4>2. job[b].refresh # issued'
          BY <1>1, <1>2, <3>1, <3>2
        <4> QED
          BY <1>1, <1>3, <3>4, <4>1, <4>2
      <3> QED
        BY <3>3, <3>4
    <2>3. Owned'
      BY <1>1, <1>3 DEF TokenInv, Owned, Rotates
    <2>4. Lasting'
      BY <1>1 DEF TokenInv, Lasting, Rotates
    <2>5. TokensAlive'
      <3> SUFFICES ASSUME row.id # 0, ~lost
                   PROVE  \/ row.refresh \in valid'
                          \/ \E b \in Activities : job'[b].pc = "storing" /\ job'[b].id = row.id
        BY <1>1 DEF TokensAlive
      <3>1. CASE ~Rotates
        BY <1>1, <3>1 DEF TokenInv, Lasting
      <3>2. CASE Rotates /\ row.refresh = job[a].refresh
        BY <1>1, <1>3, <3>2 DEF TokenInv, Owned
      <3>3. CASE Rotates /\ row.refresh # job[a].refresh
        BY <1>1, <1>3, <3>3 DEF TokenInv, TokensAlive
      <3> QED
        BY <3>1, <3>2, <3>3
    <2> QED
      BY <2>1, <2>2, <2>3, <2>4, <2>5 DEF TokenInv
  <1>7. PageInv'
    BY <1>1, <1>3, PagesKept
  <1> QED
    BY <1>4, <1>5, <1>6, <1>7

\* What Failed makes of the jobs.
LEMMA FailedJobs ==
    ASSUME JobsTyped, NEW a \in Activities, Failed(a)
    PROVE  /\ locks' = locks \ {a}
           /\ job' \in [Activities -> Jobs]
           /\ job'[a] = Idle
           /\ \A b \in Activities :
                IF b = a \/ (a \in locks /\ b \in Sharing(a))
                THEN job'[b] = Idle ELSE job'[b] = job[b]
           /\ \A b \in Activities : b \in Sharing(a) => job[b].pc = "waiting"
  BY IdleTyped DEF Failed, JobsTyped, Sharing

\* A refresh that is refused, or cannot be stored.
LEMMA FailStep ==
    ASSUME IInv, NEW a \in Activities, RefreshRejected(a) \/ StoreFails(a)
    PROVE  IInv'
  <1> USE DEF IInv
  <1>1. /\ job[a].pc \in {"refreshing", "storing"} /\ Failed(a)
        /\ job[a].pc = "storing" => job[a].id # row.id
        /\ UNCHANGED <<provider, calendar, valid, issued, row, table, lost, events>>
    BY DEF RefreshRejected, StoreFails
  <1>2. /\ locks' = locks \ {a}
        /\ job' \in [Activities -> Jobs]
        /\ job'[a] = Idle
        /\ \A b \in Activities :
             IF b = a \/ (a \in locks /\ b \in Sharing(a))
             THEN job'[b] = Idle ELSE job'[b] = job[b]
        /\ \A b \in Activities : b \in Sharing(a) => job[b].pc = "waiting"
    BY <1>1, TypeParts, FailedJobs
  <1>3. \A b \in Activities :
          \/ job'[b] = job[b]
          \/ job'[b] = Idle /\ (b = a \/ job[b].pc = "waiting")
    BY <1>2
  <1>4. TypeOK'
    BY <1>1, <1>2, JobsChanged DEF TypeOK
  <1>5. RefreshShared'
    BY <1>1, <1>2, TypeParts, SharedEnds DEF Idle
  <1>6. TokenInv'
    BY <1>1, <1>3, TypeParts, TokensKept DEF Idle
  <1>7. PageInv'
    BY <1>1, <1>3, PagesKept DEF Idle
  <1> QED
    BY <1>4, <1>5, <1>6, <1>7

\* The provider's answer is lost: what it has rotated is.
LEMMA AnswerLostStep ==
    ASSUME IInv, NEW a \in Activities, AnswerLost(a)
    PROVE  IInv'
  <1> USE DEF IInv
  <1>1. /\ job[a].pc = "refreshing" /\ job[a].refresh \in valid
        /\ IF Rotates THEN issued' = issued + 1
                           /\ valid' = (valid \ {job[a].refresh}) \cup {issued'}
           ELSE valid' = valid /\ issued' = issued
        /\ lost' = (lost \/ Rotates)
        /\ Failed(a) /\ Event
        /\ UNCHANGED <<provider, calendar, row, table>>
    BY DEF AnswerLost, Granted
  <1>2. issued \in Nat /\ issued' \in Nat /\ issued <= issued' /\ valid' \subseteq Nat
    BY GrantedTyped DEF AnswerLost
  <1>3. /\ locks' = locks \ {a}
        /\ job' \in [Activities -> Jobs]
        /\ \A b \in Activities :
             IF b = a \/ (a \in locks /\ b \in Sharing(a))
             THEN job'[b] = Idle ELSE job'[b] = job[b]
        /\ \A b \in Activities : b \in Sharing(a) => job[b].pc = "waiting"
    BY <1>1, TypeParts, FailedJobs
  <1>4. \A b \in Activities :
          \/ job'[b] = job[b] /\ b # a
          \/ job'[b] = Idle /\ (b = a \/ job[b].pc = "waiting")
    BY <1>3
  <1>5. TypeOK'
    <2>1. lost' \in BOOLEAN
      BY <1>1 DEF TypeOK, Rotates
    <2>2. events' \in 0 .. MaxEvents
      BY <1>1, TypeParts, EventTyped
    <2> QED
      BY <1>1, <1>2, <1>3, <2>1, <2>2 DEF TypeOK
  <1>6. RefreshShared'
    BY <1>1, <1>3, TypeParts, SharedEnds DEF Idle
  <1>7. TokenInv'
    <2>1. Numbered'
      <3>1. row.refresh <= issued /\ row.refresh \in Nat
        BY DEF TokenInv, Numbered, TypeOK, Rows
      <3>2. ASSUME NEW b \in Activities PROVE job'[b].refresh <= issued'
        <4>1. job[b].refresh <= issued /\ job[b].refresh \in Nat
          BY TypeParts, JobFields DEF TokenInv, Numbered
        <4> QED
          BY <1>2, <1>4, <4>1 DEF Idle
      <3> QED
        BY <1>1, <1>2, <3>1, <3>2 DEF Numbered
    <2>2. Arriving'
      <3> SUFFICES ASSUME Rotates, NEW b \in Activities, job'[b].pc = "storing"
                   PROVE  /\ job'[b].refresh \in valid' /\ job'[b].refresh # 0
                          /\ job'[b].refresh # row.refresh
                          /\ \A c \in Activities \ {b} : job'[c].refresh # job'[b].refresh
        BY <1>1 DEF Arriving, Rotates
      <3>1. job'[b] = job[b] /\ b # a
        BY <1>4 DEF Idle
      <3>2. /\ job[b].refresh \in valid /\ job[b].refresh # 0
            /\ job[b].refresh # row.refresh
            /\ \A c \in Activities \ {b} : job[c].refresh # job[b].refresh
        BY <3>1 DEF TokenInv, Arriving
      <3> QED
        BY <1>1, <1>4, <3>1, <3>2 DEF Idle
    <2>3. Owned'
      BY <1>1, <1>4 DEF TokenInv, Owned, Rotates, Idle
    <2>4. Lasting'
      BY <1>1 DEF TokenInv, Lasting, Rotates
    <2>5. TokensAlive'
      <3>1. CASE Rotates
        BY <1>1, <3>1 DEF TokensAlive
      <3>2. CASE ~Rotates
        BY <1>1, <3>2 DEF TokenInv, Lasting, TokensAlive
      <3> QED
        BY <3>1, <3>2
    <2> QED
      BY <2>1, <2>2, <2>3, <2>4, <2>5 DEF TokenInv
  <1>8. PageInv'
    BY <1>1, <1>4, PagesKept DEF Idle
  <1> QED
    BY <1>5, <1>6, <1>7, <1>8

\* A job that goes on with the new token.
LEMMA GoesOn ==
    ASSUME JobsTyped, NEW b \in Activities, NEW new,
           new = [job[b] EXCEPT !.pc = "fetching", !.fresh = TRUE]
    PROVE  /\ new \in Jobs /\ new.pc = "fetching"
           /\ new.id = job[b].id /\ new.refresh = job[b].refresh
           /\ new.held = job[b].held /\ new.got = job[b].got /\ new.page = job[b].page
  BY JobFields DEF Jobs

\* The row takes the new token, and those that share it have it too.
LEMMA StoreStep ==
    ASSUME IInv, NEW a \in Activities, Store(a)
    PROVE  IInv'
  <1> USE DEF IInv
  <1>1. /\ job[a].pc = "storing" /\ row.id = job[a].id
        /\ row' = Stored(a) /\ locks' = locks \ {a}
        /\ UNCHANGED <<provider, calendar, valid, issued, table, lost, events>>
    BY DEF Store
  <1>2. /\ row' \in Rows /\ row'.id = row.id
        /\ row'.refresh = IF Rotates THEN job[a].refresh ELSE row.refresh
    BY <1>1, TypeParts, JobFields DEF Stored, RestTyped, Rows
  <1>3. /\ job' \in [Activities -> Jobs]
        /\ \A b \in Activities :
             IF b = a \/ (a \in locks /\ b \in Sharing(a))
             THEN job'[b] = [job[b] EXCEPT !.pc = "fetching", !.fresh = TRUE]
             ELSE job'[b] = job[b]
    <2>1. /\ job \in [Activities -> Jobs]
          /\ \A b \in Activities : [job[b] EXCEPT !.pc = "fetching", !.fresh = TRUE] \in Jobs
      BY TypeParts, GoesOn DEF JobsTyped
    <2> QED
      BY <2>1 DEF Store
  <1>4. \A b \in Activities : b \in Sharing(a) => job[b].pc = "waiting"
    BY DEF Sharing
  <1>5. \A b \in Activities :
          /\ job'[b].id = job[b].id /\ job'[b].refresh = job[b].refresh
          /\ job'[b].held = job[b].held /\ job'[b].got = job[b].got
          /\ job'[b].page = job[b].page
          /\ job'[b] = job[b] \/ (job'[b].pc = "fetching" /\ job[b].pc # "writing")
    <2>1. ASSUME NEW b \in Activities, b = a \/ (a \in locks /\ b \in Sharing(a))
          PROVE  /\ job'[b].id = job[b].id /\ job'[b].refresh = job[b].refresh
                 /\ job'[b].held = job[b].held /\ job'[b].got = job[b].got
                 /\ job'[b].page = job[b].page
                 /\ job'[b].pc = "fetching" /\ job[b].pc # "writing"
      <3>1. PICK new : new = [job[b] EXCEPT !.pc = "fetching", !.fresh = TRUE]
        OBVIOUS
      <3>2. job'[b] = new
        BY <1>3, <2>1, <3>1, Zenon
      <3>3. job[b].pc # "writing"
        BY <1>1, <1>4, <2>1
      <3>4. /\ new.pc = "fetching" /\ new.id = job[b].id /\ new.refresh = job[b].refresh
            /\ new.held = job[b].held /\ new.got = job[b].got /\ new.page = job[b].page
        BY <3>1, TypeParts, GoesOn
      <3> QED
        BY <3>2, <3>3, <3>4
    <2>2. ASSUME NEW b \in Activities, ~(b = a \/ (a \in locks /\ b \in Sharing(a)))
          PROVE  job'[b] = job[b]
      BY <1>3, <2>2, Zenon
    <2>3. ASSUME NEW b \in Activities
          PROVE  /\ job'[b].id = job[b].id /\ job'[b].refresh = job[b].refresh
                 /\ job'[b].held = job[b].held /\ job'[b].got = job[b].got
                 /\ job'[b].page = job[b].page
                 /\ job'[b] = job[b] \/ (job'[b].pc = "fetching" /\ job[b].pc # "writing")
      BY <2>1, <2>2
    <2> QED
      BY <2>3
  <1>6. job'[a].pc = "fetching"
    BY <1>3, TypeParts, JobFields DEF Jobs
  <1>7. TypeOK'
    BY <1>1, <1>2, <1>3 DEF TypeOK
  <1>8. RefreshShared'
    <2>1. \A b \in Activities :
             IF b = a \/ (a \in locks /\ b \in Sharing(a))
             THEN job'[b].pc \notin {"waiting", "refreshing", "storing"}
             ELSE job'[b] = job[b]
      BY <1>3, TypeParts, JobFields DEF Jobs
    <2> QED
      BY <1>1, <2>1, TypeParts, SharedEnds
  <1>9. TokenInv'
    <2>1. Numbered'
      BY <1>1, <1>2, <1>5 DEF TokenInv, Numbered
    <2>2. Arriving'
      <3> SUFFICES ASSUME Rotates, NEW b \in Activities, job'[b].pc = "storing"
                   PROVE  /\ job'[b].refresh \in valid /\ job'[b].refresh # 0
                          /\ job'[b].refresh # row'.refresh
                          /\ \A c \in Activities \ {b} : job'[c].refresh # job'[b].refresh
        BY <1>1 DEF Arriving, Rotates
      <3>1. b # a /\ job[b].pc = "storing"
        BY <1>5, <1>6
      <3>2. /\ job[b].refresh \in valid /\ job[b].refresh # 0
            /\ \A c \in Activities \ {b} : job[c].refresh # job[b].refresh
        BY <3>1 DEF TokenInv, Arriving
      <3> QED
        BY <1>2, <1>5, <3>1, <3>2
    <2>3. Owned'
      <3> SUFFICES ASSUME Rotates, NEW b \in Activities, row.id # 0,
                          job'[b].pc \in {"deciding", "refreshing"},
                          job'[b].refresh = row'.refresh
                   PROVE  FALSE
        BY <1>1, <1>2 DEF Owned, Rotates
      <3>1. b # a
        BY <1>6
      <3>2. job[b].refresh # job[a].refresh
        BY <1>1, <3>1 DEF TokenInv, Arriving
      <3> QED
        BY <1>2, <1>5, <3>2
    <2>4. Lasting'
      BY <1>1, <1>2 DEF TokenInv, Lasting, Rotates
    <2>5. TokensAlive'
      <3>1. row'.refresh \in valid
        BY <1>1, <1>2 DEF TokenInv, Arriving, Lasting
      <3> QED
        BY <1>1, <3>1 DEF TokensAlive
    <2> QED
      BY <2>1, <2>2, <2>3, <2>4, <2>5 DEF TokenInv
  <1>10. PageInv'
    <2>1. \A b \in Activities : job'[b].pc = "writing" <=> job[b].pc = "writing"
      BY <1>5
    <2> QED
      BY <1>1, <1>5, <2>1, PagesKept
  <1> QED
    BY <1>7, <1>8, <1>9, <1>10

\* A job whose place changes after its token, without a page being read.
LEMMA PlaceStep ==
    ASSUME IInv, NEW a \in Activities, NEW new \in Jobs,
           job[a].pc \in {"fetching", "writing"},
           \/ new = Idle
           \/ /\ new.pc = job[a].pc /\ new.id = job[a].id /\ new.refresh = job[a].refresh
              /\ new.held = job[a].held /\ new.got = job[a].got /\ new.page = job[a].page,
           job' = [job EXCEPT ![a] = new],
           table' \subseteq Ids, events' \in 0 .. MaxEvents,
           UNCHANGED <<provider, calendar, valid, issued, row, locks, lost>>
    PROVE  IInv'
  <1> USE DEF IInv
  <1>1. /\ job' \in [Activities -> Jobs] /\ job'[a] = new
        /\ \A b \in Activities \ {a} : job'[b] = job[b]
    BY TypeParts DEF JobsTyped
  <1>2. TypeOK'
    BY <1>1, JobsChanged DEF TypeOK
  <1>3. RefreshShared'
    BY <1>1, TypeParts, SharedKept DEF Idle
  <1>4. TokenInv'
    BY <1>1, TypeParts, TokensKept DEF Idle
  <1>5. PageInv'
    BY <1>1, PagesKept DEF Idle
  <1> QED
    BY <1>2, <1>3, <1>4, <1>5

LEMMA AnswerStep ==
    ASSUME IInv, NEW a \in Activities, Answer(a)
    PROVE  IInv'
  BY PlaceStep, IdleTyped DEF Answer, IInv, TypeOK

LEMMA UpsertStep ==
    ASSUME IInv, NEW a \in Activities, Upsert(a)
    PROVE  IInv'
  <1>1. /\ job[a].pc = "writing"
        /\ UNCHANGED <<provider, calendar, valid, issued, row, locks, lost, events>>
    BY DEF Upsert
  <1>2. PICK x \in FirstOf(job[a].todo) :
          IF row.id = job[a].id
          THEN /\ table' = table \cup {x}
               /\ job' = [job EXCEPT ![a].todo = @ \ {x}]
          ELSE job' = [job EXCEPT ![a] = Idle] /\ table' = table
    BY DEF Upsert
  <1>3. job[a] \in Jobs /\ job \in [Activities -> Jobs] /\ x \in Ids
    BY TypeParts, JobFields DEF IInv, FirstOf, JobsTyped
  <1>4. CASE row.id = job[a].id
    <2> DEFINE new == [job[a] EXCEPT !.todo = @ \ {x}]
    <2>1. new \in Jobs
      BY <1>3 DEF Jobs
    <2>2. /\ new.pc = job[a].pc /\ new.id = job[a].id /\ new.refresh = job[a].refresh
          /\ new.held = job[a].held /\ new.got = job[a].got /\ new.page = job[a].page
      BY <1>3 DEF Jobs
    <2>3. job' = [job EXCEPT ![a] = new]
      BY <1>2, <1>3, <1>4
    <2>4. table' \subseteq Ids /\ events' \in 0 .. MaxEvents
      BY <1>1, <1>2, <1>3, <1>4 DEF IInv, TypeOK
    <2> HIDE DEF new
    <2> QED
      BY <1>1, <2>1, <2>2, <2>3, <2>4, PlaceStep
  <1>5. CASE row.id # job[a].id
    BY <1>1, <1>2, <1>5, IdleTyped, PlaceStep DEF IInv, TypeOK
  <1> QED
    BY <1>4, <1>5

LEMMA PruneStep ==
    ASSUME IInv, NEW a \in Activities, Prune(a)
    PROVE  IInv'
  <1>1. table' \subseteq Ids
    BY DEF Prune, Kept, IInv, TypeOK
  <1> QED
    BY <1>1, PlaceStep, IdleTyped DEF Prune, IInv, TypeOK

\* The list of a sync is complete, or taken for complete.
LEMMA WritingTyped ==
    ASSUME TypeOK, NEW a \in Activities, NEW got \in SUBSET Ids
    PROVE  /\ Writing(job[a], got) \in Jobs
           /\ Writing(job[a], got).pc = "writing" /\ Writing(job[a], got).refresh = 0
           /\ Writing(job[a], got).held = job[a].held /\ Writing(job[a], got).got = got
  BY TypeParts, JobFields, IdleTyped DEF Writing, Idle, Jobs

LEMMA FetchPageStep ==
    ASSUME IInv, NEW a \in Activities, FetchPage(a)
    PROVE  IInv'
  <1> USE DEF IInv
  <1> DEFINE page == job[a].page
             got == job[a].got \cup {x \in calendar : PageOf[x] = page}
             new == IF AtLast(page) THEN Writing(job[a], got)
                    ELSE [job[a] EXCEPT !.page = page + 1, !.got = got]
  <1>1. /\ job[a].pc = "fetching"
        /\ job' = [job EXCEPT ![a] = new]
        /\ UNCHANGED <<provider, calendar, valid, issued, row, table, locks, lost, events>>
    BY TypeParts DEF FetchPage, JobsTyped
  <1>2. job[a] \in Jobs /\ page \in 1 .. LastPage /\ got \in SUBSET Ids
    BY TypeParts, JobFields DEF RestTyped
  <1>3. /\ new \in Jobs /\ new.pc \in {"fetching", "writing"}
        /\ new.held = job[a].held /\ new.got = got
        /\ new.pc = "fetching" => page # LastPage /\ new.page = page + 1
             /\ new.refresh = job[a].refresh /\ new.id = job[a].id
        /\ new.pc = "writing" => page = LastPage /\ new.refresh = 0
    <2>1. CASE page = LastPage
      BY <1>2, <2>1, WritingTyped DEF AtLast
    <2>2. CASE page # LastPage
      <3>1. new = [job[a] EXCEPT !.page = page + 1, !.got = got]
        BY <2>2 DEF AtLast
      <3>2. page + 1 \in 1 .. LastPage
        BY <1>2, <2>2, PagesAssumption
      <3> HIDE DEF new, got, page
      <3> QED
        BY <1>1, <1>2, <2>2, <3>1, <3>2 DEF Jobs
    <2> QED
      BY <2>1, <2>2
  <1>4. /\ job' \in [Activities -> Jobs] /\ job'[a] = new
        /\ \A b \in Activities \ {a} : job'[b] = job[b]
    BY <1>1, <1>3, TypeParts DEF JobsTyped
  <1>5. PageInv'
    <2>1. ASSUME provider # "webex", NEW x \in job[a].held, PageOf[x] < page + 1
          PROVE  x \in got
      <3>1. x \in calendar /\ x \in Ids
        BY <2>1, TypeParts DEF PageInv, RestTyped
      <3>2. PageOf[x] \in 1 .. LastPage
        BY <3>1, PagesAssumption
      <3>3. CASE PageOf[x] = page
        BY <3>1, <3>3
      <3>4. CASE PageOf[x] < page
        BY <1>1, <2>1, <3>4 DEF PageInv
      <3> QED
        BY <1>2, <2>1, <3>2, <3>3, <3>4
    <2>2. ASSUME NEW x \in job[a].held, page = LastPage PROVE PageOf[x] < page + 1
      <3>1. PageOf[x] \in 1 .. LastPage
        BY <2>2, TypeParts, JobFields, PagesAssumption
      <3> QED
        BY <2>2, <3>1, PagesAssumption
    <2>3. /\ job[a].held \subseteq calendar
          /\ \A b \in Activities \ {a} :
               /\ job[b].held \subseteq calendar
               /\ provider # "webex" =>
                    IF job[b].pc = "writing" THEN job[b].held \subseteq job[b].got
                    ELSE \A x \in job[b].held : PageOf[x] < job[b].page => x \in job[b].got
      BY DEF PageInv
    <2> HIDE DEF new, got, page
    <2>4. provider # "webex" =>
            IF new.pc = "writing" THEN new.held \subseteq new.got
            ELSE \A x \in new.held : PageOf[x] < new.page => x \in new.got
      BY <1>3, <2>1, <2>2
    <2> QED
      BY <1>1, <1>3, <1>4, <2>3, <2>4 DEF PageInv
  <1> HIDE DEF new, got, page
  <1>6. TypeOK'
    BY <1>1, <1>4, JobsChanged DEF TypeOK
  <1>7. RefreshShared'
    BY <1>1, <1>3, <1>4, TypeParts, SharedKept
  <1>8. TokenInv'
    BY <1>1, <1>3, <1>4, TypeParts, TokensKept
  <1> QED
    BY <1>5, <1>6, <1>7, <1>8

\* Webex takes a page that fails for the last: the others give up.
LEMMA FetchFailsStep ==
    ASSUME IInv, NEW a \in Activities, FetchFails(a)
    PROVE  IInv'
  <1> USE DEF IInv
  <1>1. /\ job[a].pc = "fetching"
        /\ job' = [job EXCEPT ![a] = AfterError(a)]
        /\ UNCHANGED <<provider, calendar, valid, issued, row, table, locks, lost>>
    BY DEF FetchFails
  <1>2. events' \in 0 .. MaxEvents
    BY TypeParts, EventTyped DEF FetchFails, TypeOK
  <1>3. CASE ~StopsAtError
    BY <1>1, <1>2, <1>3, PlaceStep, IdleTyped DEF AfterError, TypeOK
  <1>4. CASE StopsAtError
    <2>1. PICK new : new = Writing(job[a], job[a].got)
      OBVIOUS
    <2>2. /\ new \in Jobs /\ new.pc = "writing" /\ new.refresh = 0
          /\ new.held = job[a].held
      BY <2>1, WritingTyped, TypeParts, JobFields
    <2>3. /\ job' \in [Activities -> Jobs] /\ job'[a] = new
          /\ \A b \in Activities \ {a} : job'[b] = job[b]
      BY <1>1, <1>4, <2>1, <2>2, TypeParts DEF JobsTyped, AfterError
    <2>4. TypeOK'
      BY <1>1, <1>2, <2>3, JobsChanged DEF TypeOK
    <2>5. RefreshShared'
      BY <1>1, <2>2, <2>3, TypeParts, SharedKept
    <2>6. TokenInv'
      BY <1>1, <2>2, <2>3, TypeParts, TokensKept
    <2>7. PageInv'
      BY <1>1, <1>4, <2>2, <2>3 DEF PageInv, StopsAtError
    <2> QED
      BY <2>4, <2>5, <2>6, <2>7
  <1> QED
    BY <1>3, <1>4

LEMMA DisconnectStep ==
    ASSUME IInv, Disconnect
    PROVE  IInv'
  <1> USE DEF IInv
  <1>1. /\ row.id # 0 /\ row'.id = 0 /\ row'.refresh = row.refresh /\ row' \in Rows
        /\ table' = {} /\ events' \in 0 .. MaxEvents
        /\ UNCHANGED <<provider, calendar, valid, issued, locks, job, lost>>
    BY TypeParts, EventTyped DEF Disconnect, RestTyped, Rows
  <1>2. TypeOK'
    BY <1>1 DEF TypeOK
  <1>3. RefreshShared'
    BY <1>1, TypeParts, SharedKept
  <1>4. TokenInv'
    BY <1>1, TypeParts, TokensKept
  <1>5. PageInv'
    BY <1>1, PagesKept
  <1> QED
    BY <1>2, <1>3, <1>4, <1>5

\* A new grant: nobody else has its number.
LEMMA ConnectStep ==
    ASSUME IInv, NEW a \in Activities, Connect(a)
    PROVE  IInv'
  <1> USE DEF IInv
  <1>1. PICK token : token = issued + 1
    OBVIOUS
  <1>2. PICK id : id = IF row.id # 0 THEN row.id ELSE events + 2
    OBVIOUS
  <1>3. /\ issued \in Nat /\ token \in Nat /\ token > issued /\ id \in Nat /\ id # 0
        /\ row.refresh <= issued /\ row.refresh \in Nat
        /\ \A b \in Activities : job[b].refresh <= issued /\ job[b].refresh \in Nat
    BY <1>1, <1>2, TypeParts, JobFields DEF RestTyped, Rows, TokenInv, Numbered
  <1> DEFINE new == [Idle EXCEPT !.pc = "fetching", !.id = id, !.refresh = token,
                                 !.fresh = TRUE, !.held = calendar]
  <1>4. /\ issued' = token /\ valid' = valid \cup {token} /\ lost' = FALSE
        /\ row' = [id |-> id, refresh |-> token, fresh |-> TRUE]
        /\ events' \in 0 .. MaxEvents
        /\ UNCHANGED <<provider, calendar, table, locks>>
    BY <1>1, <1>2, TypeParts, EventTyped DEF Connect
  <1>5. job[a] = Idle /\ job' = [job EXCEPT ![a] = new]
    BY <1>1, <1>2, <1>4 DEF Connect
  <1>6. /\ new \in Jobs /\ new.pc = "fetching" /\ new.id = id /\ new.refresh = token
        /\ new.page = 1 /\ new.got = {} /\ new.held = calendar
    BY <1>3, IdleTyped, TypeParts DEF Idle, Jobs, RestTyped
  <1> HIDE DEF new
  <1>7. /\ job' \in [Activities -> Jobs] /\ job'[a] = new
        /\ \A b \in Activities \ {a} : job'[b] = job[b]
    BY <1>5, <1>6, TypeParts DEF JobsTyped
  <1>8. row'.id = id /\ row'.refresh = token /\ row' \in Rows
    BY <1>3, <1>4 DEF Rows
  <1>9. TypeOK'
    BY <1>3, <1>4, <1>7, <1>8 DEF TypeOK
  <1>10. RefreshShared'
    BY <1>4, <1>5, <1>6, <1>7, TypeParts, SharedKept DEF Idle
  <1>11. TokenInv'
    <2>1. Numbered'
      BY <1>3, <1>4, <1>6, <1>7, <1>8 DEF Numbered
    <2>2. Arriving'
      <3> SUFFICES ASSUME Rotates, NEW b \in Activities, job'[b].pc = "storing"
                   PROVE  /\ job'[b].refresh \in valid' /\ job'[b].refresh # 0
                          /\ job'[b].refresh # row'.refresh
                          /\ \A c \in Activities \ {b} : job'[c].refresh # job'[b].refresh
        BY <1>4 DEF Arriving, Rotates
      <3>1. b # a /\ job'[b] = job[b]
        BY <1>6, <1>7
      <3>2. /\ job[b].refresh \in valid /\ job[b].refresh # 0
            /\ \A c \in Activities \ {b} : job[c].refresh # job[b].refresh
        BY <3>1 DEF TokenInv, Arriving
      <3>3. job[b].refresh # token
        BY <1>3
      <3> QED
        BY <1>4, <1>6, <1>7, <1>8, <3>1, <3>2, <3>3
    <2>3. Owned'
      <3> SUFFICES ASSUME Rotates, NEW b \in Activities,
                          job'[b].pc \in {"deciding", "refreshing"}, job'[b].refresh = token
                   PROVE  FALSE
        BY <1>4, <1>8 DEF Owned, Rotates
      <3> QED
        BY <1>3, <1>6, <1>7
    <2>4. Lasting' /\ TokensAlive'
      BY <1>4, <1>8 DEF Lasting, TokensAlive
    <2> QED
      BY <2>1, <2>2, <2>3, <2>4 DEF TokenInv
  <1>12. PageInv'
    <2>1. \A x \in calendar : ~(PageOf[x] < 1)
      BY PagesAssumption, TypeParts DEF RestTyped
    <2> QED
      BY <1>4, <1>6, <1>7, <2>1 DEF PageInv
  <1> QED
    BY <1>9, <1>10, <1>11, <1>12

\* A field of every job changes that tokens and refreshes have nothing to do with.
LEMMA AccessExpiresStep ==
    ASSUME IInv, AccessExpires
    PROVE  IInv'
  <1> USE DEF IInv
  <1>1. /\ row'.id = row.id /\ row'.refresh = row.refresh /\ row' \in Rows
        /\ events' \in 0 .. MaxEvents
        /\ UNCHANGED <<provider, calendar, valid, issued, table, locks, lost>>
    BY TypeParts, EventTyped DEF AccessExpires, RestTyped, Rows
  <1>2. \A b \in Activities : job'[b] = [job[b] EXCEPT !.fresh = FALSE]
    BY DEF AccessExpires
  <1>3. \A b \in Activities :
          /\ job'[b].pc = job[b].pc /\ job'[b].id = job[b].id
          /\ job'[b].refresh = job[b].refresh /\ job'[b].held = job[b].held
          /\ job'[b].got = job[b].got /\ job'[b].page = job[b].page
          /\ job'[b] \in Jobs
    <2> TAKE b \in Activities
    <2>1. job'[b] = [job[b] EXCEPT !.fresh = FALSE] /\ job[b] \in Jobs
      BY <1>2, TypeParts, JobFields
    <2> QED
      BY <2>1 DEF Jobs
  <1>4. job' \in [Activities -> Jobs]
    BY <1>3 DEF AccessExpires
  <1>5. TypeOK'
    BY <1>1, <1>4 DEF TypeOK
  <1>6. RefreshShared'
    BY <1>1, <1>3, TypeParts, SharedKept
  <1>7. TokenInv'
    BY <1>1, <1>3, TypeParts, TokensKept
  <1>8. PageInv'
    BY <1>1, <1>3, PagesKept
  <1> QED
    BY <1>5, <1>6, <1>7, <1>8

LEMMA CalendarChangesStep ==
    ASSUME IInv, CalendarChanges
    PROVE  IInv'
  <1> USE DEF IInv
  <1>1. /\ calendar' \subseteq Ids /\ events' \in 0 .. MaxEvents
        /\ UNCHANGED <<provider, valid, issued, row, table, locks, lost>>
    BY TypeParts, EventTyped DEF CalendarChanges
  <1>2. \A b \in Activities : job'[b] = [job[b] EXCEPT !.held = @ \cap calendar']
    BY DEF CalendarChanges
  <1>3. \A b \in Activities :
          /\ job'[b].pc = job[b].pc /\ job'[b].id = job[b].id
          /\ job'[b].refresh = job[b].refresh /\ job'[b].held = job[b].held \cap calendar'
          /\ job'[b].got = job[b].got /\ job'[b].page = job[b].page
          /\ job'[b] \in Jobs
    <2> TAKE b \in Activities
    <2>1. job'[b] = [job[b] EXCEPT !.held = @ \cap calendar'] /\ job[b] \in Jobs
      BY <1>2, TypeParts, JobFields
    <2>2. job[b].held \cap calendar' \in SUBSET Ids
      BY TypeParts, JobFields
    <2> QED
      BY <2>1, <2>2 DEF Jobs
  <1>4. job' \in [Activities -> Jobs]
    BY <1>3 DEF CalendarChanges
  <1>5. TypeOK'
    BY <1>1, <1>4 DEF TypeOK
  <1>6. RefreshShared'
    BY <1>1, <1>3, TypeParts, SharedKept
  <1>7. TokenInv'
    BY <1>1, <1>3, TypeParts, TokensKept
  <1>8. PageInv'
    BY <1>1, <1>3 DEF PageInv
  <1> QED
    BY <1>5, <1>6, <1>7, <1>8

\* A restart forgets every activity, and the tokens on their way with them.
LEMMA RestartStep ==
    ASSUME IInv, Restart
    PROVE  IInv'
  <1> USE DEF IInv
  <1>1. /\ \A b \in Activities : job'[b] = Idle
        /\ job' \in [Activities -> Jobs] /\ locks' = {} /\ events' \in 0 .. MaxEvents
        /\ UNCHANGED <<provider, calendar, valid, issued, row, table>>
    BY TypeParts, EventTyped, IdleTyped DEF Restart
  <1>2. lost' = (lost \/ (Rotates /\ \E b \in Activities : job[b].pc = "storing"))
    BY DEF Restart
  <1>3. TypeOK'
    <2>1. lost' \in BOOLEAN
      BY <1>2
    <2> QED
      BY <1>1, <2>1 DEF TypeOK
  <1>4. RefreshShared'
    BY <1>1 DEF RefreshShared, Idle
  <1>5. TokenInv'
    <2>1. Numbered' /\ Arriving' /\ Owned'
      BY <1>1, TypeParts DEF TokenInv, Numbered, Arriving, Owned, RestTyped, Idle
    <2>2. Lasting'
      BY <1>1 DEF TokenInv, Lasting, Rotates
    <2>3. TokensAlive'
      BY <1>1, <1>2 DEF TokenInv, Lasting, TokensAlive
    <2> QED
      BY <2>1, <2>2, <2>3 DEF TokenInv
  <1>6. PageInv'
    BY <1>1 DEF PageInv, Idle
  <1> QED
    BY <1>3, <1>4, <1>5, <1>6

-----------------------------------------------------------------------------
LEMMA StutterStep ==
    ASSUME IInv, UNCHANGED vars
    PROVE  IInv'
  <1> USE DEF vars
  <1>1. TypeOK'
    BY DEF IInv, TypeOK
  <1>2. RefreshShared'
    BY DEF IInv, RefreshShared, SharesRefresh, Refreshing
  <1>3. TokenInv'
    BY DEF IInv, TokenInv, Numbered, Arriving, Owned, Lasting, TokensAlive, Rotates
  <1>4. PageInv'
    BY DEF IInv, PageInv
  <1> QED
    BY <1>1, <1>2, <1>3, <1>4 DEF IInv

LEMMA NextIInv == IInv /\ [Next]_vars => IInv'
  <1> SUFFICES ASSUME IInv, [Next]_vars PROVE IInv'
    OBVIOUS
  <1>1. ASSUME NEW a \in Activities, Start(a) \/ Work(a)
        PROVE  IInv'
    BY <1>1, StartStep, DecideStep, RefreshStep, FailStep, StoreStep, AnswerStep,
       FetchPageStep, UpsertStep, PruneStep DEF Work
  <1>2. ASSUME NEW a \in Activities, AnswerLost(a) \/ FetchFails(a) \/ Connect(a)
        PROVE  IInv'
    BY <1>2, AnswerLostStep, FetchFailsStep, ConnectStep
  <1>3. CASE Disconnect \/ AccessExpires \/ CalendarChanges \/ Restart
    BY <1>3, DisconnectStep, AccessExpiresStep, CalendarChangesStep, RestartStep
  <1>4. CASE UNCHANGED vars
    BY <1>4, StutterStep
  <1> QED
    BY <1>1, <1>2, <1>3, <1>4 DEF Next

\* The invariant of a connected account: types, locks, tokens and pages.
THEOREM Inductive == Spec => []IInv
  BY InitIInv, NextIInv, PTL DEF Spec

\* Type correctness, for any events, pages, activities and bounds.
THEOREM TypeCorrect == Spec => []TypeOK
  <1>1. IInv => TypeOK
    BY DEF IInv
  <1> QED
    BY <1>1, Inductive, PTL

\* For an account of Zoom at most one activity refreshes at a time, and whoever waits
\* waits for it (getValidToken of zoom.service.ts).
THEOREM SharesOneRefresh == Spec => []RefreshShared
  <1>1. IInv => RefreshShared
    BY DEF IInv
  <1> QED
    BY <1>1, Inductive, PTL

\* The account does not have to be reconnected, unless a rotated token was lost on its
\* way to the database: refreshAccessToken() of the services with handleCallback().
THEOREM StoredTokenValid == Spec => []TokensAlive
  <1>1. IInv => TokensAlive
    BY DEF IInv, TokenInv
  <1> QED
    BY <1>1, Inductive, PTL

\* syncEvents() prunes no event that the calendar has held since it began, but for
\* Webex, which takes a page that fails for the end of the list.
THEOREM PrunesSafely == Spec => PruneSafe
  <1>1. ASSUME IInv, NEW a \in Activities, provider # "webex", Prune(a)
        PROVE  table \cap job[a].held \subseteq table'
    <2>1. job[a].held \subseteq job[a].got
      BY <1>1 DEF IInv, PageInv, Prune
    <2> QED
      BY <1>1, <2>1 DEF Prune, Kept
  <1>2. IInv /\ [Next]_vars =>
          [\A a \in Activities :
             provider # "webex" /\ Prune(a) => table \cap job[a].held \subseteq table']_vars
    BY <1>1
  <1> QED
    BY <1>2, Inductive, PTL DEF Spec, PruneSafe

-----------------------------------------------------------------------------
(* A sync that nothing disturbs                                              *)

\* What the sync has in hand are the calendar's events of the pages it has read; once it
\* writes, those it has written are in the table.
Mirror(a) ==
    IF job[a].pc = "writing"
    THEN /\ job[a].got = calendar
         /\ row.id = job[a].id => job[a].got \ job[a].todo \subseteq table
    ELSE job[a].got = {x \in calendar : PageOf[x] < job[a].page}

\* A step that does not disturb the sync: the calendar keeps still, the account stays
\* connected, nobody else writes to the table, and no page ends the list by failing.
Undisturbed(a) ==
    /\ UNCHANGED calendar
    /\ row'.id = row.id
    /\ \A b \in Activities \ {a} : ~Upsert(b) /\ ~Prune(b)
    /\ ~(StopsAtError /\ FetchFails(a))

\* The sync has read no page yet.
LEMMA MirrorBegins ==
    ASSUME TypeOK, UNCHANGED calendar, NEW a \in Activities,
           job'[a].pc # "writing", job'[a].got = {}, job'[a].page = 1
    PROVE  Mirror(a)'
  <1>1. \A x \in calendar : ~(PageOf[x] < 1)
    BY PagesAssumption DEF TypeOK
  <1> QED
    BY <1>1 DEF Mirror

LEMMA MirrorIdle ==
    ASSUME TypeOK, UNCHANGED calendar, NEW a \in Activities, job'[a] = Idle
    PROVE  Mirror(a)'
  BY MirrorBegins DEF Idle

\* What it has in hand stays the same.
LEMMA MirrorKept ==
    ASSUME NEW a \in Activities, Mirror(a), UNCHANGED <<calendar, table>>,
           row'.id = row.id,
           (job'[a].pc = "writing") <=> (job[a].pc = "writing"),
           job'[a].id = job[a].id, job'[a].page = job[a].page,
           job'[a].got = job[a].got, job'[a].todo = job[a].todo
    PROVE  Mirror(a)'
  BY DEF Mirror

\* The steps of the sync itself.
LEMMA MirrorWorks ==
    ASSUME TypeOK, NEW a \in Syncs, Mirror(a), Undisturbed(a),
           FetchPage(a) \/ Upsert(a) \/ Prune(a) \/ FetchFails(a)
    PROVE  Mirror(a)'
  <1>1. a \in Activities /\ JobsTyped /\ UNCHANGED calendar /\ row'.id = row.id
    BY TypeParts DEF Activities, Undisturbed
  <1>2. job[a].page \in 1 .. LastPage /\ job[a].got \in SUBSET Ids
    BY <1>1, JobFields
  <1>3. \A x \in calendar : PageOf[x] \in 1 .. LastPage
    BY PagesAssumption DEF TypeOK
  <1>4. CASE FetchPage(a)
    <2> DEFINE got == job[a].got \cup {x \in calendar : PageOf[x] = job[a].page}
    <2>1. got = {x \in calendar : PageOf[x] < job[a].page + 1}
      BY <1>2, <1>3, <1>4, PagesAssumption DEF Mirror, FetchPage
    <2>2. CASE job[a].page = LastPage
      <3>1. job'[a] = Writing(job[a], got)
        BY <1>1, <1>4, <2>2 DEF FetchPage, AtLast, JobsTyped
      <3>2. got = calendar
        BY <1>3, <2>1, <2>2, PagesAssumption
      <3> QED
        BY <1>1, <3>1, <3>2 DEF Mirror, Writing, Idle
    <2>3. CASE job[a].page # LastPage
      <3>1. job'[a] = [job[a] EXCEPT !.page = job[a].page + 1, !.got = got]
        BY <1>1, <1>4, <2>3 DEF FetchPage, AtLast, JobsTyped
      <3>2. /\ job'[a].pc = "fetching" /\ job'[a].page = job[a].page + 1
            /\ job'[a].got = got
        <4>1. job[a] \in Jobs /\ job[a].pc = "fetching"
          BY <1>1, <1>4, JobFields DEF FetchPage
        <4> HIDE DEF got
        <4> QED
          BY <3>1, <4>1 DEF Jobs
      <3> QED
        BY <1>1, <2>1, <3>2 DEF Mirror
    <2> QED
      BY <2>2, <2>3
  <1>5. CASE Upsert(a)
    <2>1. PICK x \in FirstOf(job[a].todo) :
            IF row.id = job[a].id
            THEN table' = table \cup {x} /\ job' = [job EXCEPT ![a].todo = @ \ {x}]
            ELSE job' = [job EXCEPT ![a] = Idle] /\ UNCHANGED table
      BY <1>5 DEF Upsert
    <2>2. CASE row.id = job[a].id
      <3>1. job'[a] = [job[a] EXCEPT !.todo = job[a].todo \ {x}]
        BY <1>1, <2>1, <2>2 DEF JobsTyped
      <3>2. /\ job'[a].pc = "writing" /\ job'[a].got = job[a].got
            /\ job'[a].id = job[a].id /\ job'[a].todo = job[a].todo \ {x}
        BY <1>1, <1>5, <3>1, JobFields DEF Upsert, Jobs
      <3> QED
        BY <1>1, <1>5, <2>1, <2>2, <3>2 DEF Mirror, Upsert
    <2>3. CASE row.id # job[a].id
      BY <1>1, <2>1, <2>3, MirrorIdle DEF JobsTyped
    <2> QED
      BY <2>2, <2>3
  <1>6. CASE Prune(a)
    BY <1>1, <1>6, MirrorIdle DEF Prune, JobsTyped
  <1>7. CASE FetchFails(a)
    <2>1. job'[a] = Idle
      BY <1>1, <1>7 DEF FetchFails, Undisturbed, AfterError, JobsTyped
    <2> QED
      BY <1>1, <2>1, MirrorIdle
  <1> QED
    BY <1>4, <1>5, <1>6, <1>7

\* A refresh that ends, well or not, leaves what those that share it have in hand.
LEMMA MirrorRefreshes ==
    ASSUME TypeOK, NEW a \in Syncs, NEW b \in Activities, Mirror(a),
           UNCHANGED <<calendar, table>>, row'.id = row.id,
           \/ Start(b) \/ Decide(b) \/ Refresh(b) \/ RefreshRejected(b) \/ Store(b)
           \/ StoreFails(b) \/ Answer(b) \/ AnswerLost(b) \/ Connect(b)
    PROVE  Mirror(a)'
  <1>1. a \in Activities /\ JobsTyped /\ job[a] \in Jobs
    BY TypeParts, JobFields DEF Activities
  <1> DEFINE SameHand ==
        /\ (job'[a].pc = "writing") <=> (job[a].pc = "writing")
        /\ job'[a].id = job[a].id /\ job'[a].page = job[a].page
        /\ job'[a].got = job[a].got /\ job'[a].todo = job[a].todo
  <1>2. ASSUME job'[a] = job[a] PROVE SameHand
    BY <1>2
  <1>3. ASSUME NEW p \in {"waiting", "refreshing", "storing", "fetching"}, NEW r, NEW f,
               job[a].pc # "writing",
               job'[a] = [job[a] EXCEPT !.pc = p, !.refresh = r, !.fresh = f]
        PROVE  SameHand
    BY <1>1, <1>3 DEF Jobs
  <1>4. CASE Start(b)
    <2>1. CASE a = b
      <3>1. job'[a] = Started(a, FALSE)
        BY <1>1, <1>4, <2>1 DEF Start, JobsTyped
      <3> QED
        BY <1>1, <3>1, MirrorBegins DEF Started, Idle
    <2>2. CASE a # b
      BY <1>1, <1>2, <1>4, <2>2, MirrorKept DEF Start, JobsTyped
    <2> QED
      BY <2>1, <2>2
  <1>5. CASE Decide(b)
    <2>1. CASE a = b
      <3>1. \E p \in {"waiting", "refreshing", "fetching"} : job' = [job EXCEPT ![a].pc = p]
        BY <1>5, <2>1 DEF Decide
      <3>2. job[a].pc # "writing"
        BY <1>5, <2>1 DEF Decide
      <3>3. PICK p \in {"waiting", "refreshing", "fetching"} :
              job'[a] = [job[a] EXCEPT !.pc = p]
        BY <1>1, <3>1 DEF JobsTyped
      <3>4. SameHand
        BY <1>1, <3>2, <3>3 DEF Jobs
      <3> QED
        BY <1>1, <3>4, MirrorKept
    <2>2. CASE a # b
      BY <1>1, <1>2, <1>5, <2>2, MirrorKept DEF Decide, JobsTyped
    <2> QED
      BY <2>1, <2>2
  <1>6. CASE Refresh(b)
    <2>1. CASE a = b
      <3>1. job[a].pc # "writing"
        BY <1>6, <2>1 DEF Refresh, Granted
      <3>2. job'[a] = [job[a] EXCEPT !.pc = "storing",
                                     !.refresh = IF Rotates THEN issued' ELSE @]
        BY <1>1, <1>6, <2>1 DEF Refresh, JobsTyped
      <3>3. SameHand
        BY <1>1, <3>1, <3>2 DEF Jobs
      <3> QED
        BY <1>1, <3>3, MirrorKept
    <2>2. CASE a # b
      BY <1>1, <1>2, <1>6, <2>2, MirrorKept DEF Refresh, JobsTyped
    <2> QED
      BY <2>1, <2>2
  <1>7. CASE RefreshRejected(b) \/ StoreFails(b) \/ AnswerLost(b)
    <2>1. job'[a] = Idle \/ job'[a] = job[a]
      BY <1>1, <1>7 DEF RefreshRejected, StoreFails, AnswerLost, Failed
    <2> QED
      BY <1>1, <1>2, <2>1, MirrorIdle, MirrorKept
  <1>8. CASE Store(b)
    <2>1. \/ job'[a] = job[a]
          \/ /\ a = b \/ a \in Sharing(b)
             /\ job'[a] = [job[a] EXCEPT !.pc = "fetching", !.fresh = TRUE]
      BY <1>1, <1>8 DEF Store
    <2>2. a = b \/ a \in Sharing(b) => job[a].pc # "writing"
      BY <1>8 DEF Store, Sharing
    <2>3. CASE job'[a] = job[a]
      BY <1>1, <1>2, <2>3, MirrorKept
    <2>4. CASE /\ job[a].pc # "writing"
               /\ job'[a] = [job[a] EXCEPT !.pc = "fetching", !.fresh = TRUE]
      <3>1. SameHand
        BY <1>1, <2>4 DEF Jobs
      <3> QED
        BY <1>1, <3>1, MirrorKept
    <2> QED
      BY <2>1, <2>2, <2>3, <2>4
  <1>9. CASE Answer(b)
    <2>1. a # b => job'[a] = job[a]
      BY <1>1, <1>9 DEF Answer, JobsTyped
    <2>2. a # b
      BY <1>9, ActivitiesAssumption DEF Answer
    <2> QED
      BY <1>1, <1>2, <2>1, <2>2, MirrorKept
  <1>10. CASE Connect(b)
    <2>1. CASE a = b
      <3>1. /\ job'[a].pc = "fetching" /\ job'[a].got = {} /\ job'[a].page = 1
        BY <1>1, <1>10, <2>1 DEF Connect, Idle, JobsTyped
      <3> QED
        BY <1>1, <3>1, MirrorBegins
    <2>2. CASE a # b
      BY <1>1, <1>2, <1>10, <2>2, MirrorKept DEF Connect, JobsTyped
    <2> QED
      BY <2>1, <2>2
  <1> QED
    BY <1>4, <1>5, <1>6, <1>7, <1>8, <1>9, <1>10

\* The steps that leave the table alone, but for disconnection.
LEMMA TableKept ==
    ASSUME NEW b \in Activities,
           \/ Start(b) \/ Decide(b) \/ Refresh(b) \/ RefreshRejected(b) \/ Store(b)
           \/ StoreFails(b) \/ Answer(b) \/ AnswerLost(b) \/ Connect(b)
           \/ FetchPage(b) \/ FetchFails(b)
    PROVE  UNCHANGED <<calendar, table>>
  BY DEF Start, Decide, Refresh, RefreshRejected, Store, StoreFails, Answer, AnswerLost,
         Connect, FetchPage, FetchFails

\* Any step that does not disturb the sync.
LEMMA MirrorStep ==
    ASSUME TypeOK, NEW a \in Syncs, Mirror(a), Undisturbed(a), [Next]_vars
    PROVE  Mirror(a)'
  <1>1. a \in Activities /\ JobsTyped /\ UNCHANGED calendar /\ row'.id = row.id
    BY TypeParts DEF Activities, Undisturbed
  <1>2. job[a] \in Jobs
    BY <1>1, JobFields
  <1>3. ASSUME NEW b \in Activities, Start(b) \/ Work(b) \/ AnswerLost(b) \/ Connect(b)
        PROVE  Mirror(a)'
    <2>1. CASE \/ Start(b) \/ Decide(b) \/ Refresh(b) \/ RefreshRejected(b) \/ Store(b)
               \/ StoreFails(b) \/ Answer(b) \/ AnswerLost(b) \/ Connect(b)
      BY <1>1, <2>1, TableKept, MirrorRefreshes
    <2>2. CASE FetchPage(b) \/ Upsert(b) \/ Prune(b)
      <3>1. CASE a = b
        BY <2>2, <3>1, MirrorWorks
      <3>2. CASE a # b
        <4>1. FetchPage(b)
          BY <1>1, <2>2, <3>2 DEF Undisturbed
        <4>2. job'[a] = job[a] /\ UNCHANGED table
          BY <1>1, <3>2, <4>1 DEF FetchPage, JobsTyped
        <4> QED
          BY <1>1, <4>2, MirrorKept
      <3> QED
        BY <3>1, <3>2
    <2> QED
      BY <1>3, <2>1, <2>2 DEF Work
  <1>4. ASSUME NEW b \in Activities, FetchFails(b)
        PROVE  Mirror(a)'
    <2>1. CASE a = b
      BY <1>4, <2>1, MirrorWorks
    <2>2. CASE a # b
      <3>1. job'[a] = job[a] /\ UNCHANGED table
        BY <1>1, <1>4, <2>2 DEF FetchFails, JobsTyped
      <3> QED
        BY <1>1, <3>1, MirrorKept
    <2> QED
      BY <2>1, <2>2
  <1>5. ~Disconnect
    BY <1>1 DEF Disconnect, TypeOK, Rows
  <1>6. CASE AccessExpires
    <2>1. job'[a] = [job[a] EXCEPT !.fresh = FALSE] /\ UNCHANGED table
      BY <1>1, <1>6 DEF AccessExpires
    <2>2. /\ job'[a].pc = job[a].pc /\ job'[a].id = job[a].id
          /\ job'[a].page = job[a].page /\ job'[a].got = job[a].got
          /\ job'[a].todo = job[a].todo
      BY <1>2, <2>1 DEF Jobs
    <2> QED
      BY <1>1, <2>1, <2>2, MirrorKept
  <1>7. CASE CalendarChanges
    <2>1. job'[a] = [job[a] EXCEPT !.held = @ \cap calendar'] /\ UNCHANGED table
      BY <1>1, <1>7 DEF CalendarChanges
    <2>2. /\ job'[a].pc = job[a].pc /\ job'[a].id = job[a].id
          /\ job'[a].page = job[a].page /\ job'[a].got = job[a].got
          /\ job'[a].todo = job[a].todo
      BY <1>2, <2>1 DEF Jobs
    <2> QED
      BY <1>1, <2>1, <2>2, MirrorKept
  <1>8. CASE Restart
    BY <1>1, <1>8, MirrorIdle DEF Restart
  <1>9. CASE UNCHANGED vars
    BY <1>1, <1>9, MirrorKept DEF vars
  <1> QED
    BY <1>3, <1>4, <1>5, <1>6, <1>7, <1>8, <1>9 DEF Next

\* The sync ends with the calendar in the table, unless that is empty (then it prunes
\* nothing) or the account was disconnected.
Mirrors(a) ==
    [][Prune(a) /\ row.id = job[a].id /\ calendar # {} => table' = calendar]_vars

\* From the moment an activity is idle, and as long as nothing disturbs it: every sync it
\* completes leaves the table equal to the calendar, whatever the pages, however often the
\* token expires, is refreshed or shared, and whatever the table held before
\* (syncEvents() of the services).
THEOREM CompleteSyncMirrors ==
    \A a \in Syncs :
        Spec => [](job[a] = Idle /\ [][Undisturbed(a)]_vars => Mirrors(a))
  <1> SUFFICES ASSUME NEW a \in Syncs
               PROVE  Spec => [](job[a] = Idle /\ [][Undisturbed(a)]_vars => Mirrors(a))
    OBVIOUS
  <1> DEFINE Ends == Prune(a) /\ row.id = job[a].id /\ calendar # {} => table' = calendar
  <1>1. TypeOK /\ job[a] = Idle => Mirror(a)
    <2>1. TypeOK => \A x \in calendar : ~(PageOf[x] < 1)
      BY PagesAssumption DEF TypeOK
    <2> QED
      BY <2>1 DEF Mirror, Idle
  <1>2. TypeOK /\ Mirror(a) /\ [Next]_vars /\ [Undisturbed(a)]_vars => Mirror(a)'
    <2> SUFFICES ASSUME TypeOK, Mirror(a), [Next]_vars, [Undisturbed(a)]_vars
                 PROVE  Mirror(a)'
      OBVIOUS
    <2>1. CASE Undisturbed(a)
      BY <2>1, MirrorStep
    <2>2. CASE UNCHANGED vars
      BY <2>2, MirrorKept DEF vars, Activities
    <2> QED
      BY <2>1, <2>2
  <1>3. Mirror(a) => [Ends]_vars
    <2> SUFFICES ASSUME Mirror(a), Prune(a), row.id = job[a].id, calendar # {}
                 PROVE  table' = calendar
      OBVIOUS
    <2>1. calendar \subseteq table /\ job[a].got = calendar
      BY DEF Mirror, Prune
    <2> QED
      BY <2>1 DEF Prune, Kept
  <1> QED
    BY <1>1, <1>2, <1>3, TypeCorrect, PTL DEF Spec, Mirrors
=============================================================================
