------------------------- MODULE MessageBoardProofs -------------------------
(***************************************************************************)
(* Theorems about MessageBoard, for any tabs and bounds: the types, that a *)
(* message cancelled or superseded stays so, unless a timer had read its   *)
(* status before, what the agent is told, and when a message replaces the  *)
(* others.                                                                 *)
(***************************************************************************)
EXTENDS MessageBoard, FiniteSetTheorems, WellFoundedInduction, TLAPS

\* The tabs whose POST is in flight.
Busy == {c \in Clients : creating[c].phase # "idle"}

\* Each of them has its place in the table, below the bound.
PlacesLeft == Len(rows) + Cardinality(Busy) <= MaxMessages

\* A run of advance() that has read does not write a message that was settled.
NoneBehind == \A j \in jobs : j.read => j.id \notin settled

IInv == TypeOK /\ PlacesLeft /\ CancelledForGood /\ NoneBehind

-----------------------------------------------------------------------------
(* Sequences and sets                                                        *)

\* A function over 1 .. n is a sequence of length n.
LEMMA FunctionIsSeq ==
    ASSUME NEW S, NEW n \in Nat, NEW f \in [1 .. n -> S]
    PROVE  f \in Seq(S) /\ Len(f) = n /\ DOMAIN f = 1 .. n
  OBVIOUS

\* A table of the same length, each of its rows a row.
LEMMA RowsMapped ==
    ASSUME TypeOK, NEW g, g \in [DOMAIN rows -> Row]
    PROVE  g \in Seq(Row) /\ Len(g) = Len(rows) /\ DOMAIN g = DOMAIN rows
  <1>1. DOMAIN rows = 1 .. Len(rows) /\ Len(rows) \in Nat
    BY DEF TypeOK
  <1>2. g \in [1 .. Len(rows) -> Row]
    BY <1>1
  <1> QED
    BY <1>1, <1>2, FunctionIsSeq

\* A bounded set of numbers has a largest one.
LEMMA LargestIn ==
    ASSUME NEW n \in Nat, NEW S \in SUBSET (1 .. n), S # {}
    PROVE  \E m \in S : \A k \in S : k <= m
  <1> DEFINE T == {i \in Nat : n - i \in S}
  <1>1. \E i \in Nat : i \in T
    <2>1. PICK k \in S : TRUE
      OBVIOUS
    <2>2. n - k \in Nat /\ n - (n - k) = k
      OBVIOUS
    <2> QED
      BY <2>1, <2>2
  <1>2. T \subseteq Nat /\ T # {}
    BY <1>1
  <1> HIDE DEF T
  <1> DEFINE R == {pair \in Nat \X Nat : pair[1] < pair[2]}
  <1>3. IsWellFoundedOn(R, Nat)
    BY NatLessThanWellFounded DEF OpToRel
  <1>4. \E m \in T : \A i \in T : ~(<<i, m>> \in R)
    <2> HIDE DEF R
    <2> QED
      BY <1>2, <1>3, WFMin
  <1>5. PICK least \in T : \A i \in T : least <= i
    <2>1. PICK m \in T : \A i \in T : ~(<<i, m>> \in R)
      BY <1>4
    <2>2. \A i \in T : ~(i < m)
      BY <1>2, <2>1
    <2> QED
      BY <1>2, <2>2
  <1>6. n - least \in S /\ least \in Nat
    BY <1>5 DEF T
  <1>7. ASSUME NEW k \in S PROVE k <= n - least
    <2>1. n - k \in T
      BY DEF T
    <2>2. least <= n - k
      BY <1>5, <2>1
    <2> QED
      BY <1>6, <2>2
  <1> QED
    BY <1>6, <1>7

\* Setting the status of one message.
LEMMA StatusSet ==
    ASSUME TypeOK, NEW i \in DOMAIN rows, NEW s \in Statuses, SetStatus(i, s)
    PROVE  /\ rows' \in Seq(Row) /\ Len(rows') = Len(rows) /\ DOMAIN rows' = DOMAIN rows
           /\ rows'[i].status = s
           /\ \A k \in DOMAIN rows : k # i => rows'[k] = rows[k]
  <1>1. rows \in [DOMAIN rows -> Row]
    BY DEF TypeOK
  <1>2. [rows[i] EXCEPT !.status = s] \in Row /\ [rows[i] EXCEPT !.status = s].status = s
    BY <1>1 DEF Row
  <1>3. rows' \in [DOMAIN rows -> Row]
    BY <1>1, <1>2 DEF SetStatus
  <1> QED
    BY <1>1, <1>2, <1>3, RowsMapped DEF SetStatus

\* The tabs in flight are finitely many.
LEMMA BusyFinite == IsFiniteSet(Busy) /\ Cardinality(Busy) \in Nat
  <1>1. IsFiniteSet(Clients)
    BY ClientsAssumption, FS_Union DEF Clients
  <1> QED
    BY <1>1, FS_Subset, FS_CardinalityType DEF Busy

\* A tab that goes back to idle frees a place.
LEMMA PlaceFreed ==
    ASSUME TypeOK, NEW c \in Clients, creating[c].phase # "idle",
           creating' = [creating EXCEPT ![c] = NoDraft]
    PROVE  Cardinality(Busy') = Cardinality(Busy) - 1
  <1>1. Busy' = Busy \ {c}
    BY DEF Busy, TypeOK, NoDraft, Drafts
  <1>2. c \in Busy
    BY DEF Busy
  <1> QED
    BY <1>1, <1>2, BusyFinite, FS_RemoveElement

-----------------------------------------------------------------------------
LEMMA InitIInv == Init => IInv
  <1> SUFFICES ASSUME Init PROVE IInv
    OBVIOUS
  <1>1. TypeOK
    BY LimitsAssumption DEF Init, TypeOK, Drafts, NoDraft, Phases
  <1>2. Busy = {}
    BY DEF Init, Busy, NoDraft
  <1>3. PlacesLeft
    BY <1>2, FS_EmptySet, LimitsAssumption DEF PlacesLeft, Init
  <1>4. CancelledForGood /\ NoneBehind
    BY DEF Init, CancelledForGood, NoneBehind
  <1> QED
    BY <1>1, <1>3, <1>4 DEF IInv

\* A POST begins: it takes a place.
LEMMA PostStep ==
    ASSUME IInv, NEW c \in Clients, NEW permanent \in BOOLEAN, Post(c, permanent)
    PROVE  IInv'
  <1>1. TypeOK'
    BY DEF IInv, TypeOK, Post, Drafts, Phases
  <1>2. Busy' = Busy \cup {c} /\ c \notin Busy
    BY DEF IInv, TypeOK, Post, Busy, Drafts
  <1>3. Len(rows) + Cardinality(Busy) < MaxMessages
    BY DEF Post, Busy
  <1>4. Len(rows) \in Nat
    BY DEF IInv, TypeOK
  <1>5. Cardinality(Busy') = Cardinality(Busy) + 1
    BY <1>2, BusyFinite, FS_AddElement
  <1>6. PlacesLeft'
    BY <1>3, <1>4, <1>5, BusyFinite, LimitsAssumption DEF PlacesLeft, Post
  <1>7. CancelledForGood' /\ NoneBehind'
    BY DEF IInv, CancelledForGood, NoneBehind, Post
  <1> QED
    BY <1>1, <1>6, <1>7 DEF IInv

\* Superseding cancels every custom message that is not cancelled yet.
LEMMA SupersedeStep ==
    ASSUME IInv, NEW c \in Clients, Supersede(c)
    PROVE  IInv'
  <1>1. rows \in [DOMAIN rows -> Row] /\ DOMAIN rows = 1 .. Len(rows) /\ Len(rows) \in Nat
    BY DEF IInv, TypeOK
  <1>2. \A i \in DOMAIN rows :
          /\ rows'[i] \in Row
          /\ rows'[i] = rows[i] \/ rows'[i].status = "cancelled"
          /\ rows[i].custom => rows'[i].status = "cancelled"
    BY <1>1 DEF Supersede, Superseded, Row, Statuses
  <1>3. rows' \in [DOMAIN rows -> Row]
    BY <1>2 DEF Supersede
  <1>4. rows' \in Seq(Row) /\ Len(rows') = Len(rows) /\ DOMAIN rows' = DOMAIN rows
    BY <1>3, RowsMapped DEF IInv
  <1>5. settled' \subseteq DOMAIN rows
    BY DEF IInv, TypeOK, Supersede
  <1>6. TypeOK'
    BY <1>4, <1>5 DEF IInv, TypeOK, Supersede, Drafts, Phases
  <1>7. Busy' = Busy
    BY DEF IInv, TypeOK, Supersede, Busy, Drafts
  <1>8. PlacesLeft'
    BY <1>4, <1>7 DEF IInv, PlacesLeft
  <1>9. CancelledForGood'
    BY <1>2, <1>5 DEF IInv, TypeOK, CancelledForGood, Supersede
  <1>10. NoneBehind'
    BY DEF IInv, NoneBehind, Supersede, HasRead
  <1> QED
    BY <1>6, <1>8, <1>9, <1>10 DEF IInv

\* An insertion: the table grows by one row, with timers that have not read.
LEMMA InsertStep ==
    ASSUME IInv, NEW c \in Clients, Insert(c)
    PROVE  IInv'
  <1> DEFINE row == [custom |-> c \in Pages, permanent |-> creating[c].permanent,
                     status |-> "pending"]
  <1>1. Cardinality(Busy') = Cardinality(Busy) - 1
    BY PlaceFreed DEF IInv, Insert
  <1>2. Len(rows) \in Nat /\ DOMAIN rows = 1 .. Len(rows)
    BY DEF IInv, TypeOK
  <1>3. c \in Busy
    BY DEF Busy, Insert
  <1>4. Cardinality(Busy) >= 1
    BY <1>3, BusyFinite, FS_EmptySet
  <1>5. row \in Row
    <2>1. creating[c].permanent \in BOOLEAN
      BY DEF IInv, TypeOK, Drafts
    <2> QED
      BY <2>1 DEF Row, Statuses
  <1>6. rows' = Append(rows, row)
    BY DEF Insert
  <1> HIDE DEF row
  <1>7. /\ rows' \in Seq(Row) /\ Len(rows') = Len(rows) + 1
        /\ \A i \in DOMAIN rows : rows'[i] = rows[i] /\ i \in DOMAIN rows'
        /\ Len(rows) + 1 \in DOMAIN rows'
    BY <1>2, <1>5, <1>6 DEF IInv, TypeOK
  <1>8. Len(rows') <= MaxMessages /\ PlacesLeft'
    BY <1>1, <1>2, <1>4, <1>7, BusyFinite, LimitsAssumption DEF IInv, PlacesLeft
  <1>9. \A j \in jobs' : j \in jobs \/ (j \in Job /\ j.id = Len(rows) + 1 /\ ~j.read)
    <2>1. Len(rows) + 1 \in 1 .. MaxMessages
      BY <1>2, <1>7, <1>8, LimitsAssumption
    <2>2. ASSUME NEW j \in Timers(Len(rows) + 1, creating[c].permanent)
          PROVE  j \in Job /\ j.id = Len(rows) + 1 /\ ~j.read
      <3>1. PICK to \in {"sent", "delivered"} :
              j = [id |-> Len(rows) + 1, to |-> to, read |-> FALSE]
        BY Zenon DEF Timers
      <3> QED
        BY <2>1, <3>1 DEF Job
    <2> QED
      BY <2>2 DEF Insert
  <1>10. TypeOK'
    <2>1. jobs' \subseteq Job /\ \A j \in jobs' : j.id \in DOMAIN rows'
      BY <1>7, <1>9 DEF IInv, TypeOK
    <2>2. creating' \in [Clients -> Drafts]
      BY DEF IInv, TypeOK, Insert, Drafts, NoDraft, Phases
    <2> QED
      BY <1>7, <1>8, <2>1, <2>2 DEF IInv, TypeOK, Insert
  <1>11. CancelledForGood'
    BY <1>7 DEF IInv, TypeOK, CancelledForGood, Insert
  <1>12. NoneBehind'
    BY <1>9 DEF IInv, NoneBehind, Insert
  <1> QED
    BY <1>8, <1>10, <1>11, <1>12 DEF IInv

\* A POST that fails frees its place.
LEMMA CreateFailsStep ==
    ASSUME IInv, NEW c \in Clients, CreateFails(c)
    PROVE  IInv'
  <1>1. Cardinality(Busy') = Cardinality(Busy) - 1
    BY PlaceFreed DEF IInv, CreateFails
  <1>2. Len(rows) \in Nat
    BY DEF IInv, TypeOK
  <1>3. PlacesLeft'
    BY <1>1, <1>2, BusyFinite, LimitsAssumption DEF IInv, PlacesLeft, CreateFails
  <1>4. TypeOK'
    BY LimitsAssumption DEF IInv, TypeOK, CreateFails, Drafts, NoDraft, Phases
  <1>5. CancelledForGood' /\ NoneBehind'
    BY DEF IInv, CancelledForGood, NoneBehind, CreateFails
  <1> QED
    BY <1>3, <1>4, <1>5 DEF IInv

-----------------------------------------------------------------------------
\* What leaves the POSTs in flight alone, and the length of the table, leaves the places.
LEMMA PlacesKept ==
    ASSUME PlacesLeft, UNCHANGED creating, Len(rows') = Len(rows)
    PROVE  PlacesLeft'
  <1>1. Busy' = Busy
    BY DEF Busy
  <1> QED
    BY <1>1 DEF PlacesLeft

\* A timer that reads goes on to write only a message that is not cancelled.
LEMMA AdvanceReadStep ==
    ASSUME IInv, NEW j \in jobs, AdvanceRead(j)
    PROVE  IInv'
  <1>1. \A k \in jobs' : k \in jobs \/ (k = [j EXCEPT !.read = TRUE]
                                       /\ rows[j.id].status # "cancelled")
    BY DEF AdvanceRead
  <1>2. j \in Job /\ j.id \in DOMAIN rows
    BY DEF IInv, TypeOK
  <1>3. [j EXCEPT !.read = TRUE] \in Job /\ [j EXCEPT !.read = TRUE].id = j.id
    BY <1>2 DEF Job
  <1>4. TypeOK'
    BY <1>1, <1>2, <1>3 DEF IInv, TypeOK, AdvanceRead
  <1>5. CancelledForGood'
    BY DEF IInv, CancelledForGood, AdvanceRead
  <1>6. NoneBehind'
    BY <1>1, <1>3 DEF IInv, NoneBehind, CancelledForGood, AdvanceRead
  <1> QED
    BY <1>4, <1>5, <1>6, PlacesKept DEF IInv, AdvanceRead

\* A timer that writes had read a message that nobody has settled since.
LEMMA AdvanceWriteStep ==
    ASSUME IInv, NEW j \in jobs, AdvanceWrite(j)
    PROVE  IInv'
  <1>1. j.id \in DOMAIN rows /\ j.to \in Statuses /\ j.id \notin settled
    BY DEF IInv, TypeOK, NoneBehind, AdvanceWrite, Job, Statuses
  <1>2. /\ rows' \in Seq(Row) /\ Len(rows') = Len(rows) /\ DOMAIN rows' = DOMAIN rows
        /\ \A k \in DOMAIN rows : k # j.id => rows'[k] = rows[k]
    BY <1>1, StatusSet DEF IInv, AdvanceWrite
  <1>3. TypeOK'
    BY <1>2 DEF IInv, TypeOK, AdvanceWrite
  <1>4. CancelledForGood' /\ NoneBehind'
    BY <1>1, <1>2 DEF IInv, TypeOK, CancelledForGood, NoneBehind, AdvanceWrite
  <1> QED
    BY <1>2, <1>3, <1>4, PlacesKept DEF IInv, AdvanceWrite

LEMMA AdvanceFailsStep ==
    ASSUME IInv, NEW j \in jobs, AdvanceFails(j)
    PROVE  IInv'
  <1>1. TypeOK'
    BY LimitsAssumption DEF IInv, TypeOK, AdvanceFails
  <1>2. CancelledForGood' /\ NoneBehind'
    BY DEF IInv, CancelledForGood, NoneBehind, AdvanceFails
  <1> QED
    BY <1>1, <1>2, PlacesKept DEF IInv, AdvanceFails

\* A message that is cancelled is settled, unless a timer has read it.
LEMMA CancelStep ==
    ASSUME IInv, NEW i \in DOMAIN rows, Cancel(i)
    PROVE  IInv'
  <1>1. /\ rows' \in Seq(Row) /\ Len(rows') = Len(rows) /\ DOMAIN rows' = DOMAIN rows
        /\ rows'[i].status = "cancelled"
        /\ \A k \in DOMAIN rows : k # i => rows'[k] = rows[k]
    BY StatusSet DEF IInv, Cancel, Statuses
  <1>2. TypeOK'
    BY <1>1 DEF IInv, TypeOK, Cancel
  <1>3. CancelledForGood'
    BY <1>1 DEF IInv, TypeOK, CancelledForGood, Cancel
  <1>4. NoneBehind'
    BY DEF IInv, NoneBehind, Cancel, HasRead
  <1> QED
    BY <1>1, <1>2, <1>3, <1>4, PlacesKept DEF IInv, Cancel

\* A restart forgets the POSTs and the timers.
LEMMA RestartStep ==
    ASSUME IInv, Restart
    PROVE  IInv'
  <1>1. TypeOK'
    BY LimitsAssumption DEF IInv, TypeOK, Restart, Drafts, NoDraft, Phases
  <1>2. Busy' = {}
    BY DEF Busy, Restart, NoDraft
  <1>3. PlacesLeft'
    BY <1>2, FS_EmptySet DEF IInv, TypeOK, PlacesLeft, Restart
  <1>4. CancelledForGood' /\ NoneBehind'
    BY DEF IInv, CancelledForGood, NoneBehind, Restart
  <1> QED
    BY <1>1, <1>3, <1>4 DEF IInv

-----------------------------------------------------------------------------
(* The agent                                                                 *)

\* The newest of some messages is one of them.
LEMMA NewestIn ==
    ASSUME TypeOK, NEW ids \in SUBSET DOMAIN rows
    PROVE  Newest(ids) \in DOMAIN rows \cup {Nobody}
  <1>1. CASE ids = {}
    BY <1>1 DEF Newest
  <1>2. CASE ids # {}
    <2>1. DOMAIN rows = 1 .. Len(rows) /\ Len(rows) \in Nat
      BY DEF TypeOK
    <2>2. ids \in SUBSET (1 .. Len(rows))
      BY <2>1
    <2>3. \E m \in ids : \A k \in ids : k <= m
      BY <1>2, <2>1, <2>2, LargestIn
    <2> QED
      BY <1>2, <2>3 DEF Newest
  <1> QED
    BY <1>1, <1>2

LEMMA PollStep ==
    ASSUME IInv, PollPermanent \/ PollAny
    PROVE  IInv'
  <1>1. shown' \in DOMAIN rows \cup {Nobody} /\ poll' \in {"permanent", "any"}
    <2>1. CASE PollPermanent
      BY <2>1, NewestIn DEF IInv, TypeOK, PollPermanent
    <2>2. CASE PollAny
      BY <2>2, NewestIn DEF IInv, PollAny
    <2> QED
      BY <2>1, <2>2
  <1>2. UNCHANGED <<rows, creating, jobs, settled, faults>>
    BY DEF PollPermanent, PollAny
  <1>3. TypeOK'
    BY <1>1, <1>2 DEF IInv, TypeOK
  <1>4. CancelledForGood' /\ NoneBehind'
    BY <1>2 DEF IInv, CancelledForGood, NoneBehind
  <1> QED
    BY <1>2, <1>3, <1>4, PlacesKept DEF IInv

-----------------------------------------------------------------------------
LEMMA NextIInv == IInv /\ [Next]_vars => IInv'
  <1> SUFFICES ASSUME IInv, [Next]_vars PROVE IInv'
    OBVIOUS
  <1>1. ASSUME NEW c \in Pages, SendCustom(c) PROVE IInv'
    BY <1>1, PostStep DEF SendCustom, Clients
  <1>2. ASSUME NEW c \in Hooks, SendStatus(c) PROVE IInv'
    BY <1>2, PostStep DEF SendStatus, Clients
  <1>3. ASSUME NEW c \in Clients, Supersede(c) \/ Insert(c) \/ CreateFails(c) PROVE IInv'
    BY <1>3, SupersedeStep, InsertStep, CreateFailsStep
  <1>4. CASE Advance
    BY <1>4, AdvanceReadStep, AdvanceWriteStep DEF Advance
  <1>5. ASSUME NEW j \in jobs, AdvanceFails(j) PROVE IInv'
    BY <1>5, AdvanceFailsStep
  <1>6. ASSUME NEW i \in DOMAIN rows, Cancel(i) PROVE IInv'
    BY <1>6, CancelStep
  <1>7. CASE UNCHANGED vars
    <2>1. TypeOK' /\ CancelledForGood' /\ NoneBehind'
      BY <1>7 DEF IInv, TypeOK, CancelledForGood, NoneBehind, vars
    <2> QED
      BY <1>7, <2>1, PlacesKept DEF IInv, vars
  <1> QED
    BY <1>1, <1>2, <1>3, <1>4, <1>5, <1>6, <1>7, RestartStep, PollStep DEF Next

\* IInv is an invariant of the messages API, however requests, timers, polls, failures
\* and restarts interleave.
THEOREM Inductive == Spec => []IInv
  BY InitIInv, NextIInv, PTL DEF Spec

\* The types: a timer belongs to a row of the table, and the agent displays one.
THEOREM TypeCorrect == Spec => []TypeOK
  <1>1. IInv => TypeOK
    BY DEF IInv
  <1> QED
    BY Inductive, <1>1, PTL

\* A message that was cancelled or superseded, while no timer was between its read and
\* its write, never comes back (create(), cancelMessage()).
THEOREM StaysCancelled == Spec => []CancelledForGood
  <1>1. IInv => CancelledForGood
    BY DEF IInv
  <1> QED
    BY Inductive, <1>1, PTL

-----------------------------------------------------------------------------
(* What the agent is told                                                    *)

Permanents == {i \in DOMAIN rows : Live(i) /\ rows[i].permanent}

\* The second query displays whatever is not cancelled.
LEMMA DisplayedIsLive ==
    ASSUME TypeOK, NEW i \in DOMAIN rows
    PROVE  Displayed(i) <=> Live(i)
  <1>1. rows[i] \in Row
    BY DEF TypeOK
  <1>2. rows[i].status \in Statuses
    BY <1>1 DEF Row
  <1> QED
    BY <1>2 DEF Statuses, Displayed, Live

\* An answer to the agent is the current message of that moment; only if a permanent
\* message has come between the two queries of getLatestPending() it is the newest one,
\* permanent or not.
AnswersCurrent ==
    [][/\ PollPermanent => shown' = IF Permanents # {} THEN Current ELSE shown
       /\ PollAny => shown' = IF Permanents = {} THEN Current
                              ELSE Newest({i \in DOMAIN rows : Live(i)})]_vars

\* However the two queries of a poll interleave with requests, timers and failures.
THEOREM AnswersAreCurrent == Spec => AnswersCurrent
  <1> DEFINE Right ==
        /\ PollPermanent => shown' = IF Permanents # {} THEN Current ELSE shown
        /\ PollAny => shown' = IF Permanents = {} THEN Current
                               ELSE Newest({i \in DOMAIN rows : Live(i)})
  <1>1. ASSUME IInv PROVE Right
    <2>1. Permanents = {i \in DOMAIN rows : /\ rows[i].custom /\ rows[i].permanent
                                             /\ rows[i].status # "cancelled"}
      BY DEF Permanents, Live
    <2>2. {i \in DOMAIN rows : Displayed(i)} = {i \in DOMAIN rows : Live(i)}
      BY <1>1, DisplayedIsLive DEF IInv
    <2>3. Current = IF Permanents # {} THEN Newest(Permanents)
                    ELSE Newest({i \in DOMAIN rows : Live(i)})
      BY DEF Current, Permanents
    <2>4. PollPermanent => shown' = IF Permanents # {} THEN Current ELSE shown
      BY <2>1, <2>3 DEF PollPermanent
    <2>5. PollAny => shown' = IF Permanents = {} THEN Current
                              ELSE Newest({i \in DOMAIN rows : Live(i)})
      BY <2>2, <2>3 DEF PollAny
    <2> QED
      BY <2>4, <2>5
  <1>2. IInv => [Right]_vars
    BY <1>1
  <1> QED
    BY <1>2, Inductive, PTL DEF AnswersCurrent

-----------------------------------------------------------------------------
(* A message replaces the others                                             *)

\* Between the two queries of a POST no message is current.
Cleared(c) == creating[c].phase = "insert" => \A i \in DOMAIN rows : ~Live(i)

\* A step that does not come between the two queries: no other POST inserts its message,
\* and no timer writes over a cancellation.
Alone(c) ==
    creating[c].phase = "insert" =>
        /\ \A d \in Clients \ {c} : ~Insert(d)
        /\ \A j \in jobs : AdvanceWrite(j) => rows[j.id].status # "cancelled"

\* The superseding query cancels every custom message.
LEMMA SupersedeClears ==
    ASSUME TypeOK, NEW d \in Clients, Supersede(d)
    PROVE  \A i \in DOMAIN rows' : ~Live(i)'
  <1> SUFFICES ASSUME NEW i \in DOMAIN rows' PROVE ~Live(i)'
    OBVIOUS
  <1>1. i \in DOMAIN rows /\ rows[i] \in Row
    BY DEF TypeOK, Supersede
  <1>2. rows'[i] = IF Superseded(i) THEN [rows[i] EXCEPT !.status = "cancelled"] ELSE rows[i]
    BY <1>1 DEF Supersede
  <1>3. Superseded(i) <=> Live(i)
    BY <1>1 DEF Row, Statuses, Superseded, Live
  <1> QED
    BY <1>1, <1>2, <1>3 DEF Row, Live

\* A new status that is not given to a cancelled message makes none current.
LEMMA StatusClears ==
    ASSUME TypeOK, NEW k \in DOMAIN rows, NEW s, SetStatus(k, s),
           s = "cancelled" \/ rows[k].status # "cancelled",
           \A i \in DOMAIN rows : ~Live(i)
    PROVE  \A i \in DOMAIN rows' : ~Live(i)'
  <1> SUFFICES ASSUME NEW i \in DOMAIN rows' PROVE ~Live(i)'
    OBVIOUS
  <1>1. rows' = [rows EXCEPT ![k].status = s] /\ i \in DOMAIN rows /\ rows[i] \in Row
    BY DEF SetStatus, TypeOK
  <1>2. CASE i # k
    BY <1>1, <1>2 DEF Live
  <1>3. CASE i = k
    <2>1. rows'[i].status = s /\ rows'[i].custom = rows[i].custom
      BY <1>1, <1>3 DEF Row
    <2> QED
      BY <1>1, <1>3, <2>1 DEF Live
  <1> QED
    BY <1>2, <1>3

LEMMA ClearedStep ==
    ASSUME TypeOK, NEW c \in Clients, Cleared(c), Alone(c), [Next]_vars
    PROVE  Cleared(c)'
  <1> SUFFICES ASSUME creating'[c].phase = "insert"
               PROVE  \A i \in DOMAIN rows' : ~Live(i)'
    BY DEF Cleared
  <1>1. creating \in [Clients -> Drafts]
    BY DEF TypeOK
  <1>2. ASSUME UNCHANGED rows, creating[c].phase = "insert"
        PROVE  \A i \in DOMAIN rows' : ~Live(i)'
    BY <1>2 DEF Cleared, Live
  <1>3. ASSUME NEW d \in Clients, NEW permanent \in BOOLEAN, Post(d, permanent)
        PROVE  \A i \in DOMAIN rows' : ~Live(i)'
    <2>1. UNCHANGED rows /\ (d = c => creating'[c].phase = "supersede")
          /\ (d # c => creating'[c] = creating[c])
      BY <1>1, <1>3 DEF Post
    <2> QED
      BY <1>2, <2>1
  <1>4. ASSUME NEW d \in Clients, Insert(d) \/ CreateFails(d)
        PROVE  \A i \in DOMAIN rows' : ~Live(i)'
    <2>1. d = c => creating'[c].phase = "idle"
      BY <1>1, <1>4 DEF Insert, CreateFails, NoDraft
    <2>2. d # c => creating'[c] = creating[c]
      BY <1>1, <1>4 DEF Insert, CreateFails
    <2>3. d # c /\ creating[c].phase = "insert"
      BY <2>1, <2>2
    <2>4. CreateFails(d)
      BY <1>4, <2>3 DEF Alone
    <2> QED
      BY <1>2, <2>3, <2>4 DEF CreateFails
  <1>5. ASSUME NEW j \in jobs, AdvanceRead(j) \/ AdvanceFails(j)
        PROVE  \A i \in DOMAIN rows' : ~Live(i)'
    BY <1>2, <1>5 DEF AdvanceRead, AdvanceFails
  <1>6. ASSUME NEW j \in jobs, AdvanceWrite(j)
        PROVE  \A i \in DOMAIN rows' : ~Live(i)'
    <2>1. creating[c].phase = "insert" /\ SetStatus(j.id, j.to) /\ j.id \in DOMAIN rows
      BY <1>6 DEF AdvanceWrite, TypeOK
    <2>2. rows[j.id].status # "cancelled" /\ \A i \in DOMAIN rows : ~Live(i)
      BY <1>6, <2>1 DEF Alone, Cleared
    <2> QED
      BY <2>1, <2>2, StatusClears
  <1>7. ASSUME NEW k \in DOMAIN rows, Cancel(k)
        PROVE  \A i \in DOMAIN rows' : ~Live(i)'
    <2>1. creating[c].phase = "insert" /\ SetStatus(k, "cancelled")
      BY <1>7 DEF Cancel
    <2>2. \A i \in DOMAIN rows : ~Live(i)
      BY <2>1 DEF Cleared
    <2> QED
      BY <2>1, <2>2, StatusClears
  <1>8. ~Restart
    BY DEF Restart, NoDraft
  <1>9. CASE PollPermanent \/ PollAny \/ UNCHANGED vars
    BY <1>2, <1>9 DEF PollPermanent, PollAny, vars
  <1> QED
    BY <1>3, <1>4, <1>5, <1>6, <1>7, <1>8, <1>9, SupersedeClears
       DEF Next, SendCustom, SendStatus, Clients, Advance

\* The message that a POST inserts is the only one that may be current.
Replaces(c) == [][Insert(c) => \A i \in DOMAIN rows' : Live(i)' => i = Len(rows')]_vars

\* "Only one custom message is active at a time" (create(), messages.service.ts): whatever
\* else goes on, each POST of a tab makes its message the only current one, as long as no
\* other POST inserts, and no timer writes over a cancellation, between its two queries.
THEOREM NewestReplaces ==
    \A c \in Clients :
        Spec => [](creating[c].phase # "insert" /\ [][Alone(c)]_vars => Replaces(c))
  <1> SUFFICES ASSUME NEW c \in Clients
               PROVE  Spec => [](creating[c].phase # "insert" /\ [][Alone(c)]_vars
                                     => Replaces(c))
    OBVIOUS
  <1> DEFINE Only == Insert(c) => \A i \in DOMAIN rows' : Live(i)' => i = Len(rows')
  <1>1. creating[c].phase # "insert" => Cleared(c)
    BY DEF Cleared
  <1>2. TypeOK /\ Cleared(c) /\ [Next]_vars /\ [Alone(c)]_vars => Cleared(c)'
    <2> SUFFICES ASSUME TypeOK, Cleared(c), [Next]_vars, [Alone(c)]_vars
                 PROVE  Cleared(c)'
      OBVIOUS
    <2>1. CASE Alone(c)
      BY <2>1, ClearedStep
    <2>2. CASE UNCHANGED vars
      BY <2>2 DEF vars, Cleared, Live
    <2> QED
      BY <2>1, <2>2
  <1>3. TypeOK /\ Cleared(c) => [Only]_vars
    <2> SUFFICES ASSUME TypeOK, Cleared(c), Insert(c), NEW i \in DOMAIN rows', Live(i)'
                 PROVE  i = Len(rows')
      OBVIOUS
    <2>1. \A k \in DOMAIN rows : ~Live(k)
      BY DEF Cleared, Insert
    <2>2. /\ rows \in Seq(Row) /\ Len(rows') = Len(rows) + 1
          /\ DOMAIN rows' = 1 .. Len(rows) + 1
          /\ \A k \in 1 .. Len(rows) : rows'[k] = rows[k]
      BY DEF Insert, TypeOK
    <2>3. i \in 1 .. Len(rows) => ~Live(i)'
      BY <2>1, <2>2 DEF Live
    <2> QED
      BY <2>2, <2>3
  <1> QED
    BY <1>1, <1>2, <1>3, TypeCorrect, PTL DEF Spec, Replaces
=============================================================================
