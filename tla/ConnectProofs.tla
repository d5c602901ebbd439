--------------------------- MODULE ConnectProofs ---------------------------
(***************************************************************************)
(* Theorems about Connect, for any users, providers, identities and        *)
(* limits: the types, the limit of accounts, and that the OAuth states are *)
(* the tickets of Ticket, as far as safety goes.                           *)
(***************************************************************************)
EXTENDS Connect, FiniteSetTheorems, TLAPS

\* A callback that has counted, and is not late, still finds the number it has counted
\* or fewer.
RoomLeft ==
    /\ IsFiniteSet(rows)
    /\ \A j \in jobs : Head(j.todo) = "upsert" /\ ~j.late =>
         Cardinality(Accounts(j.user, j.provider)) < MaxAccounts

\* A state is in the map or consumed.
Once ==
    /\ DOMAIN states \cap consumed = {}
    /\ consumed \subseteq 1 .. Len(begun)

IInv == TypeOK /\ RoomLeft /\ WithinLimit /\ Once

\* The accounts of a user that were counted in time.
InTime(u, p) == {r \in Accounts(u, p) : ~r.late}

-----------------------------------------------------------------------------
(* Plans and counts                                                          *)

\* The elements of a sequence.
LEMMA Element ==
    ASSUME NEW S, NEW f \in Seq(S), NEW i \in 1 .. Len(f)
    PROVE  f[i] \in S
  OBVIOUS

\* What comes after each step of a callback.
LEMMA PlanStep ==
    ASSUME NEW plan \in Plans
    PROVE  /\ Head(plan) \in {"exchange", "profile", "count"} => Tail(plan) \in Plans
           /\ Head(plan) \in {"exchange", "profile"} => Head(Tail(plan)) # "upsert"
  <1>1. plan \in {<<"upsert">>, <<"count", "upsert">>, <<"profile", "count", "upsert">>,
                  <<"exchange", "profile", "count", "upsert">>,
                  <<"exchange", "count", "upsert">>}
    BY ProvidersAssumption
       DEF Plans, Steps, Known, GoogleSteps, MicrosoftSteps, SlackSteps, TeamsSteps,
           ZoomSteps, WebexSteps
  <1>2. CASE plan = <<"upsert">>
    BY <1>2
  <1>3. CASE plan = <<"count", "upsert">>
    BY <1>3 DEF Plans
  <1>4. CASE plan = <<"profile", "count", "upsert">>
    BY <1>4 DEF Plans
  <1>5. CASE plan = <<"exchange", "profile", "count", "upsert">>
    BY <1>5 DEF Plans
  <1>6. CASE plan = <<"exchange", "count", "upsert">>
    BY <1>6 DEF Plans
  <1> QED
    BY <1>1, <1>2, <1>3, <1>4, <1>5, <1>6

\* A plan begins with the exchange of the code.
LEMMA PlanBegins ==
    ASSUME NEW p \in Providers
    PROVE  Steps(p) \in Plans /\ Head(Steps(p)) # "upsert"
  BY ProvidersAssumption
     DEF Plans, Steps, Known, GoogleSteps, MicrosoftSteps, SlackSteps, TeamsSteps,
         ZoomSteps, WebexSteps

\* Fewer rows, fewer accounts.
LEMMA FewerAccounts ==
    ASSUME IsFiniteSet(rows), rows' \subseteq rows, NEW u, NEW p
    PROVE  /\ Cardinality(Accounts(u, p)') <= Cardinality(Accounts(u, p))
           /\ Cardinality(InTime(u, p)') <= Cardinality(InTime(u, p))
           /\ Cardinality(Accounts(u, p)) \in Nat /\ Cardinality(Accounts(u, p)') \in Nat
           /\ Cardinality(InTime(u, p)) \in Nat /\ Cardinality(InTime(u, p)') \in Nat
  <1>1. IsFiniteSet(Accounts(u, p)) /\ IsFiniteSet(InTime(u, p))
    BY FS_Subset DEF Accounts, InTime
  <1>2. Accounts(u, p)' \subseteq Accounts(u, p) /\ InTime(u, p)' \subseteq InTime(u, p)
    BY DEF Accounts, InTime
  <1> QED
    BY <1>1, <1>2, FS_Subset, FS_CardinalityType

\* A step that takes rows away, and adds no callback that has counted, keeps the limit.
LEMMA RoomKept ==
    ASSUME IInv, rows' \subseteq rows,
           \A j \in jobs' : j \in jobs \/ Head(j.todo) # "upsert"
    PROVE  RoomLeft' /\ WithinLimit'
  <1>1. IsFiniteSet(rows)
    BY DEF IInv, RoomLeft
  <1>2. IsFiniteSet(rows')
    BY <1>1, FS_Subset
  <1>3. ASSUME NEW j \in jobs', Head(j.todo) = "upsert", ~j.late
        PROVE  Cardinality(Accounts(j.user, j.provider)') < MaxAccounts
    <2>1. Cardinality(Accounts(j.user, j.provider)) < MaxAccounts
      BY <1>3 DEF IInv, RoomLeft
    <2> QED
      BY <1>1, <2>1, FewerAccounts, LimitsAssumption
  <1>4. ASSUME NEW u \in Users, NEW p \in Providers
        PROVE  Cardinality(InTime(u, p)') <= MaxAccounts
    <2>1. Cardinality(InTime(u, p)) <= MaxAccounts
      BY DEF IInv, WithinLimit, InTime
    <2> QED
      BY <1>1, <2>1, FewerAccounts, LimitsAssumption
  <1>5. RoomLeft'
    BY <1>2, <1>3 DEF RoomLeft, Accounts
  <1>6. WithinLimit'
    BY <1>4 DEF WithinLimit, InTime, Accounts
  <1> QED
    BY <1>5, <1>6

-----------------------------------------------------------------------------
LEMMA InitIInv == Init => IInv
  <1> SUFFICES ASSUME Init PROVE IInv
    OBVIOUS
  <1>1. TypeOK /\ Once
    BY LimitsAssumption DEF Init, TypeOK, Once
  <1>2. IsFiniteSet(rows) /\ \A u, p : Accounts(u, p) = {} /\ InTime(u, p) = {}
    BY FS_EmptySet DEF Init, Accounts, InTime
  <1>3. RoomLeft
    BY <1>2 DEF Init, RoomLeft
  <1>4. WithinLimit
    BY <1>2, FS_EmptySet, LimitsAssumption DEF WithinLimit, InTime
  <1> QED
    BY <1>1, <1>3, <1>4 DEF IInv

\* A new state, bound to the user.
LEMMA BeginStep ==
    ASSUME IInv, NEW u \in Users, NEW p \in Providers, Begin(u, p)
    PROVE  IInv'
  <1> DEFINE n == Len(begun)
             new == [user |-> u, provider |-> p]
  <1>1. n \in Nat /\ n < MaxStates /\ begun' = Append(begun, new)
        /\ begun \in Seq([user : Users, provider : Providers])
        /\ new \in [user : Users, provider : Providers] /\ new.user = u
    BY DEF IInv, TypeOK, Begin
  <1>2. UNCHANGED <<expired, jobs, rows, consumed, faults>>
        /\ DOMAIN states' = DOMAIN states \cup {n + 1}
        /\ \A s \in DOMAIN states' : states'[s] = IF s \in DOMAIN states THEN states[s] ELSE u
    BY DEF Begin
  <1> HIDE DEF new
  <1>3. /\ begun' \in Seq([user : Users, provider : Providers]) /\ Len(begun') = n + 1
        /\ \A s \in 1 .. n : begun'[s] = begun[s] /\ s \in 1 .. Len(begun')
        /\ begun'[n + 1] = new /\ n + 1 \in 1 .. Len(begun') /\ n + 1 \notin 1 .. n
    BY <1>1
  <1>4. DOMAIN states \subseteq 1 .. n /\ expired \subseteq 1 .. n /\ consumed \subseteq 1 .. n
        /\ \A j \in jobs : j.state \in 1 .. n
    BY <1>1 DEF IInv, TypeOK, Once, Job, States
  <1>5. TypeOK'
    <2>1. DOMAIN states' \subseteq 1 .. Len(begun') /\ expired' \subseteq 1 .. Len(begun')
          /\ \A s \in DOMAIN states' : states'[s] = begun'[s].user
      BY <1>1, <1>2, <1>3, <1>4 DEF IInv, TypeOK
    <2>2. \A j \in jobs' : j.state <= Len(begun') /\ j.user = begun'[j.state].user
      BY <1>2, <1>3, <1>4 DEF IInv, TypeOK
    <2>3. Len(begun') <= MaxStates
      BY <1>1, <1>3, LimitsAssumption
    <2> QED
      BY <1>2, <1>3, <2>1, <2>2, <2>3 DEF IInv, TypeOK
  <1>6. Once'
    BY <1>2, <1>3, <1>4 DEF IInv, Once
  <1>7. RoomLeft' /\ WithinLimit'
    BY <1>2, RoomKept
  <1> QED
    BY <1>5, <1>6, <1>7 DEF IInv

\* States leave the map, callbacks end, rows go, time passes.
LEMMA ForgetStep ==
    ASSUME IInv,
           \/ \E s \in States : TtlPasses(s)
           \/ \E j \in jobs : CallbackFails(j)
           \/ \E r \in rows : Disconnect(r)
           \/ Sweep \/ Restart \/ UNCHANGED vars
    PROVE  IInv'
  <1>1. /\ DOMAIN states' \subseteq DOMAIN states
        /\ \A s \in DOMAIN states' : states'[s] = states[s]
        /\ jobs' \subseteq jobs /\ rows' \subseteq rows
        /\ UNCHANGED <<begun, consumed>>
    BY DEF TtlPasses, CallbackFails, Disconnect, Sweep, Restart, vars, Without
  <1>2. expired' \subseteq 1 .. Len(begun)
    <2>1. Len(begun) \in Nat /\ expired \subseteq 1 .. Len(begun)
      BY DEF IInv, TypeOK
    <2>2. ASSUME NEW s \in States, TtlPasses(s) PROVE expired' \subseteq 1 .. Len(begun)
      BY <2>1, <2>2 DEF TtlPasses, States
    <2> QED
      BY <2>1, <2>2 DEF CallbackFails, Disconnect, Sweep, Restart, vars
  <1>3. faults' \in 0 .. MaxFaults
    BY LimitsAssumption
       DEF IInv, TypeOK, TtlPasses, CallbackFails, Disconnect, Sweep, Restart, vars, Fault
  <1>4. TypeOK'
    BY <1>1, <1>2, <1>3 DEF IInv, TypeOK
  <1>5. Once'
    BY <1>1 DEF IInv, Once
  <1>6. RoomLeft' /\ WithinLimit'
    BY <1>1, RoomKept
  <1> QED
    BY <1>4, <1>5, <1>6 DEF IInv

\* A state is consumed, and its callback begins.
LEMMA CallbackStart ==
    ASSUME IInv, NEW s \in States, Callback(s)
    PROVE  IInv'
  <1> DEFINE job == [state |-> s, user |-> states[s], provider |-> begun[s].provider,
                     todo |-> Steps(begun[s].provider), late |-> FALSE]
  <1>1. /\ s \in DOMAIN states /\ s \in 1 .. Len(begun) /\ consumed' = consumed \cup {s}
        /\ DOMAIN states' = DOMAIN states \ {s}
        /\ \A t \in DOMAIN states' : states'[t] = states[t]
        /\ jobs' = jobs \cup {job} /\ UNCHANGED <<begun, expired, rows, faults>>
    BY DEF IInv, TypeOK, Callback, Consume, Without
  <1>2. begun[s] \in [user : Users, provider : Providers] /\ states[s] = begun[s].user
    <2> HIDE DEF job
    <2>1. begun \in Seq([user : Users, provider : Providers])
      BY DEF IInv, TypeOK
    <2>2. s \in 1 .. Len(begun)
      BY <1>1
    <2>3. begun[s] \in [user : Users, provider : Providers]
      BY <2>1, <2>2, Element
    <2>4. states[s] = begun[s].user
      BY <1>1 DEF IInv, TypeOK
    <2> QED
      BY <2>3, <2>4
  <1>3. Steps(begun[s].provider) \in Plans /\ Head(Steps(begun[s].provider)) # "upsert"
    BY <1>2, PlanBegins
  <1>4. job \in Job /\ job.state = s /\ job.user = begun[s].user
        /\ job.todo = Steps(begun[s].provider)
    BY <1>2, <1>3 DEF Job
  <1> HIDE DEF job
  <1>5. TypeOK'
    BY <1>1, <1>4 DEF IInv, TypeOK
  <1>6. Once'
    BY <1>1 DEF IInv, Once
  <1>7. RoomLeft' /\ WithinLimit'
    BY <1>1, <1>3, <1>4, RoomKept
  <1> QED
    BY <1>5, <1>6, <1>7 DEF IInv

\* A callback goes on.
LEMMA OnwardTyped ==
    ASSUME IInv, NEW j \in jobs, Head(j.todo) \in {"exchange", "profile", "count"},
           Replace(j, Onward(j)),
           UNCHANGED <<states, begun, expired, rows, consumed, faults>>
    PROVE  /\ TypeOK' /\ Once'
           /\ Onward(j).todo = Tail(j.todo) /\ Onward(j).late = j.late
           /\ Onward(j).user = j.user /\ Onward(j).provider = j.provider
  <1>1. j \in Job /\ j.state <= Len(begun) /\ j.user = begun[j.state].user
    BY DEF IInv, TypeOK
  <1>2. Tail(j.todo) \in Plans
    BY <1>1, PlanStep DEF Job
  <1>3. /\ Onward(j) \in Job
        /\ Onward(j).todo = Tail(j.todo) /\ Onward(j).late = j.late
        /\ Onward(j).user = j.user /\ Onward(j).provider = j.provider
        /\ Onward(j).state = j.state
    BY <1>1, <1>2 DEF Onward, Job
  <1>4. TypeOK'
    BY <1>1, <1>3 DEF IInv, TypeOK, Replace
  <1>5. Once'
    BY DEF IInv, Once
  <1> QED
    BY <1>3, <1>4, <1>5

LEMMA ExchangeStep ==
    ASSUME IInv, NEW j \in jobs, Exchange(j) \/ Profile(j)
    PROVE  IInv'
  <1>1. Head(j.todo) \in {"exchange", "profile"} /\ Replace(j, Onward(j))
        /\ UNCHANGED <<states, begun, expired, rows, consumed, faults>>
    BY DEF Exchange, Profile, At
  <1>2. TypeOK' /\ Once' /\ Onward(j).todo = Tail(j.todo)
    BY <1>1, OnwardTyped
  <1>3. Head(Onward(j).todo) # "upsert"
    BY <1>1, <1>2, PlanStep DEF IInv, TypeOK, Job
  <1>4. RoomLeft' /\ WithinLimit'
    BY <1>1, <1>3, RoomKept DEF Replace
  <1> QED
    BY <1>2, <1>4 DEF IInv

\* A callback counts: it goes on only if there is room.
LEMMA CountStep ==
    ASSUME IInv, NEW j \in jobs, Count(j)
    PROVE  IInv'
  <1>1. UNCHANGED <<states, begun, expired, rows, consumed, faults>> /\ Head(j.todo) = "count"
    BY DEF Count, At
  <1>2. CASE Cardinality(Accounts(j.user, j.provider)) >= MaxAccounts
    <2>1. jobs' = jobs \ {j}
      BY <1>2 DEF Count
    <2>2. TypeOK' /\ Once'
      BY <1>1, <2>1 DEF IInv, TypeOK, Once
    <2> QED
      BY <1>1, <2>1, <2>2, RoomKept DEF IInv
  <1>3. CASE ~(Cardinality(Accounts(j.user, j.provider)) >= MaxAccounts)
    <2>1. Replace(j, Onward(j))
      BY <1>3 DEF Count
    <2>2. TypeOK' /\ Once' /\ Onward(j).user = j.user /\ Onward(j).provider = j.provider
      BY <1>1, <2>1, OnwardTyped
    <2>3. IsFiniteSet(Accounts(j.user, j.provider))
      BY FS_Subset DEF IInv, RoomLeft, Accounts
    <2>4. Cardinality(Accounts(j.user, j.provider)) < MaxAccounts
      BY <1>3, <2>3, FS_CardinalityType, LimitsAssumption
    <2>5. \A u, p : Accounts(u, p)' = Accounts(u, p)
      BY <1>1 DEF Accounts
    <2>6. RoomLeft'
      BY <1>1, <2>1, <2>2, <2>4, <2>5 DEF IInv, RoomLeft, Replace
    <2>7. WithinLimit'
      BY <1>1, <2>5 DEF IInv, WithinLimit
    <2> QED
      BY <2>2, <2>6, <2>7 DEF IInv
  <1> QED
    BY <1>2, <1>3

\* An account is stored: those that have counted for the same user are late now.
LEMMA UpsertStep ==
    ASSUME IInv, NEW j \in jobs, Upsert(j)
    PROVE  IInv'
  <1> DEFINE Fresh(i) == \A r \in Accounts(j.user, j.provider) : r.identity # i
             Row1(i) == [user |-> j.user, provider |-> j.provider, identity |-> i,
                         late |-> j.late]
             After(k, i) == IF Fresh(i) /\ k.user = j.user /\ k.provider = j.provider
                               /\ Head(k.todo) = "upsert"
                            THEN [k EXCEPT !.late = TRUE] ELSE k
  <1>1. PICK i \in Identities :
          /\ rows' = IF Fresh(i) THEN rows \cup {Row1(i)} ELSE rows
          /\ jobs' = {After(k, i) : k \in jobs \ {j}}
    BY DEF Upsert
  <1>2. UNCHANGED <<states, begun, expired, consumed, faults>> /\ Head(j.todo) = "upsert"
        /\ j \in Job
    BY DEF Upsert, At, IInv, TypeOK
  <1>3. \A k \in jobs : k \in Job
    BY DEF IInv, TypeOK
  <1>4. \A k \in jobs : /\ After(k, i) \in Job
                        /\ After(k, i).state = k.state /\ After(k, i).user = k.user
                        /\ After(k, i).provider = k.provider
                        /\ After(k, i).todo = k.todo
                        /\ ~After(k, i).late => After(k, i) = k
                        /\ Fresh(i) /\ ~After(k, i).late /\ Head(k.todo) = "upsert" =>
                             k.user # j.user \/ k.provider # j.provider
    BY <1>3 DEF Job
  <1>5. Row1(i) \in Row /\ Row1(i).user = j.user /\ Row1(i).provider = j.provider
        /\ Row1(i).identity = i /\ Row1(i).late = j.late
    BY <1>2 DEF Job, Row
  <1> HIDE DEF After
  <1>6. TypeOK'
    <2>1. rows' \subseteq Row
          /\ \A q, r \in rows' :
               q.user = r.user /\ q.provider = r.provider /\ q.identity = r.identity
                 => q = r
      <3>1. CASE Fresh(i)
        <4>1. \A r \in rows : ~(r.user = j.user /\ r.provider = j.provider
                                /\ r.identity = i)
          BY <3>1 DEF Accounts
        <4> HIDE DEF Fresh, Row1
        <4> QED
          BY <1>1, <1>5, <3>1, <4>1 DEF IInv, TypeOK
      <3>2. CASE ~Fresh(i)
        BY <1>1, <3>2 DEF IInv, TypeOK
      <3> QED
        BY <3>1, <3>2
    <2>2. jobs' \subseteq Job
          /\ \A k \in jobs' : k.state <= Len(begun) /\ k.user = begun[k.state].user
      BY <1>1, <1>4 DEF IInv, TypeOK
    <2> QED
      BY <1>2, <2>1, <2>2 DEF IInv, TypeOK
  <1>7. Once'
    BY <1>2 DEF IInv, Once
  <1>8. RoomLeft' /\ WithinLimit'
    <2>1. CASE ~Fresh(i)
      <3>1. rows' = rows
        BY <1>1, <2>1
      <3>2. \A k \in jobs' : k \in jobs
        BY <1>1, <2>1 DEF After
      <3> QED
        BY <3>1, <3>2, RoomKept
    <2>2. CASE Fresh(i)
      <3>1. rows' = rows \cup {Row1(i)}
        BY <1>1, <2>2
      <3> HIDE DEF Fresh, Row1
      <3>2. IsFiniteSet(rows) /\ IsFiniteSet(rows')
        BY <3>1, FS_AddElement DEF IInv, RoomLeft
      <3>3. ASSUME NEW u, NEW p, u # j.user \/ p # j.provider
            PROVE  Accounts(u, p)' = Accounts(u, p) /\ InTime(u, p)' = InTime(u, p)
        BY <1>5, <3>1, <3>3 DEF Accounts, InTime
      <3>4. RoomLeft'
        <4> SUFFICES ASSUME NEW k \in jobs', Head(k.todo) = "upsert", ~k.late
                     PROVE  Cardinality(Accounts(k.user, k.provider)') < MaxAccounts
          BY <3>2 DEF RoomLeft, Accounts
        <4>1. k \in jobs /\ (k.user # j.user \/ k.provider # j.provider)
          BY <1>1, <1>4, <2>2
        <4>2. Cardinality(Accounts(k.user, k.provider)) < MaxAccounts
          BY <4>1 DEF IInv, RoomLeft
        <4> QED
          BY <3>3, <4>1, <4>2
      <3>5. WithinLimit'
        <4> SUFFICES ASSUME NEW u \in Users, NEW p \in Providers
                     PROVE  Cardinality(InTime(u, p)') <= MaxAccounts
          BY DEF WithinLimit, InTime, Accounts
        <4>1. Cardinality(InTime(u, p)) <= MaxAccounts
          BY DEF IInv, WithinLimit, InTime
        <4>2. CASE u # j.user \/ p # j.provider
          BY <3>3, <4>1, <4>2
        <4>3. CASE u = j.user /\ p = j.provider /\ j.late
          <5>1. InTime(u, p)' = InTime(u, p)
            BY <1>5, <3>1, <4>3 DEF Accounts, InTime
          <5> QED
            BY <4>1, <5>1
        <4>4. CASE u = j.user /\ p = j.provider /\ ~j.late
          <5>1. Cardinality(Accounts(u, p)) < MaxAccounts
            BY <1>2, <4>4 DEF IInv, RoomLeft
          <5>2. InTime(u, p)' \subseteq Accounts(u, p) \cup {Row1(i)}
            BY <1>5, <3>1, <4>4 DEF Accounts, InTime
          <5>3. IsFiniteSet(Accounts(u, p))
            BY <3>2, FS_Subset DEF Accounts
          <5>4. Cardinality(Accounts(u, p) \cup {Row1(i)}) <= Cardinality(Accounts(u, p)) + 1
                /\ IsFiniteSet(Accounts(u, p) \cup {Row1(i)})
                /\ Cardinality(Accounts(u, p)) \in Nat
            <6>1. Cardinality(Accounts(u, p)) \in Nat
              BY <5>3, FS_CardinalityType
            <6>2. /\ IsFiniteSet(Accounts(u, p) \cup {Row1(i)})
                  /\ Cardinality(Accounts(u, p) \cup {Row1(i)}) =
                       IF Row1(i) \in Accounts(u, p) THEN Cardinality(Accounts(u, p))
                       ELSE Cardinality(Accounts(u, p)) + 1
              BY <5>3, FS_AddElement
            <6> QED
              BY <6>1, <6>2
          <5>5. Cardinality(InTime(u, p)') <= Cardinality(Accounts(u, p) \cup {Row1(i)})
                /\ Cardinality(InTime(u, p)') \in Nat
                /\ Cardinality(Accounts(u, p) \cup {Row1(i)}) \in Nat
            BY <5>2, <5>4, FS_Subset, FS_CardinalityType
          <5> QED
            BY <5>1, <5>4, <5>5, LimitsAssumption
        <4> QED
          BY <4>2, <4>3, <4>4
      <3> QED
        BY <3>4, <3>5
    <2> QED
      BY <2>1, <2>2
  <1> QED
    BY <1>6, <1>7, <1>8 DEF IInv

-----------------------------------------------------------------------------
LEMMA NextIInv == IInv /\ [Next]_vars => IInv'
  BY BeginStep, ForgetStep, CallbackStart, ExchangeStep, CountStep, UpsertStep
     DEF Next, CallbackStep

\* IInv is an invariant of connecting, however callbacks, sweeps and restarts interleave.
THEOREM Inductive == Spec => []IInv
  BY InitIInv, NextIInv, PTL DEF Spec

\* The types: a callback works for the user to whom its state was issued, and no account
\* is stored twice.
THEOREM TypeCorrect == Spec => []TypeOK
  <1>1. IInv => TypeOK
    BY DEF IInv
  <1> QED
    BY Inductive, <1>1, PTL

\* The limit of accounts holds but for callbacks that had counted when another one
\* stored its account (handleCallback()).
THEOREM LimitKept == Spec => []WithinLimit
  <1>1. IInv => WithinLimit
    BY DEF IInv
  <1> QED
    BY Inductive, <1>1, PTL

-----------------------------------------------------------------------------
(* The states are tickets                                                    *)

Spent == {s \in 1 .. Len(begun) : s \notin DOMAIN states}

\* A new state is issued.
LEMMA IssueStep ==
    ASSUME IInv, NEW u \in Users, NEW p \in Providers, Begin(u, p)
    PROVE  Statebook!Next
  <1>1. PICK n \in Nat : n = Len(begun) /\ n < MaxStates
    BY DEF IInv, TypeOK, Begin
  <1>2. Len(begun') = n + 1 /\ DOMAIN states' = DOMAIN states \cup {n + 1}
        /\ UNCHANGED <<expired, consumed>> /\ DOMAIN states \subseteq 1 .. n
    BY <1>1 DEF IInv, TypeOK, Begin
  <1>3. n + 1 \in States /\ n + 1 \notin 1 .. n /\ 1 .. n + 1 = (1 .. n) \cup {n + 1}
    BY <1>1, LimitsAssumption DEF States
  <1>4. Spent' = Spent /\ n + 1 \notin Spent
    BY <1>1, <1>2, <1>3 DEF Spent
  <1>5. Statebook!Issue(n + 1)
    BY <1>2, <1>3, <1>4 DEF Statebook!Issue, Spent
  <1> QED
    BY <1>3, <1>5 DEF Statebook!Next

\* A callback redeems its state.
LEMMA RedeemStep ==
    ASSUME IInv, NEW s \in States, Callback(s)
    PROVE  Statebook!Next
  <1>1. s \in DOMAIN states \ expired /\ consumed' = consumed \cup {s} /\ s \in 1 .. Len(begun)
        /\ DOMAIN states' = DOMAIN states \ {s} /\ UNCHANGED <<begun, expired>>
        /\ s \notin consumed
    BY DEF IInv, TypeOK, Once, Callback, Consume, Without
  <1>2. Spent' = Spent \cup {s}
    BY <1>1 DEF Spent
  <1>3. Statebook!Redeem(s)
    BY <1>1, <1>2 DEF Statebook!Redeem, Spent
  <1> QED
    BY <1>3 DEF Statebook!Next

\* States that are forgotten.
LEMMA LapseStep ==
    ASSUME IInv, Sweep \/ Restart
    PROVE  Statebook!Next
  <1>1. DOMAIN states' \subseteq DOMAIN states /\ UNCHANGED <<begun, expired, consumed>>
    BY DEF Sweep, Restart, Without
  <1>2. DOMAIN states' = DOMAIN states \ Spent' /\ Spent \subseteq Spent'
    BY <1>1 DEF IInv, TypeOK, Spent
  <1>3. 1 .. Len(begun) \subseteq States
    BY LimitsAssumption DEF IInv, TypeOK, States
  <1>4. Spent' \in SUBSET States
    BY <1>1, <1>3 DEF Spent
  <1>5. Statebook!Lapse
    BY <1>1, <1>2, <1>4 DEF Statebook!Lapse, Spent
  <1> QED
    BY <1>5 DEF Statebook!Next

\* Every step of connecting is a step of Ticket, or changes none of its variables.
LEMMA TicketStep == IInv /\ [Next]_vars => [Statebook!Next]_(Statebook!vars)
  <1> SUFFICES ASSUME IInv, [Next]_vars PROVE [Statebook!Next]_(Statebook!vars)
    OBVIOUS
  <1>1. ASSUME NEW u \in Users, NEW p \in Providers, Begin(u, p) PROVE Statebook!Next
    BY <1>1, IssueStep
  <1>2. ASSUME NEW s \in States, Callback(s) PROVE Statebook!Next
    BY <1>2, RedeemStep
  <1>3. ASSUME NEW s \in States, TtlPasses(s) PROVE Statebook!Next
    BY <1>3 DEF TtlPasses, Statebook!Next, Statebook!Expire
  <1>4. ASSUME Sweep \/ Restart PROVE Statebook!Next
    BY <1>4, LapseStep
  <1>5. ASSUME \/ \E j \in jobs : CallbackStep(j) \/ CallbackFails(j)
               \/ \E r \in rows : Disconnect(r)
               \/ UNCHANGED vars
        PROVE  UNCHANGED Statebook!vars
    <2>1. UNCHANGED <<states, begun, expired, consumed>>
      BY <1>5 DEF CallbackStep, Exchange, Profile, Count, Upsert, CallbackFails,
                  Disconnect, vars
    <2> QED
      BY <2>1 DEF Statebook!vars
  <1> QED
    BY <1>1, <1>2, <1>3, <1>4, <1>5 DEF Next

\* Connecting implements the safety of Ticket: a state is issued once, and accepted at
\* most once and within its ten minutes (consume()).
THEOREM ImplementsTicket == Spec => Statebook!Safe
  <1>1. Init => Statebook!Init
    BY DEF Init, Statebook!Init
  <1> QED
    BY <1>1, Inductive, TicketStep, PTL DEF Spec, Statebook!Safe
=============================================================================
