--------------------------- MODULE PairingProofs ---------------------------
(***************************************************************************)
(* Theorems about Pairing, for any agents, users and bounds: the types,    *)
(* that an agent is linked to a token the API accepts, and that the codes  *)
(* are the tickets of Ticket, as far as safety goes.                       *)
(***************************************************************************)
EXTENDS Pairing, TLAPS

\* The API accepts the token, or its user has approved another code.
Accepted(t) ==
    /\ t \in 1 .. Len(issued)
    /\ \/ agentToken[issued[t]] = t
       \/ \E s \in 1 .. Len(issued) : s # t /\ issued[s] = issued[t]

\* Every token on its way to an agent is already accepted.
Accepting ==
    /\ \A a \in Agents : phase[a] = "linked" => Accepted(token[a])
    /\ \A c \in DOMAIN pending : pending[c] # None => Accepted(pending[c])
    /\ \A v \in approving :
         v.token \in 1 .. Len(issued) /\ (v.saved => Accepted(v.token))
    /\ \A u \in Users : agentToken[u] # None => agentToken[u] \in 1 .. Len(issued)

\* A token is in one place at a time: a call of approve(), a code, or handed out.
OnePlace ==
    /\ \A v, w \in approving : v.token = w.token => v = w
    /\ \A v \in approving : v.token \notin released
    /\ \A c \in DOMAIN pending : pending[c] \notin released
    /\ \A c \in DOMAIN pending, v \in approving : pending[c] # v.token
    /\ \A c, d \in DOMAIN pending : pending[c] = pending[d] => c = d \/ pending[c] = None

\* What has been handed out was generated, and what the API knows was registered.
Bounded ==
    /\ released \subseteq 1 .. Len(issued)
    /\ \A c \in DOMAIN pending : c[2] <= attempt[c[1]]

IInv == TypeOK /\ Accepting /\ OnePlace /\ Bounded

-----------------------------------------------------------------------------
(* What the parts of a step preserve                                         *)

\* A token that is accepted stays so while no row of the users changes.
LEMMA AcceptedKept ==
    ASSUME NEW t, Accepted(t), UNCHANGED agentToken, UNCHANGED issued
    PROVE  Accepted(t)'
  BY DEF Accepted

\* A step that takes codes and calls away, and links nobody, preserves the rest.
LEMMA Shrinking ==
    ASSUME IInv,
           DOMAIN pending' \subseteq DOMAIN pending,
           \A c \in DOMAIN pending' : pending'[c] = pending[c],
           approving' \subseteq approving,
           \A a \in Agents : phase'[a] = "linked" => phase[a] = "linked",
           UNCHANGED <<attempt, token, agentToken, issued, released>>
    PROVE  Accepting' /\ OnePlace' /\ Bounded'
  <1>1. Accepting'
    BY DEF IInv, Accepting, Accepted
  <1>2. OnePlace'
    BY DEF IInv, OnePlace
  <1>3. Bounded'
    BY DEF IInv, Bounded
  <1> QED
    BY <1>1, <1>2, <1>3

\* The types of a step that takes codes and calls away.
LEMMA ShrinkingTypes ==
    ASSUME TypeOK,
           DOMAIN pending' \subseteq DOMAIN pending,
           \A c \in DOMAIN pending' : pending'[c] = pending[c],
           approving' \subseteq approving,
           phase' \in [Agents -> {"start", "waiting", "linked", "stopped"}],
           expired' \subseteq Codes,
           faults' \in 0 .. MaxFaults,
           UNCHANGED <<attempt, token, agentToken, issued, released>>
    PROVE  TypeOK'
  BY DEF TypeOK

\* A fault is counted.
LEMMA FaultTyped == TypeOK /\ Fault => faults' \in 0 .. MaxFaults
  BY LimitsAssumption DEF TypeOK, Fault

\* What poll() leaves in the map.
LEMMA AfterPollShrinks ==
    ASSUME NEW c, pending' = AfterPoll(c)
    PROVE  /\ DOMAIN pending' \subseteq DOMAIN pending
           /\ \A d \in DOMAIN pending' : pending'[d] = pending[d]
           /\ Known(c) /\ (c \in expired \/ pending[c] # None)
                => DOMAIN pending' = DOMAIN pending \ {c}
           /\ ~(Known(c) /\ (c \in expired \/ pending[c] # None)) => pending' = pending
  BY DEF AfterPoll, Without, Known

-----------------------------------------------------------------------------
LEMMA InitIInv == Init => IInv
  <1> SUFFICES ASSUME Init PROVE IInv
    OBVIOUS
  <1>1. TypeOK
    BY LimitsAssumption DEF Init, TypeOK
  <1>2. Accepting /\ OnePlace /\ Bounded
    BY DEF Init, Accepting, OnePlace, Bounded
  <1> QED
    BY <1>1, <1>2 DEF IInv

\* A new code, without a token, perhaps lost on its way.
LEMMA RegisterStep ==
    ASSUME IInv, NEW a \in Agents, Register(a)
    PROVE  IInv'
  <1> DEFINE c == <<a, attempt[a] + 1>>
  <1>1. c \in Codes /\ attempt'[a] = attempt[a] + 1
        /\ attempt' \in [Agents -> 0 .. MaxAttempts]
        /\ \A b \in Agents : attempt[b] <= attempt'[b]
    BY LimitsAssumption DEF IInv, TypeOK, Register, Codes
  <1>2. \/ pending' = pending
        \/ /\ DOMAIN pending' = DOMAIN pending \cup {c}
           /\ \A d \in DOMAIN pending' : pending'[d] = IF d = c THEN None ELSE pending[d]
    BY DEF Register, Registered
  <1>3. \A d \in DOMAIN pending' : pending'[d] = None \/ (d \in DOMAIN pending
                                                        /\ pending'[d] = pending[d])
    BY <1>2
  <1>4. DOMAIN pending' \subseteq DOMAIN pending \cup {c}
    BY <1>2
  <1>5. UNCHANGED <<token, expired, approving, agentToken, issued, released>>
    BY DEF Register
  <1>6. /\ phase' \in [Agents -> {"start", "waiting", "linked", "stopped"}]
        /\ \A b \in Agents : phase'[b] = "linked" => phase[b] = "linked"
        /\ faults' \in 0 .. MaxFaults
    BY FaultTyped DEF IInv, TypeOK, Register
  <1>7. \A d \in DOMAIN pending : d \in Codes
    BY DEF IInv, TypeOK
  <1> HIDE DEF c
  <1>8. TypeOK'
    BY <1>1, <1>3, <1>4, <1>5, <1>6 DEF IInv, TypeOK
  <1>9. Accepting'
    BY <1>3, <1>5, <1>6 DEF IInv, Accepting, Accepted
  <1>10. None \notin released /\ \A v \in approving : v.token # None
    <2>1. None \notin Tokens
      BY NoneAssumption DEF Tokens
    <2>2. released \subseteq Tokens /\ \A v \in approving : v.token \in Tokens
      BY DEF IInv, TypeOK
    <2> QED
      BY <2>1, <2>2
  <1>11. OnePlace'
    BY <1>3, <1>5, <1>10 DEF IInv, OnePlace
  <1>12. Bounded'
    <2>1. c[2] <= attempt'[c[1]]
      BY <1>1 DEF c, IInv, TypeOK
    <2>2. ASSUME NEW d \in DOMAIN pending PROVE d[2] <= attempt'[d[1]]
      <3>1. d[1] \in Agents /\ d[2] \in Nat /\ d[2] <= attempt[d[1]]
        BY <1>7 DEF IInv, Bounded, Codes
      <3>2. attempt[d[1]] \in Nat /\ attempt'[d[1]] \in Nat
        BY <1>1, <3>1, LimitsAssumption DEF IInv, TypeOK
      <3> QED
        BY <1>1, <3>1, <3>2
    <2> QED
      BY <1>4, <1>5, <2>1, <2>2 DEF IInv, Bounded
  <1> QED
    BY <1>8, <1>9, <1>11, <1>12 DEF IInv

\* A token is generated: it is in no other place.
LEMMA ApprovalStep ==
    ASSUME IInv, NEW u \in Users, NEW c \in Codes, Approve(u, c)
    PROVE  IInv'
  <1> DEFINE new == [code |-> c, token |-> Len(issued) + 1, saved |-> FALSE]
  <1>1. Len(issued) \in Nat /\ Len(issued) + 1 \in Tokens /\ Len(issued) + 1 \notin 1 .. Len(issued)
    BY LimitsAssumption DEF IInv, TypeOK, Approve, Tokens
  <1>2. /\ issued' \in Seq(Users) /\ Len(issued') = Len(issued) + 1
        /\ \A t \in 1 .. Len(issued) : t \in 1 .. Len(issued') /\ issued'[t] = issued[t]
        /\ Len(issued) + 1 \in 1 .. Len(issued')
    BY DEF IInv, TypeOK, Approve
  <1>3. approving' = approving \cup {new}
        /\ UNCHANGED <<phase, attempt, token, pending, expired, agentToken, released, faults>>
    BY DEF Approve
  <1>4. new \in [code : Codes, token : Tokens, saved : BOOLEAN]
        /\ new.token = Len(issued) + 1 /\ new.saved = FALSE
    BY <1>1
  <1> HIDE DEF new
  <1>5. \A t : Accepted(t) => Accepted(t)'
    BY <1>2, <1>3 DEF Accepted
  <1>6. TypeOK'
    <2>1. \A w \in Users : agentToken[w] # None => issued'[agentToken[w]] = w
      BY <1>2 DEF IInv, TypeOK, Accepting
    <2>2. Len(issued') <= MaxApprovals
      BY <1>1, <1>2, LimitsAssumption DEF Tokens
    <2> QED
      BY <1>2, <1>3, <1>4, <2>1, <2>2 DEF IInv, TypeOK
  <1>7. Accepting'
    BY <1>2, <1>3, <1>4, <1>5 DEF IInv, Accepting
  <1>8. /\ \A v \in approving : v.token # Len(issued) + 1
        /\ \A d \in DOMAIN pending : pending[d] # Len(issued) + 1
        /\ Len(issued) + 1 \notin released
    <2>1. \A v \in approving : v.token \in 1 .. Len(issued)
      BY DEF IInv, Accepting
    <2>2. \A d \in DOMAIN pending : pending[d] = None \/ pending[d] \in 1 .. Len(issued)
      BY DEF IInv, Accepting, Accepted
    <2> QED
      BY <1>1, <2>1, <2>2, NoneAssumption DEF IInv, Bounded
  <1>9. OnePlace'
    BY <1>3, <1>4, <1>8 DEF IInv, OnePlace
  <1>10. Bounded'
    BY <1>2, <1>3 DEF IInv, Bounded
  <1> QED
    BY <1>6, <1>7, <1>9, <1>10 DEF IInv

\* The row of the user is written: the token it held before has been replaced.
LEMMA SaveStep ==
    ASSUME IInv, NEW v \in approving, ApproveSave(v)
    PROVE  IInv'
  <1> DEFINE u == issued[v.token]
             done == [v EXCEPT !.saved = TRUE]
  <1>1. v \in [code : Codes, token : Tokens, saved : BOOLEAN]
        /\ v.token \in 1 .. Len(issued) /\ u \in Users
    BY DEF IInv, TypeOK, Accepting
  <1>2. agentToken' = [agentToken EXCEPT ![u] = v.token]
        /\ approving' = (approving \ {v}) \cup {done}
        /\ UNCHANGED <<phase, attempt, token, pending, expired, issued, released, faults>>
    BY DEF ApproveSave
  <1>3. done \in [code : Codes, token : Tokens, saved : BOOLEAN] /\ done.token = v.token
    BY <1>1
  <1>4. agentToken \in [Users -> Tokens \cup {None}]
    BY DEF IInv, TypeOK
  <1>5. agentToken' \in [Users -> Tokens \cup {None}] /\ agentToken'[u] = v.token
        /\ \A w \in Users : w # u => agentToken'[w] = agentToken[w]
    BY <1>1, <1>2, <1>4
  <1>6. \A t : Accepted(t) => Accepted(t)'
    <2> SUFFICES ASSUME NEW t, Accepted(t) PROVE Accepted(t)'
      OBVIOUS
    <2>1. t \in 1 .. Len(issued) /\ issued[t] \in Users
      BY DEF Accepted, IInv, TypeOK
    <2>2. CASE issued[t] # u
      BY <1>2, <1>5, <2>1, <2>2 DEF Accepted
    <2>3. CASE issued[t] = u /\ t = v.token
      BY <1>2, <1>5, <2>1, <2>3 DEF Accepted
    <2>4. CASE issued[t] = u /\ t # v.token
      BY <1>1, <1>2, <2>1, <2>4 DEF Accepted
    <2> QED
      BY <2>2, <2>3, <2>4
  <1>7. Accepted(v.token)'
    BY <1>1, <1>2, <1>5 DEF Accepted
  <1> HIDE DEF done
  <1>8. TypeOK'
    <2>1. \A w \in Users : agentToken'[w] # None => issued[agentToken'[w]] = w
      <3> SUFFICES ASSUME NEW w \in Users, agentToken'[w] # None
                   PROVE  issued[agentToken'[w]] = w
        OBVIOUS
      <3>1. CASE w = u
        BY <1>5, <3>1
      <3>2. CASE w # u
        BY <1>5, <3>2 DEF IInv, TypeOK
      <3> QED
        BY <3>1, <3>2
    <2> HIDE DEF u
    <2> QED
      BY <1>2, <1>3, <1>5, <2>1 DEF IInv, TypeOK
  <1>9. Accepting'
    <2>1. \A w \in Users : agentToken'[w] # None => agentToken'[w] \in 1 .. Len(issued)
      BY <1>1, <1>5 DEF IInv, Accepting
    <2> HIDE DEF u
    <2> QED
      BY <1>1, <1>2, <1>3, <1>6, <1>7, <2>1 DEF IInv, Accepting
  <1>10. OnePlace'
    BY <1>2, <1>3 DEF IInv, OnePlace
  <1>11. Bounded'
    BY <1>2 DEF IInv, Bounded
  <1> QED
    BY <1>8, <1>9, <1>10, <1>11 DEF IInv

\* The code gets its token, which the row of the user already holds.
LEMMA ReturnStep ==
    ASSUME IInv, NEW v \in approving, ApproveReturn(v)
    PROVE  IInv'
  <1>1. /\ approving' = approving \ {v} /\ v.saved
        /\ UNCHANGED <<phase, attempt, token, expired, agentToken, issued, released, faults>>
        /\ DOMAIN pending' = DOMAIN pending
        /\ \A c \in DOMAIN pending :
             pending'[c] = IF c = v.code THEN v.token ELSE pending[c]
    BY DEF ApproveReturn, Known
  <1>2. v.token \in Tokens /\ Accepted(v.token)
    BY <1>1 DEF IInv, TypeOK, Accepting
  <1>3. \A t : Accepted(t) => Accepted(t)'
    BY <1>1, AcceptedKept
  <1>4. TypeOK'
    BY <1>1, <1>2 DEF IInv, TypeOK
  <1>5. Accepting'
    BY <1>1, <1>2, <1>3 DEF IInv, Accepting
  <1>6. OnePlace'
    BY <1>1 DEF IInv, OnePlace
  <1>7. Bounded'
    BY <1>1 DEF IInv, Bounded
  <1> QED
    BY <1>4, <1>5, <1>6, <1>7 DEF IInv

\* The agent gets the token of its code, which leaves the map.
LEMMA LinkedStep ==
    ASSUME IInv, NEW a \in Agents, Poll(a) \/ PollLost(a)
    PROVE  IInv'
  <1> DEFINE c == Code(a)
             handed == Known(c) /\ c \notin expired /\ pending[c] # None
  <1>1. pending' = AfterPoll(c)
        /\ UNCHANGED <<attempt, expired, approving, agentToken, issued>>
    BY DEF Poll, PollLost
  <1>2. /\ DOMAIN pending' \subseteq DOMAIN pending
        /\ \A d \in DOMAIN pending' : pending'[d] = pending[d]
        /\ handed => DOMAIN pending' = DOMAIN pending \ {c}
    BY <1>1, AfterPollShrinks
  <1>3. faults' \in 0 .. MaxFaults
    BY FaultTyped DEF IInv, TypeOK, Poll, PollLost
  <1>4. CASE ~handed
    <2>1. UNCHANGED <<token, released>>
          /\ phase' \in [Agents -> {"start", "waiting", "linked", "stopped"}]
          /\ \A b \in Agents : phase'[b] = "linked" => phase[b] = "linked"
      BY <1>4 DEF IInv, TypeOK, Poll, PollLost, Answered, Known
    <2> QED
      BY <1>1, <1>2, <1>3, <2>1, Shrinking, ShrinkingTypes DEF IInv, TypeOK
  <1>5. CASE handed
    <2>1. PICK t \in Tokens : t = pending[c] /\ Accepted(t) /\ c \in DOMAIN pending
      BY <1>5 DEF IInv, TypeOK, Accepting, Known
    <2>2. released' = released \cup {t}
      BY <1>5, <2>1 DEF Poll, PollLost, Answered
    <2>3. \/ UNCHANGED <<phase, token>>
          \/ /\ token' = [token EXCEPT ![a] = t]
             /\ phase' = [phase EXCEPT ![a] = "linked"]
      BY <1>5, <2>1 DEF Poll, PollLost, Answered
    <2>4. Accepted(t)' /\ \A s : Accepted(s) => Accepted(s)'
      BY <1>1, <2>1, AcceptedKept
    <2>5. /\ token' \in [Agents -> Tokens \cup {None}]
          /\ phase' \in [Agents -> {"start", "waiting", "linked", "stopped"}]
          /\ \A b \in Agents : \/ phase'[b] = phase[b] /\ token'[b] = token[b]
                               \/ token'[b] = t
      BY <2>1, <2>3 DEF IInv, TypeOK
    <2> HIDE DEF c, handed
    <2>6. TypeOK'
      BY <1>1, <1>2, <1>3, <2>1, <2>2, <2>5 DEF IInv, TypeOK
    <2>7. Accepting'
      BY <1>1, <1>2, <2>4, <2>5 DEF IInv, Accepting
    <2>8. OnePlace'
      <3>1. \A d \in DOMAIN pending' : d \in DOMAIN pending /\ d # c
        BY <1>2, <1>5
      <3>2. \A d \in DOMAIN pending' : pending'[d] # t
        BY <1>2, <1>5, <2>1, <3>1 DEF IInv, OnePlace, handed
      <3>3. \A v \in approving : v.token # t
        BY <2>1 DEF IInv, OnePlace
      <3> QED
        BY <1>1, <1>2, <2>2, <3>1, <3>2, <3>3 DEF IInv, OnePlace
    <2>9. Bounded'
      BY <1>1, <1>2, <2>1, <2>2 DEF IInv, Bounded, Accepted
    <2> QED
      BY <2>6, <2>7, <2>8, <2>9 DEF IInv
  <1> QED
    BY <1>4, <1>5

\* What only takes codes and calls away, or lets time pass.
LEMMA ShrinkingStep ==
    ASSUME IInv,
           \/ \E a \in Agents : GiveUp(a) \/ Restart(a)
           \/ \E v \in approving : ApproveFails(v)
           \/ \E c \in Codes : TtlPasses(c)
           \/ Sweep \/ ApiRestart \/ UNCHANGED vars
    PROVE  IInv'
  <1>1. /\ DOMAIN pending' \subseteq DOMAIN pending
        /\ \A c \in DOMAIN pending' : pending'[c] = pending[c]
        /\ approving' \subseteq approving
    BY DEF GiveUp, Restart, ApproveFails, TtlPasses, Sweep, ApiRestart, vars
  <1>2. /\ phase' \in [Agents -> {"start", "waiting", "linked", "stopped"}]
        /\ \A a \in Agents : phase'[a] = "linked" => phase[a] = "linked"
    BY DEF IInv, TypeOK, GiveUp, Restart, ApproveFails, TtlPasses, Sweep, ApiRestart, vars
  <1>3. expired' \subseteq Codes
    BY DEF IInv, TypeOK, GiveUp, Restart, ApproveFails, TtlPasses, Sweep, ApiRestart, vars
  <1>4. faults' \in 0 .. MaxFaults
    BY FaultTyped
       DEF IInv, TypeOK, GiveUp, Restart, ApproveFails, TtlPasses, Sweep, ApiRestart, vars
  <1>5. UNCHANGED <<attempt, token, agentToken, issued, released>>
    BY DEF GiveUp, Restart, ApproveFails, TtlPasses, Sweep, ApiRestart, vars
  <1> QED
    BY <1>1, <1>2, <1>3, <1>4, <1>5, Shrinking, ShrinkingTypes DEF IInv

LEMMA NextIInv == IInv /\ [Next]_vars => IInv'
  BY RegisterStep, ApprovalStep, SaveStep, ReturnStep, LinkedStep, ShrinkingStep
     DEF Next, AgentStep, ApproveStep

\* IInv is an invariant of pairing, however requests, crashes and expiries interleave.
THEOREM Inductive == Spec => []IInv
  BY InitIInv, NextIInv, PTL DEF Spec

\* The types: the token in a user's row was generated for them.
THEOREM TypeCorrect == Spec => []TypeOK
  <1>1. IInv => TypeOK
    BY DEF IInv
  <1> QED
    BY Inductive, <1>1, PTL

\* An agent that says it is linked has a token that the API accepts, until its user
\* approves another code (approve(), poll()).
THEOREM LinkedAccepted == Spec => []LinkedIsAccepted
  <1>1. IInv => LinkedIsAccepted
    BY DEF IInv, Accepting, Accepted, LinkedIsAccepted
  <1> QED
    BY Inductive, <1>1, PTL

-----------------------------------------------------------------------------
(* The codes are tickets                                                     *)

Spent == {c \in Codes : c[2] <= attempt[c[1]] /\ ~Known(c)}

\* Codes that leave the map, and nothing else that concerns tickets.
LEMMA LapseStep ==
    ASSUME IInv, DOMAIN pending' \subseteq DOMAIN pending,
           UNCHANGED <<attempt, expired, released>>
    PROVE  Codebook!Lapse
  <1>1. DOMAIN pending' = DOMAIN pending \ Spent' /\ Spent \subseteq Spent'
        /\ Spent' \subseteq Codes
    BY DEF IInv, TypeOK, Bounded, Spent, Known
  <1> QED
    BY <1>1 DEF Codebook!Lapse, Spent

\* A code is registered, or lost on its way.
LEMMA IssueStep ==
    ASSUME IInv, NEW a \in Agents, Register(a)
    PROVE  Codebook!Next
  <1> DEFINE c == <<a, attempt[a] + 1>>
  <1>1. c \in Codes /\ attempt[a] \in Nat /\ ~(attempt[a] + 1 <= attempt[a])
    BY LimitsAssumption DEF IInv, TypeOK, Register, Codes
  <1>2. c \notin DOMAIN pending /\ c \notin Spent
    BY <1>1 DEF IInv, Bounded, Spent
  <1>3. UNCHANGED <<expired, released>>
        /\ \A d \in Codes : d[2] <= attempt'[d[1]] <=> d = c \/ d[2] <= attempt[d[1]]
    <2>1. attempt' = [attempt EXCEPT ![a] = attempt[a] + 1]
          /\ attempt \in [Agents -> 0 .. MaxAttempts] /\ UNCHANGED <<expired, released>>
      BY DEF IInv, TypeOK, Register
    <2>2. ASSUME NEW d \in Codes
          PROVE  d[2] <= attempt'[d[1]] <=> d = c \/ d[2] <= attempt[d[1]]
      <3>1. d[1] \in Agents /\ d[2] \in Nat /\ d = <<d[1], d[2]>>
        BY DEF Codes
      <3>2. CASE d[1] = a
        BY <1>1, <2>1, <3>1, <3>2
      <3>3. CASE d[1] # a
        BY <1>1, <2>1, <3>1, <3>3
      <3> QED
        BY <3>2, <3>3
    <2> QED
      BY <2>1, <2>2
  <1>4. pending' = pending \/ DOMAIN pending' = DOMAIN pending \cup {c}
    BY DEF Register, Registered
  <1>5. DOMAIN pending \subseteq Codes
    BY DEF IInv, TypeOK
  <1> HIDE DEF c
  <1>6. CASE pending' = pending
    <2>1. Spent' = Spent \cup {c}
      BY <1>1, <1>2, <1>3, <1>6 DEF Spent, Known
    <2>2. DOMAIN pending' = DOMAIN pending \ Spent'
      BY <1>2, <1>6, <2>1 DEF Spent, Known
    <2>3. Spent' \in SUBSET Codes
      BY DEF Spent
    <2>4. Codebook!Lapse
      BY <1>3, <2>1, <2>2, <2>3 DEF Codebook!Lapse, Spent
    <2> QED
      BY <2>4 DEF Codebook!Next
  <1>7. CASE DOMAIN pending' = DOMAIN pending \cup {c}
    <2>1. Spent' = Spent
      BY <1>2, <1>3, <1>7 DEF Spent, Known
    <2>2. Codebook!Issue(c)
      BY <1>1, <1>2, <1>3, <1>7, <2>1 DEF Codebook!Issue, Spent
    <2> QED
      BY <1>1, <2>2 DEF Codebook!Next
  <1> QED
    BY <1>4, <1>6, <1>7

\* A poll redeems the code, or forgets an expired one, or changes nothing.
LEMMA RedeemStep ==
    ASSUME IInv, NEW a \in Agents, Poll(a) \/ PollLost(a)
    PROVE  Codebook!Next
  <1> DEFINE c == Code(a)
             handed == Known(c) /\ c \notin expired /\ pending[c] # None
  <1>1. pending' = AfterPoll(c) /\ UNCHANGED <<attempt, expired>>
    BY DEF Poll, PollLost
  <1>2. CASE ~handed
    <2>1. DOMAIN pending' \subseteq DOMAIN pending
      BY <1>1, AfterPollShrinks
    <2>2. UNCHANGED released
      BY <1>2 DEF Poll, PollLost, Answered, Known
    <2> QED
      BY <1>1, <2>1, <2>2, LapseStep DEF Codebook!Next
  <1>3. CASE handed
    <2>1. DOMAIN pending' = DOMAIN pending \ {c} /\ released' = released \cup {pending[c]}
      BY <1>1, <1>3, AfterPollShrinks DEF Poll, PollLost, Answered
    <2>2. pending[c] \in Tokens \ released /\ c \in Codes /\ c[2] <= attempt[c[1]]
          /\ c \in DOMAIN pending
      BY <1>3 DEF IInv, TypeOK, OnePlace, Bounded, Known
    <2>3. Spent' = Spent \cup {c}
      BY <1>1, <2>1, <2>2 DEF Spent, Known
    <2>4. PICK t \in Codes : t = c
      BY <2>2
    <2>5. t \in DOMAIN pending \ expired
      BY <1>3, <2>4 DEF Known
    <2> HIDE DEF c, handed
    <2>6. Codebook!Redeem(t)
      BY <1>1, <2>1, <2>2, <2>3, <2>4, <2>5 DEF Codebook!Redeem, Spent
    <2> QED
      BY <2>6 DEF Codebook!Next
  <1> QED
    BY <1>2, <1>3

\* Every step of pairing is a step of Ticket, or changes none of its variables.
LEMMA TicketStep == IInv /\ [Next]_vars => [Codebook!Next]_(Codebook!vars)
  <1> SUFFICES ASSUME IInv, [Next]_vars PROVE [Codebook!Next]_(Codebook!vars)
    OBVIOUS
  <1>1. ASSUME NEW a \in Agents, Register(a) PROVE Codebook!Next
    BY <1>1, IssueStep
  <1>2. ASSUME NEW a \in Agents, Poll(a) \/ PollLost(a) PROVE Codebook!Next
    BY <1>2, RedeemStep
  <1>3. ASSUME NEW c \in Codes, TtlPasses(c) PROVE Codebook!Next
    BY <1>3 DEF TtlPasses, Codebook!Next, Codebook!Expire, Known
  <1>4. ASSUME Sweep \/ ApiRestart PROVE Codebook!Next
    BY <1>4, LapseStep DEF Sweep, ApiRestart, Codebook!Next
  <1>5. ASSUME NEW v \in approving, ApproveReturn(v) PROVE UNCHANGED Codebook!vars
    <2>1. DOMAIN pending' = DOMAIN pending /\ UNCHANGED <<attempt, expired, released>>
      BY <1>5 DEF ApproveReturn
    <2> QED
      BY <2>1 DEF Codebook!vars, Known
  <1>6. ASSUME \/ \E a \in Agents : GiveUp(a) \/ Restart(a)
               \/ \E u \in Users, c \in Codes : Approve(u, c)
               \/ \E v \in approving : ApproveSave(v) \/ ApproveFails(v)
               \/ UNCHANGED vars
        PROVE  UNCHANGED Codebook!vars
    <2>1. UNCHANGED <<pending, attempt, expired, released>>
      BY <1>6 DEF GiveUp, Restart, Approve, ApproveSave, ApproveFails, vars
    <2> QED
      BY <2>1 DEF Codebook!vars, Known
  <1> QED
    BY <1>1, <1>2, <1>3, <1>4, <1>5, <1>6 DEF Next, AgentStep, ApproveStep

\* Pairing implements the safety of Ticket: a code is registered once, yields one token
\* that nothing else has yielded, and none once it has expired.
THEOREM ImplementsTicket == Spec => Codebook!Safe
  <1>1. Init => Codebook!Init
    BY DEF Init, Codebook!Init, Codes, Known
  <1> QED
    BY <1>1, Inductive, TicketStep, PTL DEF Spec, Codebook!Safe
=============================================================================
