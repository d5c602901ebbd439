------------------------------ MODULE Pairing ------------------------------
(***************************************************************************)
(* How an agent without a token is linked to an account.                   *)
(*                                                                         *)
(* The agent (app.py, _pair_with_portal) registers a code with the API and *)
(* polls for its approval; the portal (device/page.tsx) approves the code  *)
(* for the user who is logged in; the API (pairing/pairing.service.ts)     *)
(* keeps the codes in memory and the user's token in the database.  The    *)
(* steps are the requests, split where approve() awaits the database.      *)
(***************************************************************************)
EXTENDS Naturals, Sequences

CONSTANTS
    Agents, Users,
    None,           \* no token
    MaxAttempts,    \* bound: codes that one agent generates
    MaxApprovals,   \* bound: approvals
    MaxFaults       \* bound: lost requests and answers, crashes and restarts

ASSUME NoneAssumption   == None \notin Nat
ASSUME LimitsAssumption == MaxAttempts \in Nat /\ MaxApprovals \in Nat /\ MaxFaults \in Nat

VARIABLES
    phase,      \* of each agent: "start", "waiting", "linked" or "stopped"
    attempt,    \* of each agent: the code <<agent, attempt>> is never used again
    token,      \* of each agent: api.token of its settings file
    pending,    \* the API's map: the code's approvedToken, for the codes it holds
    expired,    \* the codes whose TTL has passed
    approving,  \* calls of approve() that await the database, or its answer
    agentToken, \* the column User.agentToken
    issued,     \* history: the user for whom each token was generated
    released,   \* history: the tokens that poll() has handed out
    faults      \* faults so far

vars == <<phase, attempt, token, pending, expired, approving, agentToken,
          issued, released, faults>>

Tokens == 1 .. MaxApprovals
Codes  == Agents \X (1 .. MaxAttempts)

Code(a)  == <<a, attempt[a]>>
Known(c) == c \in DOMAIN pending

Without(c) == [d \in DOMAIN pending \ {c} |-> pending[d]]

Fault == faults < MaxFaults /\ faults' = faults + 1

-----------------------------------------------------------------------------
Init ==
    /\ phase = [a \in Agents |-> "start"]
    /\ attempt = [a \in Agents |-> 0]
    /\ token = [a \in Agents |-> None]
    /\ pending = [c \in {} |-> None]
    /\ expired = {}
    /\ approving = {}
    /\ agentToken = [u \in Users |-> None]
    /\ issued = <<>>
    /\ released = {}
    /\ faults = 0

\* register(): a code, not approved yet.
Registered(c) ==
    [d \in DOMAIN pending \cup {c} |-> IF d = c THEN None ELSE pending[d]]

\* The agent generates a code and registers it.
Register(a) ==
    /\ phase[a] = "start" /\ attempt[a] < MaxAttempts
    /\ attempt' = [attempt EXCEPT ![a] = @ + 1]
    /\ LET c == <<a, attempt[a] + 1>>
       IN  \/ pending' = Registered(c)
              /\ phase' = [phase EXCEPT ![a] = "waiting"] /\ UNCHANGED faults
           \/ Fault                              \* the request or its answer is lost
              /\ pending' \in {pending, Registered(c)}
              /\ phase' = [phase EXCEPT ![a] = "stopped"]
    /\ UNCHANGED <<token, expired, approving, agentToken, issued, released>>

-----------------------------------------------------------------------------
(* approve()                                                                 *)

\* The code is checked and the token generated.
Approve(u, c) ==
    /\ Known(c) /\ c \notin expired
    /\ Len(issued) < MaxApprovals
    /\ issued' = Append(issued, u)
    /\ approving' = approving \cup {[code |-> c, token |-> Len(issued) + 1, saved |-> FALSE]}
    /\ UNCHANGED <<phase, attempt, token, pending, expired, agentToken, released,
                   faults>>

\* Mutant: the entry gets its token before the database has it.
ApproveSaveLate(v) ==
    /\ v \in approving /\ ~v.saved
    /\ pending' = IF Known(v.code) THEN [pending EXCEPT ![v.code] = v.token] ELSE pending
    /\ approving' = (approving \ {v}) \cup {[v EXCEPT !.saved = TRUE]}
    /\ UNCHANGED <<phase, attempt, token, expired, agentToken, issued, released,
                   faults>>

\* Mutant: the update is not restricted to the user.
ApproveSaveAll(v) ==
    /\ v \in approving /\ ~v.saved
    /\ agentToken' = [u \in Users |-> v.token]
    /\ approving' = (approving \ {v}) \cup {[v EXCEPT !.saved = TRUE]}
    /\ UNCHANGED <<phase, attempt, token, pending, expired, issued, released,
                   faults>>

\* The database stores the token of the user.
ApproveSave(v) ==
    /\ v \in approving /\ ~v.saved
    /\ agentToken' = [agentToken EXCEPT ![issued[v.token]] = v.token]
    /\ approving' = (approving \ {v}) \cup {[v EXCEPT !.saved = TRUE]}
    /\ UNCHANGED <<phase, attempt, token, pending, expired, issued, released,
                   faults>>

\* The entry gets its token: in vain when it has left the map meanwhile.
ApproveReturn(v) ==
    /\ v \in approving /\ v.saved
    /\ pending' = IF Known(v.code) THEN [pending EXCEPT ![v.code] = v.token] ELSE pending
    /\ approving' = approving \ {v}
    /\ UNCHANGED <<phase, attempt, token, expired, agentToken, issued, released,
                   faults>>

\* The update fails: approve() throws.
ApproveFails(v) ==
    /\ v \in approving /\ ~v.saved
    /\ Fault
    /\ approving' = approving \ {v}
    /\ UNCHANGED <<phase, attempt, token, pending, expired, agentToken, issued,
                   released>>

-----------------------------------------------------------------------------
(* The status request of the agent                                           *)

\* Mutant: poll() keeps the entry.
AfterPollKept(c) == pending

\* What poll() leaves in the map.
AfterPoll(c) ==
    IF Known(c) /\ (c \in expired \/ pending[c] # None) THEN Without(c) ELSE pending

\* What the agent does with the answer.
Answered(a, c) ==
    \/ /\ ~Known(c) \/ c \in expired
       /\ phase' = [phase EXCEPT ![a] = "stopped"]
       /\ UNCHANGED <<token, released>>
    \/ /\ Known(c) /\ c \notin expired /\ pending[c] = None
       /\ UNCHANGED <<phase, token, released>>
    \/ /\ Known(c) /\ c \notin expired /\ pending[c] # None
       /\ token' = [token EXCEPT ![a] = pending[c]]
       /\ phase' = [phase EXCEPT ![a] = "linked"]
       /\ released' = released \cup {pending[c]}

Poll(a) ==
    /\ phase[a] = "waiting"
    /\ Answered(a, Code(a))
    /\ pending' = AfterPoll(Code(a))
    /\ UNCHANGED <<attempt, expired, approving, agentToken, issued, faults>>

\* The answer does not reach the agent within its timeout.
PollLost(a) ==
    /\ phase[a] = "waiting" /\ Known(Code(a))
    /\ Fault
    /\ pending' = AfterPoll(Code(a))
    /\ released' = IF Code(a) \notin expired /\ pending[Code(a)] # None
                   THEN released \cup {pending[Code(a)]} ELSE released
    /\ UNCHANGED <<phase, attempt, token, expired, approving, agentToken, issued>>

\* Mutant: the loop has no deadline.
NoDeadline(a) == FALSE /\ UNCHANGED vars

\* The deadline of the agent, which it sets after the code is registered.
GiveUp(a) ==
    /\ phase[a] = "waiting" /\ Code(a) \in expired
    /\ phase' = [phase EXCEPT ![a] = "stopped"]
    /\ UNCHANGED <<attempt, token, pending, expired, approving, agentToken, issued,
                   released, faults>>

-----------------------------------------------------------------------------
(* Time, crashes and restarts                                                *)

TtlPasses(c) ==
    /\ c \notin expired /\ c[2] <= attempt[c[1]]
    /\ expired' = expired \cup {c}
    /\ UNCHANGED <<phase, attempt, token, pending, approving, agentToken, issued,
                   released, faults>>

Sweep ==
    /\ \E c \in expired : Known(c)
    /\ pending' = [c \in DOMAIN pending \ expired |-> pending[c]]
    /\ UNCHANGED <<phase, attempt, token, expired, approving, agentToken, issued,
                   released, faults>>

\* The agent is started again, after it has stopped or crashed.
Restart(a) ==
    /\ \/ phase[a] = "stopped" /\ UNCHANGED faults
       \/ phase[a] = "waiting" /\ Fault
    /\ phase' = [phase EXCEPT ![a] = "start"]
    /\ UNCHANGED <<attempt, token, pending, expired, approving, agentToken, issued,
                   released>>

\* The API restarts: its memory is lost, and the calls in progress.
ApiRestart ==
    /\ Fault
    /\ pending' = [c \in {} |-> None]
    /\ approving' = {}
    /\ UNCHANGED <<phase, attempt, token, expired, agentToken, issued, released>>

-----------------------------------------------------------------------------
AgentStep(a) == Register(a) \/ GiveUp(a)

ApproveStep == \E v \in approving : ApproveSave(v) \/ ApproveReturn(v)

Next ==
    \/ \E a \in Agents : AgentStep(a) \/ Poll(a) \/ PollLost(a) \/ Restart(a)
    \/ \E u \in Users, c \in Codes : Approve(u, c)
    \/ ApproveStep
    \/ \E v \in approving : ApproveFails(v)
    \/ \E c \in Codes : TtlPasses(c)
    \/ Sweep \/ ApiRestart

Spec == Init /\ [][Next]_vars

\* The agent and the API run and time passes; nobody has to approve, and the
\* network may be down whenever the agent polls.
Fairness ==
    /\ \A a \in Agents : WF_vars(AgentStep(a))
    /\ WF_vars(ApproveStep)
    /\ \A c \in Codes : WF_vars(TtlPasses(c))
    /\ WF_vars(Sweep)

FairSpec == Spec /\ Fairness

-----------------------------------------------------------------------------
(* Properties                                                                *)

\* Every variable has its type; the token in a user's row was generated for them.
TypeOK ==
    /\ phase \in [Agents -> {"start", "waiting", "linked", "stopped"}]
    /\ attempt \in [Agents -> 0 .. MaxAttempts]
    /\ token \in [Agents -> Tokens \cup {None}]
    /\ DOMAIN pending \subseteq Codes
    /\ \A c \in DOMAIN pending : pending[c] \in Tokens \cup {None}
    /\ expired \subseteq Codes
    /\ approving \subseteq [code : Codes, token : Tokens, saved : BOOLEAN]
    /\ agentToken \in [Users -> Tokens \cup {None}]
    /\ \A u \in Users : agentToken[u] # None => issued[agentToken[u]] = u
    /\ issued \in Seq(Users) /\ Len(issued) <= MaxApprovals
    /\ released \subseteq Tokens
    /\ faults \in 0 .. MaxFaults

\* An agent that says it is linked has a token the API accepts, until the same user
\* approves another code (or the same one twice): neither an expiry nor a crash nor
\* a lost answer in the middle of approve() links it to nothing.
LinkedIsAccepted ==
    \A a \in Agents : phase[a] = "linked" =>
        LET t == token[a]
        IN  /\ t \in 1 .. Len(issued)
            /\ \/ agentToken[issued[t]] = t
               \/ \E s \in 1 .. Len(issued) : s # t /\ issued[s] = issued[t]

\* Every attempt to pair ends, even if the API cannot be reached any more.
PairingEnds == \A a \in Agents : phase[a] = "waiting" ~> phase[a] # "waiting"

\* The codes are tickets: each is registered once, yields one token that no other code
\* and no other poll has yielded, is worth nothing once it has expired, and leaves the
\* memory of the API, even if nobody polls for it or it is approved too late.
Codebook == INSTANCE Ticket WITH
    Tickets <- Codes, Goods <- Tokens,
    open    <- DOMAIN pending,
    expired <- expired,
    spent   <- {c \in Codes : c[2] <= attempt[c[1]] /\ ~Known(c)},
    served  <- released

CodesAreTickets == Codebook!Spec
=============================================================================
