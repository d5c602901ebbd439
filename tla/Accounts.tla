------------------------------ MODULE Accounts ------------------------------
(***************************************************************************)
(* Users, their API sessions, and the cookies of the browsers.             *)
(*                                                                         *)
(* The API (auth.service.ts, users.service.ts, jwt.strategy.ts) keeps one  *)
(* row for each user and one for each session; the web application         *)
(* (lib/auth.ts, the login, register and account pages) keeps the API's    *)
(* token in the browser's cookie.  A request is a sequence of queries:     *)
(* job[b] says which one the request of browser b makes next and what the  *)
(* earlier ones have found.                                                *)
(***************************************************************************)
EXTENDS Naturals, FiniteSets

CONSTANTS
    Browsers, Emails,
    Nobody,        \* no email
    MaxUsers,      \* bound: users ever created
    MaxSessions,   \* bound: sessions ever created
    MaxPasswords,  \* bound: passwords one after the other
    MaxFaults      \* bound: queries that fail, requests and answers that are lost

ASSUME NobodyAssumption == Nobody \notin Emails
ASSUME LimitsAssumption ==
    /\ MaxUsers \in Nat /\ MaxSessions \in Nat
    /\ MaxPasswords \in Nat /\ MaxFaults \in Nat

VARIABLES
    account,   \* table User: of each email, the id and the password (0: none)
    users,     \* users created so far
    sessions,  \* table Session, with what the property needs to know of a row
    opened,    \* sessions created so far
    cookie,    \* of each browser: how it signed in, as whom, the API's token (0: none)
    job,       \* of each browser: its request
    faults     \* faults so far

accountsVars == <<account, users, sessions, opened, cookie, job, faults>>

NoAccount == [id |-> 0, pw |-> 0]
NoCookie  == [via |-> "none", email |-> Nobody, token |-> 0]
NoJob     == [op |-> "none", at |-> "idle", email |-> Nobody, user |-> 0, own |-> 0,
              seen |-> 0]

Users     == 1 .. MaxUsers
Tokens    == 1 .. MaxSessions
Passwords == 1 .. MaxPasswords

Account == [id : 0 .. MaxUsers, pw : 0 .. MaxPasswords]
\* seen: the password in the user's row when the login read it; kept: the session that
\* a change of password spared on purpose; spared: one that it did not see or reach.
SessionRow == [id : Tokens, user : Users, seen : 0 .. MaxPasswords, kept : BOOLEAN,
               spared : BOOLEAN]
Cookie  == [via : {"none", "password", "oauth"}, email : Emails \cup {Nobody},
            token : 0 .. MaxSessions]
Job     == [op : {"none", "register", "login", "oauth", "password", "revoke", "delete",
                  "query"},
            at : {"idle", "find", "create", "session", "answer", "guard", "verify",
                  "update", "others", "run"},
            email : Emails \cup {Nobody}, user : 0 .. MaxUsers, own : 0 .. MaxSessions,
            seen : 0 .. MaxPasswords]

Idle(b)    == job[b].at = "idle"
Registered(e) == account[e].id # 0
EmailOf(u) == CHOOSE e \in Emails : account[e].id = u
Exists(u)  == u # 0 /\ \E e \in Emails : account[e].id = u
Pw(u)      == account[EmailOf(u)].pw
\* A change of the user's password has not deleted the other sessions yet.
Changing(u) == \E b \in Browsers : job[b].at = "others" /\ job[b].user = u
Fault      == faults < MaxFaults /\ faults' = faults + 1

Goto(b, place) == job' = [job EXCEPT ![b].at = place]
Done(b)        == job' = [job EXCEPT ![b] = NoJob]

-----------------------------------------------------------------------------
InitAccounts ==
    /\ account = [e \in Emails |-> NoAccount]
    /\ users = 0
    /\ sessions = {}
    /\ opened = 0
    /\ cookie = [b \in Browsers |-> NoCookie]
    /\ job = [b \in Browsers |-> NoJob]
    /\ faults = 0

-----------------------------------------------------------------------------
(* What the user does in the browser                                         *)

Ask(b, request) ==
    /\ Idle(b)
    /\ job' = [job EXCEPT ![b] = request]
    /\ UNCHANGED <<account, users, sessions, opened, cookie, faults>>

\* The forms for registering and signing in, to those who are not signed in.
SubmitRegister(b) ==
    /\ cookie[b] = NoCookie
    /\ \E e \in Emails : Ask(b, [NoJob EXCEPT !.op = "register", !.at = "find", !.email = e])

SubmitLogin(b) ==
    /\ cookie[b] = NoCookie
    /\ \E e \in Emails : Ask(b, [NoJob EXCEPT !.op = "login", !.at = "find", !.email = e])

\* The provider has verified the email, and NextAuth's jwt callback asks for a token.
OAuthSignIn(b) ==
    /\ cookie[b] = NoCookie
    /\ \E e \in Emails : Ask(b, [NoJob EXCEPT !.op = "oauth", !.at = "find", !.email = e])

\* Mutant: the token is asked for at sign-in only.
HealAtSignIn(b) == FALSE /\ UNCHANGED accountsVars

\* Self-heal: the jwt callback runs again, in a session without a token.
Heal(b) ==
    /\ cookie[b].via = "oauth" /\ cookie[b].token = 0
    /\ Ask(b, [NoJob EXCEPT !.op = "oauth", !.at = "find", !.email = cookie[b].email])

\* A page sends its request with the token of the cookie.
Request(b, op) ==
    /\ cookie[b].token # 0
    /\ Ask(b, [NoJob EXCEPT !.op = op, !.at = "guard", !.own = cookie[b].token])

\* The account page: its two lists and the profile, and the three things it changes.
LoadPage(b)       == Request(b, "query")
ChangePassword(b) == Request(b, "password")
RevokeSession(b)  == Request(b, "revoke")
DeleteAccount(b)  == Request(b, "delete")

\* The side bar: the cookie goes, the session of the API stays.
SignOut(b) ==
    /\ Idle(b) /\ cookie[b] # NoCookie
    /\ cookie' = [cookie EXCEPT ![b] = NoCookie]
    /\ UNCHANGED <<account, users, sessions, opened, job, faults>>

-----------------------------------------------------------------------------
(* register(), login() and oauthLogin(): the user, then createSession()      *)

\* The query by email decides: conflict, wrong credentials, or what comes next.
Find(b) ==
    /\ job[b].at = "find"
    /\ LET row == account[job[b].email]
           found == [job EXCEPT ![b].at = "session", ![b].user = row.id, ![b].seen = row.pw]
       IN  \/ /\ job[b].op \in {"register", "oauth"} /\ row.id = 0
              /\ Goto(b, "create")
           \/ /\ job[b].op = "oauth" /\ row.id # 0
              /\ job' = found
           \/ /\ job[b].op = "login" /\ row.pw # 0           \* the right password
              /\ job' = found
           \/ /\ \/ job[b].op = "register" /\ row.id # 0     \* the email is taken
                 \/ job[b].op = "login"                      \* no such user, or wrong
              /\ Done(b)
    /\ UNCHANGED <<account, users, sessions, opened, cookie, faults>>

\* The user is inserted; emails are unique in the database.
Create(b) ==
    LET e == job[b].email
        pw == IF job[b].op = "register" THEN 1 ELSE 0
    IN  /\ job[b].at = "create" /\ ~Registered(e)
        /\ users < MaxUsers /\ pw <= MaxPasswords
        /\ users' = users + 1
        /\ account' = [account EXCEPT ![e] = [id |-> users + 1, pw |-> pw]]
        /\ job' = [job EXCEPT ![b].at = "session", ![b].user = users + 1, ![b].seen = pw]
        /\ UNCHANGED <<sessions, opened, cookie, faults>>

\* What a request that has failed leaves: a sign-in at a provider stands, without a token.
CookieAfterFailure(b) ==
    IF job[b].op = "oauth"
    THEN [cookie EXCEPT ![b] = [via |-> "oauth", email |-> job[b].email, token |-> 0]]
    ELSE cookie

\* Somebody else has inserted the same email since.
CreateRefused(b) ==
    /\ job[b].at = "create" /\ Registered(job[b].email)
    /\ cookie' = CookieAfterFailure(b)
    /\ Done(b)
    /\ UNCHANGED <<account, users, sessions, opened, faults>>

\* createSession() inserts the session.
OpenSession(b) ==
    /\ job[b].at = "session" /\ Exists(job[b].user)
    /\ opened < MaxSessions
    /\ opened' = opened + 1
    /\ sessions' = sessions \cup
         {[id |-> opened + 1, user |-> job[b].user, seen |-> job[b].seen, kept |-> FALSE,
           spared |-> job[b].seen # Pw(job[b].user) /\ ~Changing(job[b].user)]}
    /\ job' = [job EXCEPT ![b].at = "answer", ![b].own = opened + 1]
    /\ UNCHANGED <<account, users, cookie, faults>>

\* The user has been deleted: the insertion, or the query after it, throws.
UserGone(b) ==
    /\ job[b].at \in {"session", "answer"} /\ ~Exists(job[b].user)
    /\ cookie' = CookieAfterFailure(b)
    /\ Done(b)
    /\ UNCHANGED <<account, users, sessions, opened, faults>>

\* The token reaches the cookie; after a registration the page signs in with it.
Answer(b) ==
    /\ job[b].at = "answer" /\ Exists(job[b].user)
    /\ \/ /\ job[b].op = "register"
          /\ job' = [job EXCEPT ![b] = [NoJob EXCEPT !.op = "login", !.at = "find",
                                                     !.email = job[b].email]]
          /\ UNCHANGED cookie
       \/ /\ job[b].op # "register"
          /\ cookie' = [cookie EXCEPT ![b] =
                          [via |-> IF job[b].op = "oauth" THEN "oauth" ELSE "password",
                           email |-> job[b].email, token |-> job[b].own]]
          /\ Done(b)
    /\ UNCHANGED <<account, users, sessions, opened, faults>>

-----------------------------------------------------------------------------
(* Requests with a token                                                     *)

\* validate(): the session of the token, if its row is still there.
Guard(b) ==
    /\ job[b].at = "guard"
    /\ \E s \in sessions :
          /\ s.id = job[b].own
          /\ job' = [job EXCEPT ![b].user = s.user,
                                ![b].at = IF job[b].op = "password" THEN "verify" ELSE "run"]
    /\ UNCHANGED <<account, users, sessions, opened, cookie, faults>>

\* The row is gone, or it has expired, which may have happened at any time.
GuardRefuses(b) ==
    /\ job[b].at = "guard"
    /\ Done(b)
    /\ UNCHANGED <<account, users, sessions, opened, cookie, faults>>

\* changePassword() reads the user and verifies the current password.
Verify(b) ==
    /\ job[b].at = "verify"
    /\ \/ /\ Exists(job[b].user) /\ Pw(job[b].user) # 0
          /\ job' = [job EXCEPT ![b].at = "update", ![b].seen = Pw(job[b].user)]
       \/ Done(b)                        \* no user, no password, or the wrong one
    /\ UNCHANGED <<account, users, sessions, opened, cookie, faults>>

\* Mutant: the other sessions are left alone.
UpdatePasswordOnly(b) ==
    /\ job[b].at = "update" /\ Exists(job[b].user)
    /\ \E n \in Passwords : account' = [account EXCEPT ![EmailOf(job[b].user)].pw = n]
    /\ Done(b)
    /\ UNCHANGED <<users, sessions, opened, cookie, faults>>

\* It stores the new one, whatever the row holds by now.
UpdatePassword(b) ==
    /\ job[b].at = "update" /\ Exists(job[b].user)
    /\ \E n \in Passwords : account' = [account EXCEPT ![EmailOf(job[b].user)].pw = n]
    /\ Goto(b, "others")
    /\ UNCHANGED <<users, sessions, opened, cookie, faults>>

UpdateRefused(b) ==
    /\ job[b].at = "update" /\ ~Exists(job[b].user)
    /\ Done(b)
    /\ UNCHANGED <<account, users, sessions, opened, cookie, faults>>

\* It deletes the user's sessions but for the one that asked.
DeleteOthers(b) ==
    /\ job[b].at = "others"
    /\ sessions' = {IF s.user = job[b].user THEN [s EXCEPT !.kept = TRUE] ELSE s :
                      s \in {t \in sessions : t.user # job[b].user \/ t.id = job[b].own}}
    /\ Done(b)
    /\ UNCHANGED <<account, users, opened, cookie, faults>>

\* deleteSession(): one of the user's own, which the page has listed.
RunRevoke(b) ==
    /\ job[b].at = "run" /\ job[b].op = "revoke"
    /\ \E i \in Tokens : sessions' = {s \in sessions : s.id # i \/ s.user # job[b].user}
    /\ Done(b)
    /\ UNCHANGED <<account, users, opened, cookie, faults>>

\* Mutant: the sessions of the deleted user stay.
RemoveUserOnly(u) ==
    /\ account' = [account EXCEPT ![EmailOf(u)] = NoAccount]
    /\ UNCHANGED sessions

\* The user's row is deleted, and its sessions with it.
RemoveUser(u) ==
    /\ account' = [account EXCEPT ![EmailOf(u)] = NoAccount]
    /\ sessions' = {s \in sessions : s.user # u}

\* deleteAccount(), after which the page signs out, if it gets the answer.
RunDelete(b) ==
    /\ job[b].at = "run" /\ job[b].op = "delete"
    /\ \/ /\ Exists(job[b].user)
          /\ RemoveUser(job[b].user)
          /\ \/ cookie' = [cookie EXCEPT ![b] = NoCookie] /\ UNCHANGED faults
             \/ Fault /\ UNCHANGED cookie
       \/ /\ ~Exists(job[b].user)
          /\ UNCHANGED <<account, sessions, cookie, faults>>
    /\ Done(b)
    /\ UNCHANGED <<users, opened>>

\* The profile, the list of sessions, a changed profile: nothing that matters here.
RunQuery(b) ==
    /\ job[b].at = "run" /\ job[b].op = "query"
    /\ Done(b)
    /\ UNCHANGED <<account, users, sessions, opened, cookie, faults>>

-----------------------------------------------------------------------------
\* A query fails, the API restarts, or the answer does not arrive.  A change of password
\* that ends between its two writes leaves the other sessions where they are.
Fails(b) ==
    /\ ~Idle(b) /\ Fault
    /\ sessions' = IF job[b].at = "others"
                   THEN {IF s.user = job[b].user THEN [s EXCEPT !.spared = TRUE] ELSE s :
                           s \in sessions}
                   ELSE sessions
    /\ cookie' = CookieAfterFailure(b)
    /\ Done(b)
    /\ UNCHANGED <<account, users, opened>>

\* The session or the user has no number left (bound): the request is refused.
Bounded(b) ==
    /\ \/ job[b].at = "session" /\ opened = MaxSessions
       \/ job[b].at = "create" /\ users = MaxUsers
    /\ Done(b)
    /\ UNCHANGED <<account, users, sessions, opened, cookie, faults>>

SignInStep(b) ==
    Find(b) \/ Create(b) \/ CreateRefused(b) \/ OpenSession(b) \/ UserGone(b) \/ Answer(b)

HandlerStep(b) ==
    \/ Guard(b) \/ GuardRefuses(b) \/ Verify(b) \/ UpdatePassword(b) \/ UpdateRefused(b)
    \/ DeleteOthers(b) \/ RunRevoke(b) \/ RunDelete(b) \/ RunQuery(b)

UserStep(b) ==
    \/ SubmitRegister(b) \/ SubmitLogin(b) \/ OAuthSignIn(b) \/ SignOut(b)
    \/ LoadPage(b) \/ ChangePassword(b) \/ RevokeSession(b) \/ DeleteAccount(b)

NextAccounts == \E b \in Browsers :
    SignInStep(b) \/ HandlerStep(b) \/ UserStep(b) \/ Heal(b) \/ Fails(b) \/ Bounded(b)

SpecAccounts == InitAccounts /\ [][NextAccounts]_accountsVars

\* Requests come to their end, and whoever is signed in keeps opening pages.
Fairness == \A b \in Browsers :
    /\ WF_accountsVars(SignInStep(b) \/ HandlerStep(b) \/ Bounded(b))
    /\ WF_accountsVars(Heal(b))

FairSpec == SpecAccounts /\ Fairness

-----------------------------------------------------------------------------
(* Properties                                                                *)

UsersTyped ==
    /\ account \in [Emails -> Account]
    /\ users \in 0 .. MaxUsers
    /\ \A e \in Emails : account[e].id <= users
    /\ \A e, f \in Emails : account[e].id = account[f].id => e = f \/ account[e].id = 0

SessionsTyped ==
    /\ sessions \subseteq SessionRow
    /\ opened \in 0 .. MaxSessions
    /\ \A s \in sessions : s.id <= opened /\ Exists(s.user)
    /\ \A s, t \in sessions : s.id = t.id => s = t

RequestsTyped ==
    /\ cookie \in [Browsers -> Cookie]
    /\ job \in [Browsers -> Job]
    /\ faults \in 0 .. MaxFaults

\* Every variable has its type; ids are given once, and a session belongs to a user.
TypeOK == UsersTyped /\ SessionsTyped /\ RequestsTyped

\* "Revoke every other session so a leaked old session can't survive a password change"
\* (users.service.ts): once no change is between its two writes, a session whose login
\* read an older password is the one that changed it, was inserted by a login that had
\* verified the old password before the change and came after the deletion, or has
\* outlived a change that failed between its writes.
Revoked ==
    \A s \in sessions :
        s.seen = Pw(s.user) \/ s.kept \/ s.spared \/ Changing(s.user)

\* A browser that has signed in at a provider and got no token from the API gets one,
\* or signs out: nobody is stranded (lib/auth.ts), as long as users and sessions can
\* be created.
Heals == \A b \in Browsers :
    cookie[b].via = "oauth" /\ cookie[b].token = 0
        ~> cookie[b].token # 0 \/ cookie[b].via # "oauth"
           \/ opened = MaxSessions \/ users = MaxUsers
=============================================================================
