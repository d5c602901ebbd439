------------------------------- MODULE Shell -------------------------------
(***************************************************************************)
(* The frame of the dashboard: which page is mounted, and what useSession  *)
(* says.  A page has a token once the session has arrived, if the session  *)
(* has one; lib/auth.ts looks for one again at every refetch (Accounts).   *)
(***************************************************************************)

VARIABLES
    page,     \* the page mounted, or "none": another page, or another site
    session   \* "loading", "broken" (without a token) or "ready"

shellVars == <<page, session>>

Pages == {"calendar", "integrations", "status", "device"}

Token == session = "ready"

InitShell == page = "none" /\ session = "loading"

\* The side bar, or the address bar of the browser.
Open(p) == page = "none" /\ page' = p /\ UNCHANGED session

Close == page # "none" /\ page' = "none" /\ UNCHANGED session

\* The session arrives without a token.
SessionBroken ==
    /\ session = "loading" /\ session' = "broken"
    /\ UNCHANGED page

\* The session arrives with a token, or a refetch of it has found one.
SessionReady ==
    /\ session \in {"loading", "broken"} /\ session' = "ready"
    /\ UNCHANGED page
=============================================================================
