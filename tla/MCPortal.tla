------------------------------ MODULE MCPortal ------------------------------
(* Instances of Portal for TLC. *)
EXTENDS Portal

CONSTANTS mine, here

OneAccount  == {mine}
AllProviders == {"slack", "teams", "zoom", "webex", "microsoft", "google"}
OneAddress  == {here}

\* Weeks of three days and months of four, so that the second week crosses the end of the
\* first month.  Two events are on the last day of the first week.
FewEvents ==
    {[at |-> 4, provider |-> "zoom"],  [at |-> 5, provider |-> "google"],
     [at |-> 7, provider |-> "slack"]}
=============================================================================
