------------------------------ MODULE Presence ------------------------------
(***************************************************************************)
(* What an account's provider says of a call, as GET                       *)
(* /integrations/:id/presence and the live status read it: getPresence()   *)
(* of the five services that have one.  An answer of the provider is a     *)
(* reply; a refused one has ok = FALSE.                                    *)
(***************************************************************************)

Unknown == "unknown"   \* the request fails, or its answer says nothing of calls
InCall  == "call"
NoCall  == "free"

Says(inCall) == IF inCall THEN InCall ELSE NoCall

\* Slack: the status's emoji is one of four, or its text speaks of a call.  A refused
\* profile is read as no call.
SlackEmojis == {":headphones:", ":slack_call:", ":phone:", ":calling:"}
SlackReplies ==
    [ok : BOOLEAN, emoji : SlackEmojis \cup {":palm_tree:", ""}, mentionsCall : BOOLEAN]
SlackPresence(r) == Says(r.ok /\ (r.emoji \in SlackEmojis \/ r.mentionsCall))

\* Teams: the activity; a refusal throws.
TeamsCalls   == {"InACall", "InAMeeting", "InAConferenceCall", "UrgentInterruptionsOnly"}
TeamsReplies == [ok : BOOLEAN, activity : TeamsCalls \cup {"Available", "Presenting"}]
TeamsPresence(r) == IF r.ok THEN Says(r.activity \in TeamsCalls) ELSE Unknown

\* Zoom and Webex: the status; a refusal is read as no call.
ZoomCalls   == {"In_Meeting", "Presenting", "On_Phone"}
ZoomReplies == [ok : BOOLEAN, status : ZoomCalls \cup {"Available"}]
ZoomPresence(r) == Says(r.ok /\ r.status \in ZoomCalls)

WebexCalls   == {"meeting", "call", "presenting", "sharing"}
WebexReplies == [ok : BOOLEAN, status : WebexCalls \cup {"active"}]
WebexPresence(r) == Says(r.ok /\ r.status \in WebexCalls)

\* Microsoft: its answer has no inCall; a refusal throws.
MicrosoftReplies == [ok : BOOLEAN, availability : {"Busy", "InACall", "Available"}]
MicrosoftPresence(r) == Unknown

\* What an account of each provider may say.
Answers(provider) ==
    CASE provider = "slack"     -> {SlackPresence(r) : r \in SlackReplies}
      [] provider = "teams"     -> {TeamsPresence(r) : r \in TeamsReplies}
      [] provider = "zoom"      -> {ZoomPresence(r) : r \in ZoomReplies}
      [] provider = "webex"     -> {WebexPresence(r) : r \in WebexReplies}
      [] provider = "microsoft" -> {MicrosoftPresence(r) : r \in MicrosoftReplies}
      [] provider = "google"    -> {Unknown}
=============================================================================
