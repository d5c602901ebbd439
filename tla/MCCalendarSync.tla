--------------------------- MODULE MCCalendarSync ---------------------------
(* Instances of CalendarSync for TLC. *)
EXTENDS CalendarSync

CONSTANTS standup, review, auto, manual, query

TwoIds == {standup, review}
\* Each event on a page of its own.
TwoPages == [x \in TwoIds |-> IF x = standup THEN 1 ELSE 2]
TwoSyncs == {auto, manual}
OneQuery == {query}
=============================================================================
