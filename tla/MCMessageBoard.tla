--------------------------- MODULE MCMessageBoard ---------------------------
(* Instances of MessageBoard for TLC. *)
EXTENDS MessageBoard

CONSTANTS page1, page2, hook

TwoPages == {page1, page2}
OneHook  == {hook}
=============================================================================
