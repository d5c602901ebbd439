--------------------------- MODULE MCOrchestrator ---------------------------
(* Instances of Orchestrator for TLC. *)
EXTENDS Orchestrator

CONSTANTS permanent, brief

OneLasting == {permanent}
OnePassing == {brief}

OneMeeting == {[start |-> 1, end |-> 3]}
=============================================================================
