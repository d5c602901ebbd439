----------------------------- MODULE MCPairing -----------------------------
(* Instances of Pairing for TLC. *)
EXTENDS Pairing

CONSTANTS laptop, desktop, alice, bob

TwoAgents == {laptop, desktop}
OneUser   == {alice}
TwoUsers  == {alice, bob}
=============================================================================
