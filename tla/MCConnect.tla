----------------------------- MODULE MCConnect -----------------------------
(* Instances of Connect for TLC. *)
EXTENDS Connect

CONSTANTS alice, bob, work, home

TwoUsers      == {alice, bob}
OneUser       == {alice}
TwoIdentities == {work, home}
SlackAndZoom  == {"slack", "zoom"}
=============================================================================
