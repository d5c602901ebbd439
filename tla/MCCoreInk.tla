----------------------------- MODULE MCCoreInk -----------------------------
(* Instances of CoreInk for TLC. *)
EXTENDS CoreInk

CONSTANT mBusy

SomeMessages == {FREE, mBusy, Empty}
=============================================================================
