----------------------------- MODULE MCBleLink -----------------------------
(* Instances of BleLink for TLC. *)
EXTENDS BleLink

CONSTANTS pFree, pBusy

TwoPayloads == {pFree, pBusy}
=============================================================================
