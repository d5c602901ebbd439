----------------------------- MODULE MCAccounts -----------------------------
(* Instances of Accounts for TLC. *)
EXTENDS Accounts

CONSTANTS home, office, eve

TwoBrowsers == {home, office}
OneEmail    == {eve}
=============================================================================
