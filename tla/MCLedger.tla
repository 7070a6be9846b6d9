-------------------------------- MODULE MCLedger --------------------------------
(***************************************************************************)
(* Two requests, of either kind, that may be made again and again.         *)
(***************************************************************************)
EXTENDS Ledger

CONSTANTS r1, r2

TwoRequests == {r1, r2}
=============================================================================
