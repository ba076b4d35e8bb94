----------------------------- MODULE MCTransfers -----------------------------
(***************************************************************************)
(* The instance of Transfers that the two violations need.                 *)
(***************************************************************************)
EXTENDS Transfers

CONSTANTS t1, app1, loop, l1

OneTransfer == {t1}
OneThread == {app1}
OneListener == {l1}
==============================================================================
