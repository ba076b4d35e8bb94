------------------------ MODULE MCTransfersRefinement ------------------------
(***************************************************************************)
(* Small instances of TransfersRefinement for TLC.                         *)
(***************************************************************************)
EXTENDS TransfersRefinement

CONSTANTS t1, t2, app1, loop, l1, l2

TwoTransfers == {t1, t2}
OneThread == {app1}
TwoListeners == {l1, l2}
==============================================================================
