-------------------------- MODULE MCTransferFields --------------------------
(***************************************************************************)
(* A small instance of TransferFields for TLC.                             *)
(***************************************************************************)
EXTENDS TransferFields, TLC

CONSTANTS t1, l1, b1, b2, heap

OneTransfer == {t1}
OneListener == {l1}
ThreeBuffers == {b1, b2, heap}
OneHeapBuffer == {heap}
==============================================================================
