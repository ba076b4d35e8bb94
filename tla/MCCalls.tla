------------------------------- MODULE MCCalls -------------------------------
(***************************************************************************)
(* A small instance of Calls for TLC: narrow types in place of 8 to 64     *)
(* bits, a long of four bytes as on Windows, and a buffer that a length of *)
(* uint16_t cuts short.                                                    *)
(***************************************************************************)
EXTENDS Calls, TLC

CONSTANTS large, small, heap

ThreeBuffers == {large, small, heap}
CapacityOfBuffer == large :> 7 @@ small :> 3 @@ heap :> 5
OneHeapBuffer == {heap}
NarrowTypes == 1 :> 1 @@ 2 :> 2 @@ 4 :> 8 @@ 8 :> 16
ZeroAndOne == {0, 1}
==============================================================================
