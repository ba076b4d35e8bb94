----------------------------- MODULE MCCallbacks -----------------------------
(***************************************************************************)
(* Small instances of Callbacks for TLC.                                   *)
(***************************************************************************)
EXTENDS Callbacks, TLC

CONSTANTS main, loop, o1, o2, r1, r2

OneJavaThread == {main}
OneNativeThread == {loop}
NoThreads == {}
OneObject == {o1}
TwoObjects == {o1, o2}
TwoRegistrations == {r1, r2}

Symmetry == Permutations(JavaThreads) \cup Permutations(HandleObjects)
              \cup Permutations(Registrations)
==============================================================================
