------------------------------ MODULE MCContexts ------------------------------
(***************************************************************************)
(* Small instances of Contexts for TLC.                                    *)
(***************************************************************************)
EXTENDS Contexts, TLC

CONSTANTS th1, th2, o1, o2

TwoThreads == {th1, th2}
TwoContexts == {o1, o2}
NoContexts == {}

\* Those that lock, balanced or not, and those that are balanced without a lock:
\* what neither locks nor is balanced drives the counter without bound.
SomeClients == {[locks |-> TRUE, balanced |-> FALSE], [locks |-> FALSE, balanced |-> TRUE]}
BalancedClient == {[locks |-> FALSE, balanced |-> TRUE]}

Symmetry == Permutations(Threads) \cup Permutations(ContextObjects)
===============================================================================
