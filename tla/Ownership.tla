------------------------------ MODULE Ownership ------------------------------
(***************************************************************************)
(* What a pointer field in a Java object promises, whatever it points to:  *)
(* a structure libusb made is owned by the one object that names it, from  *)
(* the call that made it to the call that frees it, and changes hands only *)
(* by being freed.  No step loses one by storing another over it, frees one*)
(* and keeps its pointer, or lets two objects name the same.               *)
(***************************************************************************)
CONSTANTS Objects, Resources, NULL

VARIABLES
    pointer,    \* the resource each object owns, or NULL
    live        \* the resources libusb has allocated

Init ==
    /\ pointer = [o \in Objects |-> NULL]
    /\ live = {}

Acquire(o, r) ==
    /\ pointer[o] = NULL
    /\ r \notin live
    /\ pointer' = [pointer EXCEPT ![o] = r]
    /\ live' = live \cup {r}

Release(o) ==
    /\ pointer[o] # NULL
    /\ pointer' = [pointer EXCEPT ![o] = NULL]
    /\ live' = live \ {pointer[o]}

Next == \E o \in Objects : Release(o) \/ \E r \in Resources : Acquire(o, r)

Spec == Init /\ [][Next]_<<pointer, live>>
==============================================================================
