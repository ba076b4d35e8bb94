------------------------------ MODULE MCDevices ------------------------------
(***************************************************************************)
(* Small instances of Devices for TLC: a hub with one device in it.        *)
(***************************************************************************)
EXTENDS Devices, TLC

CONSTANTS hub, stick, w1, w2, w3, lo1, lo2, ho1, la, lb, ha, hb

TwoDevices == {hub, stick}
StickInHub == hub :> NULL @@ stick :> hub
ThreeObjects == {w1, w2, w3}
TwoListObjects == {lo1, lo2}
OneHandleObject == {ho1}
TwoLists == {la, lb}
TwoHandles == {ha, hb}

Symmetry == Permutations(DeviceObjects) \cup Permutations(ListObjects)
              \cup Permutations(HandleObjects) \cup Permutations(Lists)
              \cup Permutations(Handles)
==============================================================================
