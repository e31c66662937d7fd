--------------------------- MODULE MCDeviceLogin ---------------------------
(***************************************************************************)
(* Instances of DeviceLogin for TLC.                                       *)
(***************************************************************************)
EXTENDS DeviceLogin, TLC

CONSTANTS d1, u1, u2, w1, w2

Symmetry == Permutations(Users) \cup Permutations(Slots)
=============================================================================
