---------------------------- MODULE MCAccounts ----------------------------
(***************************************************************************)
(* Instances of Accounts for TLC.                                          *)
(***************************************************************************)
EXTENDS Accounts, TLC

CONSTANTS i1, i2, i3, r1, r2

\* The same login with and without the machine, and another login on it.
SomeProfiles ==
    {[login |-> "g1", email |-> None, machine |-> "m1"],
     [login |-> "g2", email |-> None, machine |-> "m1"]}
Symmetric == Permutations({i1, i2}) \cup Permutations({r1, r2})
=============================================================================
