---------------------------- MODULE MCNightlyJob ----------------------------
(***************************************************************************)
(* Instances of NightlyJob for TLC.                                        *)
(***************************************************************************)
EXTENDS NightlyJob, TLC

CONSTANTS u1, u2, w1, w2

\* u1 signs up with a fresh trial, u2 carries over a trial that is used up.
FreshAndUsedUp == u1 :> 0 @@ u2 :> TrialDays
BothFresh == [u \in Users |-> 0]
WorkerSymmetry == Permutations(Workers)
AllSymmetry == Permutations(Workers) \cup Permutations(Users)
=============================================================================
