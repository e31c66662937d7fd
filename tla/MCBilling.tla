----------------------------- MODULE MCBilling -----------------------------
(***************************************************************************)
(* Instances of Billing for TLC.                                           *)
(***************************************************************************)
EXTENDS Billing, TLC

CONSTANTS u1, s1, s2

OneOwner == [s \in Subs |-> u1]
=============================================================================
