---------------------------- MODULE MCWebhookTx ----------------------------
(***************************************************************************)
(* Instances of WebhookTx for TLC.                                         *)
(***************************************************************************)
EXTENDS WebhookTx, TLC

CONSTANTS u1, s1, s2, w1, w2

OneOwner == [s \in Subs |-> u1]
SlotSymmetry == Permutations(Slots)
=============================================================================
