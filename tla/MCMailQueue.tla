---------------------------- MODULE MCMailQueue ----------------------------
(***************************************************************************)
(* Instances of MailQueue for TLC.                                         *)
(***************************************************************************)
EXTENDS MailQueue

CONSTANTS w1, w2
=============================================================================
