----------------------------- MODULE Processes -----------------------------
(***************************************************************************)
(* The worker processes of the backend (Dockerfile:85), each with its own  *)
(* scheduler, and NULL.  NightlyJob and MailQueue share them: the first    *)
(* job fills the e-mail queue, the second drains it.                       *)
(***************************************************************************)

CONSTANTS Workers, None
=============================================================================
