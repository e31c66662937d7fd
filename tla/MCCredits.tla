----------------------------- MODULE MCCredits -----------------------------
(***************************************************************************)
(* Instances of Credits for TLC.                                           *)
(***************************************************************************)
EXTENDS Credits, TLC

CONSTANTS r1, r2, r3

\* PLAN_CREDITS in units of a hundredth of the pro allowance and less.
SmallCredits == [p \in {"free", "pro", "enterprise"} |->
                    CASE p = "free" -> 0 [] p = "pro" -> 3 [] OTHER -> 5]
Symmetric == Permutations({r1, r2, r3})
=============================================================================
