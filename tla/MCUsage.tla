------------------------------ MODULE MCUsage ------------------------------
(***************************************************************************)
(* Instances of Usage for TLC: a list with a context length and one without,*)
(* answers with and without usage, reports that fill a window or none.     *)
(***************************************************************************)
EXTENDS Usage, TLC

CONSTANT s1

SmallOffers == {"m1" :> 2, "m1" :> Garbled}
SmallAnswers == {[prompt |-> 1, completion |-> 1], [prompt |-> 2, completion |-> 0],
                 [prompt |-> 0, completion |-> 0]}
SmallReports == {[used |-> 199, size |-> 200, tokens |-> 1], [used |-> 1, size |-> 0, tokens |-> 1]}
=============================================================================
