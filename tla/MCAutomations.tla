--------------------------- MODULE MCAutomations ---------------------------
(***************************************************************************)
(* Instances of Automations for TLC: one owner, who may have everything    *)
(* switched on from before, and a prompt that needs two connectors.        *)
(***************************************************************************)
EXTENDS Automations, TLC

CONSTANTS a1, ann, w1, w2

WorkerSymmetry == Permutations(Workers)

OneOwner == [a \in {a1} |-> ann]
AllOrNone == {{}, Users \X Providers}
OnePrompt == {[words |-> {"repo", "issue"}, repo |-> TRUE, extra |-> {"slack"}]}
=============================================================================
