------------------------------ MODULE MCMedia ------------------------------
(***************************************************************************)
(* Instances of Media for TLC.                                             *)
(***************************************************************************)
EXTENDS Media, TLC

CONSTANTS r1, r2

TwoKinds == [image |-> <<"openai", "replicate">>, video |-> <<"fal">>]
SomeKeys == {{"fal", "openai", "replicate"}, {"replicate"}}
\* A path in another directory that ends in the name generated for r1.
SameBase == [p \in {"b/1.png"} |-> r1]
=============================================================================
