--------------------------- MODULE MCComposition ---------------------------
(* One behavior with two outputs and no input, one with an input and no    *)
(* output.                                                                 *)
EXTENDS Composition, TLC

MCOutputs == [b \in {"f", "g"} |-> IF b = "f" THEN <<"a", "b">> ELSE <<>>]
Symmetric == Permutations(BodyLocals)
MCInputs == [b \in {"f", "g"} |-> IF b = "f" THEN 0 ELSE 1]
=============================================================================
