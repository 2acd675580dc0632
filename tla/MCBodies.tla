------------------------------ MODULE MCBodies ------------------------------
(* What is checked of one body, and what its code does: the statements of  *)
(* a leaf, its paths, the memory of its SCOPEs, and the calls of a         *)
(* composition.  The parts share no state, so a run is about one of them.  *)
EXTENDS MCLeafBody, MCOwnership, MCScopeMemory, MCComposition

VARIABLE part

bodiesVars == <<part, leafVars, ownershipVars, scopeVars, compositionVars>>

(* The parts a run is not about stay in one initial state. *)
BodiesInit ==
    /\ part \in {"leaf", "paths", "scopes", "composition"}
    /\ LeafInit /\ OwnershipInit /\ ScopeInit /\ CompositionInit
    /\ part # "leaf" => reassigned = {} /\ hist.loose = {}
    /\ part # "paths" => prog = <<>>

BodiesNext ==
    /\ UNCHANGED part
    /\ \/ part = "leaf" /\ LeafNext /\ UNCHANGED <<ownershipVars, scopeVars, compositionVars>>
       \/ part = "paths" /\ OwnershipNext /\ UNCHANGED <<leafVars, scopeVars, compositionVars>>
       \/ part = "scopes" /\ ScopeNext /\ UNCHANGED <<leafVars, ownershipVars, compositionVars>>
       \/ part = "composition" /\ CompositionNext /\ UNCHANGED <<leafVars, ownershipVars, scopeVars>>

BodiesSpec == BodiesInit /\ [][BodiesNext]_bodiesVars
=============================================================================
