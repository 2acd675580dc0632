--------------------------- MODULE MCScopeMemory ---------------------------
(* Scopes up to three deep, so that an orphan can itself have an open      *)
(* child, a fourth struct for a SCOPE entered after a JUMP, and two blocks *)
(* so that addresses are recycled.                                         *)
EXTENDS ScopeMemory, TLC

Symmetry == Permutations(Scopes) \cup Permutations(Blocks)
=============================================================================
