---------------------------- MODULE MCOwnership ----------------------------
(* Bodies are made from shapes of control flow: every slot of a shape is   *)
(* filled with every operation, or left empty.                             *)
EXTENDS Ownership

CONSTANTS buf1, l1, l2, l3, l4

Slot == {<<>>, <<<<"alloc", buf1>>>>, <<<<"free", buf1>>>>, <<<<"store", buf1>>>>,
         <<<<"load", buf1>>>>, <<<<"set">>>>}

L(l) == {<<<<"label", l>>>>}
J(l) == {<<<<"jump", l>>>>}
B(l, m) == {<<<<"branch", l, m>>>>}
Open == {<<<<"scope">>>>}
End == {<<<<"end">>>>}

Shapes == {
    <<Slot, Slot, Slot, Slot, Slot>>,
    \* both arms of a branch, and what follows
    <<Slot, Slot, B(l1, l2), L(l1), Slot, J(l3), L(l2), Slot, L(l3), Slot>>,
    \* a branch around some nodes, twice
    <<Slot, B(l1, l2), L(l1), Slot, L(l2), Slot, B(l3, l4), L(l3), Slot, L(l4), Slot>>,
    \* loops tested at their end and at their start
    <<Slot, L(l1), Slot, Slot, B(l1, l2), L(l2), Slot>>,
    <<Slot, L(l1), B(l2, l3), L(l2), Slot, Slot, J(l1), L(l3), Slot>>,
    \* a loop with no way out, and a label that is not declared
    <<Slot, B(l1, l2), L(l1), Slot, J(l1), L(l2), Slot>>,
    <<Slot, J(l3), L(l1), Slot>>,
    \* scopes: alone, nested, with a branch inside, left by a jump, in a loop
    <<Slot, Open, Slot, Slot, Slot, End, Slot>>,
    <<Open, Slot, Open, Slot, Slot, End, Slot, End, Slot>>,
    <<Open, Slot, B(l1, l2), L(l1), Slot, L(l2), Slot, End, Slot>>,
    <<Slot, Open, Slot, B(l1, l2), L(l1), Slot, End, Slot, L(l2), Slot>>,
    <<L(l1), Open, Slot, Slot, Slot, End, B(l1, l2), L(l2), Slot>> }

(* Can node n follow p: is its name bound, and bound only once? *)
Continues(p, n) ==
    \A i \in DOMAIN n :
        LET bound == Len(n[i]) = 2 /\ \E j \in DOMAIN p : p[j] = <<"alloc", n[i][2]>>
        IN  CASE n[i][1] \in {"free", "store", "load"} -> bound
              [] n[i][1] = "alloc" -> ~bound
              [] OTHER -> TRUE

(* The ways to choose one element of each set of the sequence. *)
Fillings(shape) ==
    LET fill[i \in 0 .. Len(shape)] ==
            IF i = 0 THEN {<<>>}
            ELSE UNION {{p \o n : n \in {m \in shape[i] : Continues(p, m)}} : p \in fill[i - 1]}
    IN  fill[Len(shape)]

MCPrograms == UNION {Fillings(shape) : shape \in Shapes}
=============================================================================
