----------------------------- MODULE MCFrontEnd -----------------------------
(* Hashes of two digits: every split into leading zeros, decimal digits    *)
(* and a rest that starts with a letter.                                   *)
EXTENDS FrontEnd

MCPin(z, d, l) == <<[zeros |-> z, digits |-> d, letters |-> l]>>
MCRef(n, p) == [name |-> n, pin |-> p]

MCRefLines ==
    {<<MCRef("sort", p)>> : p \in {MCPin(2, 0, 0), MCPin(1, 1, 0), MCPin(0, 1, 1), MCPin(1, 0, 1)}}
      \cup {<<MCRef("sort", p), MCRef("add", q)>> : p \in {MCPin(1, 1, 0), MCPin(0, 0, 2)}, q \in {<<>>, MCPin(0, 2, 0)}}
=============================================================================
