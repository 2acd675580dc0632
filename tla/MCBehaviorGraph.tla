-------------------------- MODULE MCBehaviorGraph --------------------------
(* Contracts of a small project: a source, a sink that pins the source,    *)
(* pure and impure behaviors that require each other, and a pass-through   *)
(* behavior that is its own possible dependency.                           *)
EXTENDS BehaviorGraph

P(n, d) == [name |-> n, dir |-> d, type |-> "int", size |-> 8, discarded |-> FALSE]
R(n, h) == [name |-> n, pin |-> h]

MCNames == {"a", "b", "c"}
MCHashes == {"out", "in", "pure", "loop"}
MCContract ==
    [h \in MCHashes |->
       CASE h = "out"  -> [ports |-> <<P("x", "Out")>>, requires |-> <<>>, pure |-> FALSE]
         [] h = "in"   -> [ports |-> <<P("x", "In"), [P("e", "Error") EXCEPT !.discarded = TRUE]>>,
                           requires |-> <<R("a", "out")>>, pure |-> FALSE]
         [] h = "pure" -> [ports |-> <<>>,
                           requires |-> <<R("b", ""), R("a", "pure")>>, pure |-> TRUE]
         [] h = "loop" -> [ports |-> <<P("x", "Out")>>,
                           requires |-> <<R("c", ""), R("b", ""), R("c", "loop")>>, pure |-> TRUE]]

B(n, h, calls) == [name |-> n, hash |-> h, calls |-> calls]

MCBehaviors ==
    {B("a", "out", <<>>), B("a", "pure", <<>>), B("a", "loop", <<"b", "c">>),
     B("b", "in", <<>>), B("b", "pure", <<>>), B("b", "out", <<"c", "a">>),
     B("c", "loop", <<>>), B("c", "in", <<>>), B("c", "out", <<"b">>)}

MCExports == {<<"a", "pure", "pure">>, <<"a", "out", "">>, <<"c", "in", "in">>}
=============================================================================
