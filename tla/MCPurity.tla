----------------------------- MODULE MCPurity -----------------------------
(* The contracts of a project with one pure local behavior, a pure library *)
(* behavior it requires, and an impure one that this one requires.         *)
EXTENDS BehaviorGraph

MCNames == {"a", "b", "c"}
MCHashes == {"top", "wrap", "impure"}

R(n, h) == <<[name |-> n, pin |-> h]>>

MCContract ==
    [h \in MCHashes |->
       CASE h = "top"    -> [ports |-> <<>>, requires |-> R("b", "wrap"), pure |-> TRUE]
         [] h = "wrap"   -> [ports |-> <<>>, requires |-> R("c", "impure"), pure |-> TRUE]
         [] h = "impure" -> [ports |-> <<>>, requires |-> <<>>, pure |-> FALSE]]

MCBehaviors == {[name |-> "a", hash |-> "top", calls |-> <<"b">>]}

MCExports == {<<"b", "wrap", "wrap">>, <<"c", "impure", "impure">>}
=============================================================================
