------------------------------ MODULE MCLeafBody ------------------------------
(* Statements over two locals. *)
EXTENDS LeafBody

MCLocals == {"a", "b"}

Alloc(x, size, form, typ, shared) == [op |-> "alloc", x |-> x, size |-> size, form |-> form, typ |-> typ, shared |-> shared]

Store(y, e, size, off) == [op |-> "store", y |-> y, e |-> e, size |-> size, off |-> off]

MCStatements ==
    {Alloc("a", 8, "lit", "Int", FALSE), Alloc("a", 0, "lit", "Float", FALSE), Alloc("a", 72, "fold", "Int", FALSE),
     Alloc("b", 4, "lit", "Int", FALSE), Alloc("a", 8, "lit", "Int", TRUE)}
      \cup {[op |-> "assign", x |-> "b", e |-> e] : e \in {<<"int">>, <<"float">>, <<"var", "a">>}}
      \cup {[op |-> "arith", x |-> "b", y |-> "b"]}
      \cup {[op |-> "load", x |-> "b", y |-> "a", size |-> 8, off |-> NoOffset],
            [op |-> "load", x |-> "b", y |-> In, size |-> 4, off |-> <<"var", "b">>]}
      \cup {Store("a", <<"int">>, 8, o) : o \in {NoOffset, <<"lit", 64>>, <<"fold", 4>>, <<"var", "b">>}}
      \cup {Store("a", <<"var", "b">>, 4, <<"lit", 4>>), Store(Out, <<"int">>, 4, NoOffset),
            Store("b", <<"int">>, 4, NoOffset)}
      \cup {[op |-> "set", x |-> Out, e |-> e] : e \in {<<"var", "a">>, <<"load", "a">>}}
      \cup {[op |-> "set", x |-> "b", e |-> <<"int">>]}
      \cup {[op |-> "atomic", x |-> "b", y |-> "a", kind |-> k, size |-> 4] : k \in {"load", "store", "add"}}
      \cup {[op |-> "spawn", x |-> "b", y |-> "a"], [op |-> "wait", x |-> "b", y |-> "b"], [op |-> "waitall", y |-> "b"]}
      \cup {[op |-> "scope"], [op |-> "end"]}
      \cup {[op |-> "free", y |-> y] : y \in {"a", "b", In}}
=============================================================================
