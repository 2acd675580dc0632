------------------------------ MODULE MCSyntax ------------------------------
(* Every statement form, with operands nested up to two deep, and pairs of *)
(* statements on one line.                                                 *)
EXTENDS Syntax

Leaves == {Word("8"), Word("x"), FieldOf("x", "y")}
Open == Leaves \cup {Node("LOAD", <<Word("x"), Word("8")>>, {"o"}), Node("CALL", <<Word("x")>>, {"a"})}

(* Expressions over operands E. *)
Exprs(E) ==
    {Node("IADD", <<a, b, Word("8")>>, {}) : a \in E, b \in E}
      \cup {Node("NOT", <<a, Word("8")>>, {}) : a \in E}
      \cup {Node("LOAD", <<a, Word("8")>>, {"o"}) : a \in E}
      \cup {Node("LOAD", <<a, Word("8"), Offset(b)>>, {}) : a \in E, b \in E}
      \cup {Node("ALLOC", <<a, Word("bytes")>>, {"s"}) : a \in E}
      \cup {Node("ALLOC", <<a, Word("bytes"), Word("SHARED")>>, {}) : a \in E}
      \cup {Node("CAS", <<a, b, Word("x"), Word("8")>>, {}) : a \in E, b \in E}
      \cup {Node("FTOI", <<a, Word("8"), Word("8")>>, {}) : a \in E}
      \cup {Node("CHANNEL", <<Word("int"), a>>, {}) : a \in E}
      \cup {Node(op, <<Word("x")>>, {}) : op \in {"CHANNEL_RECEIVE", "WAIT"}}
      \cup {Node("CALL", <<Word("x")>> \o s, {"a"}) : s \in {<<>>} \cup {<<a>> : a \in E} \cup {<<a, b>> : a \in E, b \in E}}
      \cup {Node("SPAWN", <<Word("x")>> \o s, {"A"}) : s \in {<<>>} \cup {<<a>> : a \in E} \cup {<<a, b>> : a \in E, b \in E}}

Deep == Leaves \cup Exprs(Open)

(* Statements over operands E; offsets are simple. *)
Nodes(E) ==
    {Node("BRANCH", <<a, Word("x"), Word("y")>>, {}) : a \in E}
      \cup {Node(op, <<Word("x")>>, {}) : op \in {"LABEL", "JUMP", "FREE", "CHANNEL_CLOSE"}}
      \cup {Node(op, <<Word("x"), a>>, {}) : op \in {"SET", "CHANNEL_SEND"}, a \in E}
      \cup {Node("DISCARD", <<Word("x")>>, {"f"}), Node("DISCARD", <<FieldOf("x", "y")>>, {})}
      \cup {Node("STORE", <<Word("x"), a, Word("8")>>, {"o"}) : a \in E}
      \cup {Node("STORE", <<Word("x"), a, Word("8"), Offset(b)>>, {}) : a \in E, b \in Open}
      \cup {Node("WAIT_ALL", <<Word("x")>> \o s, {"h"}) : s \in {<<>>, <<Word("y")>>}}
      \cup {Node("CALL", <<Word("x"), a>>, {"a", ">"}) : a \in E}
      \cup {Node("CALL", <<Word("x"), a, Word("->"), Word("y")>>, {"l"}) : a \in E}
      \cup {Node("CALL", <<Word("x"), Word("->"), Word("y"), Word(","), Word("x")>>, {"l"})}
      \cup {Assignment(<<"x">>, a) : a \in E}
      \cup {Assignment(<<"x", "y">>, Node("WAIT_ANY", s, {"h"})) : s \in {<<>>, <<Word("x")>>}}
      \cup {Assignment(t, Node("WAIT_ALL", <<Word("x")>>, {"h"})) : t \in {<<"x">>, <<"x", "y">>, <<"x", "y", "x">>}}
      \cup {Assignment(<<"x", "y", "x">>, [Node("WAIT_ANY", <<Word("x")>>, {"h"}) EXCEPT !.clean = FALSE])}

MCStatements == Nodes(Deep) \cup {OnOneLine(s, t) : s \in Nodes(Open), t \in Nodes(Leaves)}
=============================================================================
