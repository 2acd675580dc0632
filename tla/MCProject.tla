----------------------------- MODULE MCProject -----------------------------
(* A project from its texts to the executable: the lines of a file, the    *)
(* statements on one line, the graph of the behaviors, and the builds.     *)
(* The parts share no state, so a run is about one of them.                *)
EXTENDS MCFrontEnd, MCSyntax, MCBehaviorGraph, MCBuild

VARIABLE part

projectVars == <<part, frontVars, syntaxVars, graphVars, vars>>

(* The parts a run is not about stay in one initial state. *)
ProjectInit ==
    /\ part \in {"file", "line", "graph", "build"}
    /\ FrontInit /\ SyntaxInit /\ GraphInit /\ Init
    /\ part # "file" => author = <<"behavior">> /\ ~nested
    /\ part # "line" => stmt = Node("FREE", <<Word("x")>>, {})

ProjectNext ==
    /\ UNCHANGED part
    /\ \/ part = "file" /\ FrontNext /\ UNCHANGED <<syntaxVars, graphVars, vars>>
       \/ part = "line" /\ SyntaxNext /\ UNCHANGED <<frontVars, graphVars, vars>>
       \/ part = "graph" /\ GraphNext /\ UNCHANGED <<frontVars, syntaxVars, vars>>
       \/ part = "build" /\ Next /\ UNCHANGED <<frontVars, syntaxVars, graphVars>>

ProjectSpec == ProjectInit /\ [][ProjectNext]_projectVars
=============================================================================
