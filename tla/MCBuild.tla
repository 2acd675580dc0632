------------------------------ MODULE MCBuild ------------------------------
(* Two behaviors that may require each other, a library of one behavior, a *)
(* pattern and ENTRY.                                                      *)
EXTENDS Build

MCCalls == [u \in {"p", Entry} |-> IF u = "p" THEN {"b"} ELSE {"a", "l"}]

MCRequirable ==
    [f \in Files |-> IF f = "a" THEN {"b", "l"} ELSE IF f = "b" THEN {"a", "gone"} ELSE {}]

Text(req, hash) == [ver |-> 1, req |-> req, hash |-> hash]

MCStart ==
    [f \in Files |->
        CASE f = "a" -> Text([d \in {"b"} |-> None], None)
          [] f \in {"b", "l"} -> Text(<<>>, <<1, <<>>>>)
          [] OTHER -> Text(<<>>, None)]
=============================================================================
