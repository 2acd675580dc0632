-------------------------------- MODULE Syntax --------------------------------
(***************************************************************************)
(* The statements and expressions of a body (parser.rs, parse_node and     *)
(* parse_expr).  The notation is prefix: an operator is followed by its    *)
(* operands, without brackets; some operands are optional or repeated, and *)
(* the parser takes them as long as the next token allows it.              *)
(*                                                                         *)
(* The author builds a statement and writes it as one line of tokens; the  *)
(* parser reads it back, with an explicit stack for the calls of its       *)
(* recursive descent.  A tree is its tokens with brackets.  Tokens are     *)
(* strings, and a line ends with "NL".                                     *)
(***************************************************************************)
EXTENDS Integers, Sequences, FiniteSets, TLC

LOCAL INSTANCE SequencesExt

CONSTANTS Identifiers,      \* identifiers
          Ints,       \* integer tokens
          Statements  \* the statements that an author writes: a set of Parts

VARIABLES stmt,     \* the statement
          rest,     \* the tokens not read yet
          stack,    \* what the parser still expects on this line
          out,      \* the tree so far
          outcome    \* "reading", "accepted" or "rejected"

syntaxVars == <<stmt, rest, stack, out, outcome>>

-----------------------------------------------------------------------------
(* The grammar. *)

Types == {"int", "bytes", "float", "string"}
Literals == Ints \cup {"2.5", "text"}

(* One token of a class. *)
Terminal ==
    ("n" :> Identifiers) @@ ("i" :> Ints) @@ ("t" :> Types)
      @@ [w \in {"SHARED", "->", ",", ".", "="} |-> {w}]

Binary == {"IADD", "ISUB", "IMUL", "IDIV", "IMOD", "IEQ", "INE", "ILT", "IGT", "ILE", "IGE",
           "AND", "OR", "XOR", "SHL", "SHR", "SAR", "FADD", "FSUB", "FMUL", "FDIV",
           "FEQ", "FNE", "FLT", "FGT", "FLE", "FGE", "ATOMIC_STORE", "ATOMIC_ADD", "ATOMIC_SUB"}

Unary == {"INEG", "NOT", "FNEG", "ATOMIC_LOAD"}

(* What follows an operator: e an expression, n a name, i an integer, t a  *)
(* type, o an optional offset, s an optional SHARED, a arguments up to the *)
(* end of the line or an arrow, A arguments up to the end of the line.     *)
Shape ==
    [op \in Binary |-> <<"e", "e", "i">>] @@ [op \in Unary |-> <<"e", "i">>]
      @@ [LOAD |-> <<"e", "i", "o">>, ALLOC |-> <<"e", "t", "s">>, CAS |-> <<"e", "e", "e", "i">>,
          FTOI |-> <<"e", "i", "i">>, ITOF |-> <<"e", "i", "i">>, CHANNEL |-> <<"t", "e">>,
          CHANNEL_RECEIVE |-> <<"n">>, WAIT |-> <<"n">>, CALL |-> <<"n", "a">>, SPAWN |-> <<"n", "A">>]

(* Statements: p a name or a field, h names, > outputs after an arrow. *)
NodeShape ==
    [LABEL |-> <<"n">>, BRANCH |-> <<"e", "n", "n">>, JUMP |-> <<"n">>, SET |-> <<"n", "e">>, DISCARD |-> <<"n", "f">>,
     STORE |-> <<"n", "e", "i", "o">>, FREE |-> <<"n">>, CHANNEL_SEND |-> <<"n", "e">>, CHANNEL_CLOSE |-> <<"n">>,
     WAIT_ALL |-> <<"n", "h">>, CALL |-> <<"n", "a", ">">>]

(* What an optional or repeated part starts with, and what it stands for.  *)
(* Arguments go on until a token of Ends.                                  *)
Starts == ("o" :> Ints \cup Identifiers) @@ ("s" :> {"SHARED"}) @@ ("f" :> {"."}) @@ ("h" :> Identifiers)
            @@ (">" :> {"->"}) @@ ("l" :> {","})
Ends == [a |-> {"NL", "->"}, A |-> {"NL"}]

Expansion ==
    ("o" :> <<"(", "e", ")">>) @@ ("s" :> <<"SHARED">>) @@ ("f" :> <<".", "n">>) @@ ("h" :> <<"n", "h">>)
      @@ (">" :> <<"->", "n", "l">>) @@ ("l" :> <<",", "n", "l">>) @@ ("a" :> <<"e", "a">>) @@ ("A" :> <<"e", "A">>)

Optional == DOMAIN Expansion

Present(s, t) == IF s \in DOMAIN Ends THEN t \notin Ends[s] ELSE t \in Starts[s]

-----------------------------------------------------------------------------
(* The author.  A part of a line: its tokens, its tree, how its end is     *)
(* open, that is, which tokens would be taken for more of it, and whether  *)
(* the parser reads its inside as it was meant.                            *)

Part(text, tree, open, clean) == [text |-> text, tree |-> tree, open |-> open, clean |-> clean]

Word(w) == Part(<<w>>, <<w>>, {}, TRUE)

FieldOf(x, f) == Part(<<x, ".", f>>, <<x, ".", f>>, {}, TRUE)

(* Whether t, written after a part that is open in these ways, is taken    *)
(* for more of it.                                                         *)
Swallows(open, t) == \E s \in open : Present(s, t)

(* An operator with its operands.  own: the optional parts that could come *)
(* at its end.                                                             *)
Node(op, parts, own) ==
    LET next(i) == parts[i + 1].text[1]
        n == Len(parts)
    IN  Part(<<op>> \o FlattenSeq([i \in 1 .. n |-> parts[i].text]),
             <<"(", op>> \o FlattenSeq([i \in 1 .. n |-> parts[i].tree]) \o <<")">>,
             own \cup (IF n = 0 THEN {} ELSE parts[n].open),
             /\ \A i \in 1 .. n : parts[i].clean
             /\ \A i \in 1 .. n - 1 : ~Swallows(parts[i].open, next(i)))

(* An offset is only recognised if it starts with an integer or a name. *)
Offset(e) == [e EXCEPT !.tree = <<"(">> \o @ \o <<")">>, !.clean = @ /\ Present("o", e.text[1])]

(* target, ... = expression. *)
Assignment(targets, e) ==
    LET left == FlattenSeq([i \in DOMAIN targets |-> IF i = 1 THEN <<targets[i]>> ELSE <<",", targets[i]>>]) \o <<"=">>
    IN  Part(left \o e.text, <<"(">> \o left \o e.tree \o <<")">>, e.open, e.clean)

(* Statements may share a line. *)
OnOneLine(s, t) == Part(s.text \o t.text, s.tree \o t.tree, t.open, s.clean /\ t.clean /\ ~Swallows(s.open, t.text[1]))

SyntaxInit ==
    /\ stmt \in Statements
    /\ rest = stmt.text \o <<"NL">>
    /\ stack = <<"line">>
    /\ out = <<>>
    /\ outcome = "reading"

-----------------------------------------------------------------------------
(* The parser. *)

Reading(s) == outcome = "reading" /\ stack # <<>> /\ Head(stack) = s
Next1 == Head(rest)

(* Reads k tokens, emits them after `before`, and expects `more`. *)
Take(k, before, more) ==
    /\ rest' = SubSeq(rest, k + 1, Len(rest))
    /\ out' = out \o before \o SubSeq(rest, 1, k)
    /\ stack' = more \o Tail(stack)
    /\ UNCHANGED <<stmt, outcome>>

Refuse == outcome' = "rejected" /\ UNCHANGED <<stmt, rest, stack, out>>

(* A line of a body: newline, or a statement and the rest of the line. *)
ReadLine ==
    /\ Reading("line")
    /\ IF Next1 = "NL" THEN outcome' = "accepted" /\ UNCHANGED <<stmt, rest, stack, out>>
       ELSE Take(0, <<"(">>, <<"node", ")", "line">>)

(* parse_node. *)
ReadNode ==
    /\ Reading("node")
    /\ CASE Next1 \in DOMAIN NodeShape -> Take(1, <<>>, NodeShape[Next1])
         [] Next1 \in Identifiers            -> Take(1, <<>>, <<"targets">>)
         [] OTHER                      -> Refuse

(* After the first name of a statement. *)
ReadTargets ==
    /\ Reading("targets")
    /\ CASE Next1 = "=" -> Take(1, <<>>, <<"value">>)
         [] Next1 = "," -> Take(0, <<>>, <<",", "n", "second">>)
         [] OTHER       -> Refuse

(* After the second target: the code counts them, for WAIT_ANY. *)
ReadSecond ==
    /\ Reading("second")
    /\ Take(0, <<>>, IF Next1 = "," THEN <<"l", "=", "many">> ELSE <<"=", "pair">>)

ReadValue ==
    /\ Reading("value")
    /\ IF Next1 = "WAIT_ALL" THEN Take(1, <<"(">>, <<"n", "h", ")">>) ELSE Take(0, <<>>, <<"e">>)

ReadResults ==
    /\ Reading("pair") \/ Reading("many")
    /\ CASE Next1 = "WAIT_ANY" /\ Head(stack) = "pair" -> Take(1, <<"(">>, <<"h", ")">>)
         [] Next1 = "WAIT_ALL"                          -> Take(1, <<"(">>, <<"n", "h", ")">>)
         [] OTHER                                       -> Refuse

(* parse_expr. *)
ReadExpr ==
    /\ Reading("e")
    /\ CASE Next1 \in Literals     -> Take(1, <<>>, <<>>)
         [] Next1 \in Identifiers        -> Take(1, <<>>, <<"f">>)
         [] Next1 \in DOMAIN Shape -> Take(1, <<"(">>, Shape[Next1] \o <<")">>)
         [] OTHER                  -> Refuse

(* expect, expect_identifier, parse_integer, parse_type. *)
ReadToken ==
    /\ outcome = "reading" /\ stack # <<>> /\ Head(stack) \in DOMAIN Terminal
    /\ IF Next1 \in Terminal[Head(stack)] THEN Take(1, <<>>, <<>>) ELSE Refuse

(* Mutation: an absent part stays expected. *)
ReadOptionalStuck ==
    /\ outcome = "reading" /\ stack # <<>> /\ Head(stack) \in Optional
    /\ IF Present(Head(stack), Next1) THEN Take(0, <<>>, Expansion[Head(stack)]) ELSE UNCHANGED syntaxVars

(* Mutation: an offset must be an integer. *)
ReadOptionalInteger ==
    /\ outcome = "reading" /\ stack # <<>> /\ Head(stack) \in Optional
    /\ LET s == Head(stack)
       IN  IF Present(s, Next1) /\ (s = "o" => Next1 \in Ints) THEN Take(0, <<>>, Expansion[s]) ELSE Take(0, <<>>, <<>>)

ReadOptional ==
    /\ outcome = "reading" /\ stack # <<>> /\ Head(stack) \in Optional
    /\ IF Present(Head(stack), Next1) THEN Take(0, <<>>, Expansion[Head(stack)]) ELSE Take(0, <<>>, <<>>)

(* A node is complete, or an offset begins. *)
ReadBracket ==
    /\ outcome = "reading" /\ stack # <<>> /\ Head(stack) \in {"(", ")"}
    /\ Take(0, <<Head(stack)>>, <<>>)

SyntaxNext ==
    \/ ReadLine \/ ReadNode \/ ReadTargets \/ ReadSecond \/ ReadValue \/ ReadResults
    \/ ReadExpr \/ ReadToken \/ ReadOptional \/ ReadBracket

SyntaxSpec == SyntaxInit /\ [][SyntaxNext]_syntaxVars

-----------------------------------------------------------------------------
(* Properties. *)

(* A statement is read as it was written exactly if none of its parts      *)
(* swallows what follows: a LOAD or STORE without offset takes the next    *)
(* integer or name for its offset, a CALL or SPAWN inside an expression    *)
(* takes the rest of the line, and an offset that starts with an operator  *)
(* is not seen.  Otherwise it is rejected or, as in                        *)
(* STORE h LOAD g 8 8 0, silently read as another statement.               *)
RoundTrip ==
    outcome # "reading" => ((outcome = "accepted" /\ out = stmt.tree) <=> stmt.clean)

(* Until it has a result the parser can go on: no function of it waits for *)
(* a token that it neither reads, nor leaves to its caller, nor refuses    *)
(* (parse_node, parse_expr and the loops over arguments and handles).      *)
ParserGoesOn == outcome = "reading" => ENABLED <<SyntaxNext>>_syntaxVars

=============================================================================
