------------------------------- MODULE FrontEnd -------------------------------
(***************************************************************************)
(* From the text of a .beh, .pattern or .exe file to its sections: the     *)
(* lexer's description mode (lexer.rs, next_token) and the section parsers *)
(* (parser.rs: parse_behavior, parse_description, parse_contract,          *)
(* parse_requires, parse_pattern, parse_executable, and the loops around   *)
(* parse_node).                                                            *)
(*                                                                         *)
(* An author writes a file line by line, following the grammar of the      *)
(* language reference, and may stop anywhere.  Each line goes through the  *)
(* lexer and the parser, which is a stack of running functions (calls).    *)
(* author is the stack of constructs the author is in.  The two stacks use *)
(* the same names, so they can be compared.  Statements are read by        *)
(* Syntax.tla; here a statement is one token, with or without a string.    *)
(***************************************************************************)
EXTENDS Integers, Sequences, FiniteSets, Functions

CONSTANTS RefLines,    \* lists of references that REQUIRES may have on a line
          HexNames,    \* names made of hexadecimal digits only
          HashLength,  \* digits of a contract hash (8)
          MaxLines     \* bound: lines of a file

(* A hash as its author writes it: leading zeros, then decimal digits, and *)
(* the rest from the first letter on.                                      *)
Pin == {p \in [zeros : Nat, digits : Nat, letters : Nat] : p.zeros + p.digits + p.letters = HashLength}
PinnedRef == [name : STRING, pin : Seq(Pin)]

ASSUME FrontEndAssumption ==
    /\ HashLength \in Nat /\ MaxLines \in Nat
    /\ RefLines \subseteq Seq(PinnedRef) \ {<<>>}
    /\ \A refs \in RefLines : \A i \in DOMAIN refs : Len(refs[i].pin) <= 1

VARIABLES author,   \* the constructs that the author is in, innermost first
          rank,     \* the place of the last section of the innermost definition
          nested,   \* whether behaviors in a pattern are indented
          left,     \* lines the author may still write
          line,     \* the line being read, or NoLine
          lexed,    \* whether the lexer has seen that line
          inDesc,   \* the lexer: in_description
          calls,    \* the parser: its running functions, innermost first
          status,   \* "reading", "accepted" or "rejected"
          wrote,    \* the contract being written
          parsed,   \* the local variable contract of parse_contract
          slips     \* what the author did that matters to the properties

avars == <<author, rank, nested, left, wrote, slips>>
frontVars == <<author, rank, nested, left, line, lexed, inDesc, calls, status, wrote, parsed, slips>>

-----------------------------------------------------------------------------
(* Lines.  word: the class of the first token; tail: what follows it on    *)
(* the line; extra: "string" for a statement with a string literal,        *)
(* "quote" for text with an odd number of quotes, "number" for text with   *)
(* something like 0x, "platform" for IMPLEMENTATION[name]; items: the      *)
(* references, names or guarantees of a contract line.                     *)

NoLine == [word |-> "none", tail |-> "none", extra |-> "none", items |-> <<>>, indent |-> FALSE]
Line(w, tail, extra, items, indent) == [word |-> w, tail |-> tail, extra |-> extra, items |-> items, indent |-> indent]

(* The words that end a description. *)
SectionWords == {"CONTRACT", "HASH", "IMPLEMENTATION", "COMPOSITION", "NATIVE", "END", "ENTRY", "USES", "END_EXECUTABLE"}

NoContract == [behaviors |-> <<>>, memory |-> <<>>, guarantees |-> <<>>]

FrontInit ==
    /\ \E kind \in {"behavior", "pattern", "executable"} : author = <<kind>> /\ calls = <<kind>>
    /\ rank = 0
    /\ nested \in BOOLEAN
    /\ left = MaxLines
    /\ line = NoLine /\ lexed = FALSE
    /\ inDesc = FALSE
    /\ status = "reading"
    /\ wrote = NoContract /\ parsed = NoContract
    /\ slips = {}

-----------------------------------------------------------------------------
(* The author. *)

(* The sections of each kind of definition, in the order of the grammar. *)
Rank == [behavior   |-> [DESCRIPTION |-> 1, CONTRACT |-> 2, HASH |-> 3, IMPLEMENTATION |-> 4, COMPOSITION |-> 4, NATIVE |-> 4],
         pattern    |-> [MEMORY |-> 1, ON_CREATE |-> 2, BEHAVIOR |-> 3, ON_DESTROY |-> 4, END_PATTERN |-> 5],
         executable |-> [DESCRIPTION |-> 1, USES |-> 2, ENTRY |-> 3, END_EXECUTABLE |-> 4]]

Opens == [DESCRIPTION |-> "description", CONTRACT |-> "contract", IMPLEMENTATION |-> "body", COMPOSITION |-> "body",
          MEMORY |-> "memory", ON_CREATE |-> "on_create", ON_DESTROY |-> "on_destroy", BEHAVIOR |-> "behavior", ENTRY |-> "entry"]

(* Constructs without a word of their own at the end. *)
OpenEnded == {"description", "contract", "requires", "memory", "on_create", "on_destroy", "entry"}

Bodies == {"body", "platform", "scope", "on_create", "on_destroy", "entry"}

Inside == IF author = <<>> THEN "nothing" ELSE Head(author)

(* A stack without the constructs of S on top of it. *)
Depth(stack, S) ==
    CHOOSE n \in 0 .. Len(stack) : (\A i \in 1 .. n : stack[i] \in S) /\ (n < Len(stack) => stack[n + 1] \notin S)
Skip(stack, S) == SubSeq(stack, Depth(stack, S) + 1, Len(stack))

(* The definition whose next section may follow, and what encloses it. *)
Enclosing == Skip(author, OpenEnded)

Indented == nested /\ Len(Enclosing) > 1

MayWrite == status = "reading" /\ line = NoLine /\ left > 0

(* A contract's slips are forgotten with the contract. *)
Write(l, stack, slip) ==
    /\ line' = l /\ lexed' = FALSE
    /\ author' = stack
    /\ left' = left - 1
    /\ slips' = slip \cup (IF "contract" \in Range(stack) THEN slips ELSE slips \ {"again", "pin"})
    /\ UNCHANGED <<nested, inDesc, calls, status, parsed>>

(* Where section w of the innermost definition of a stack leads. *)
AfterSection(w, platform, stack) ==
    CASE w \in {"END_PATTERN", "END_EXECUTABLE", "NATIVE"} -> Tail(stack)
      [] w \in {"HASH", "USES"}                            -> stack
      [] OTHER -> <<IF platform THEN "platform" ELSE Opens[w]>> \o stack

(* A section.  The first line of a description may follow on the same line. *)
WriteSection ==
    /\ MayWrite
    /\ Enclosing # <<>> /\ Head(Enclosing) \in DOMAIN Rank
    /\ LET own == Rank[Head(Enclosing)]
       IN  \E w \in DOMAIN own : \E tail \in {"none"} \cup (IF w = "DESCRIPTION" THEN SectionWords ELSE {}),
                                   platform \in {FALSE, w = "IMPLEMENTATION"} :
             /\ own[w] > rank \/ (own[w] = rank /\ (w = "BEHAVIOR" \/ platform))
             /\ LET extra == IF platform THEN "platform" ELSE "none"
                    rest  == CASE w = "HASH" -> "pin" [] w = "USES" -> "path" [] OTHER -> tail
                IN  /\ Write(Line(w, rest, extra, <<>>, Indented), AfterSection(w, platform, Enclosing),
                             (IF tail # "none" THEN {"word"} ELSE {})
                               \cup (IF w = "DESCRIPTION" /\ Indented THEN {"indented"} ELSE {}))
                    /\ rank' = CASE w = "BEHAVIOR" -> 0 [] w = "NATIVE" /\ Len(Enclosing) > 1 -> 3 [] OTHER -> own[w]
                    /\ wrote' = NoContract

(* A line of a description. *)
WriteText ==
    /\ MayWrite
    /\ Inside = "description"
    /\ \E indent \in BOOLEAN :
         \/ \E extra \in {"none", "quote", "number"} :
              Write(Line("plain", "none", extra, <<>>, indent), author, IF extra = "number" THEN {"number"} ELSE {})
         \/ \E w \in SectionWords, more \in {"none", "plain"} : Write(Line(w, more, "none", <<>>, indent), author, {"word"})
    /\ UNCHANGED <<rank, wrote>>

(* A reference whose hash the author wrote with decimal digits only,       *)
(* before a name that is a hexadecimal number.                             *)
DigitsBeforeHex(refs) ==
    {i \in 1 .. Len(refs) - 1 : refs[i].pin # <<>> /\ refs[i].pin[1].letters = 0 /\ refs[i + 1].name \in HexNames}

PinSlips(refs) ==
    (IF DigitsBeforeHex(refs) # {} THEN {"pin"} ELSE {})
      \cup (IF \E i \in DigitsBeforeHex(refs) : refs[i + 1].pin # <<>> THEN {"pinned"} ELSE {})

(* A clause of a contract, or more references on a line of their own. *)
WriteClause ==
    /\ MayWrite
    /\ Inside \in {"contract", "requires"}
    /\ LET contract == IF Inside = "requires" THEN Tail(author) ELSE author
           requires == <<"requires">> \o contract
       IN  \/ \E w \in {"INPUT", "OUTPUT"} : Write(Line(w, "none", "none", <<>>, TRUE), contract, {}) /\ UNCHANGED wrote
           \/ /\ Write(Line("MEMORY", "none", "none", <<"m">>, TRUE), contract, {})
              /\ wrote' = [wrote EXCEPT !.memory = Append(@, "m")]
           \/ \E g \in {<<"pure">>, <<"no_alloc", "writes_output">>} :
                /\ Write(Line("GUARANTEES", "none", "none", g, TRUE), contract, IF wrote.guarantees # <<>> THEN {"again"} ELSE {})
                /\ wrote' = [wrote EXCEPT !.guarantees = @ \o g]
           \/ \E refs \in RefLines \cup {<<>>} :
                /\ Write(Line("REQUIRES", "none", "none", refs, TRUE), requires,
                         PinSlips(refs) \cup (IF wrote.behaviors # <<>> \/ wrote.memory # <<>> THEN {"again"} ELSE {}))
                /\ wrote' = [wrote EXCEPT !.behaviors = @ \o refs]
           \/ /\ Inside = "requires"
              /\ \E refs \in RefLines :
                   /\ Write(Line("ref", "none", "none", refs, TRUE), requires,
                            PinSlips(refs) \cup (IF wrote.behaviors # <<>> THEN {"again"} ELSE {}))
                   /\ wrote' = [wrote EXCEPT !.behaviors = @ \o refs]
    /\ UNCHANGED rank

(* A memory declaration of a pattern. *)
WriteDeclaration ==
    /\ MayWrite
    /\ Inside = "memory"
    /\ Write(Line("decl", "none", "none", <<>>, TRUE), author, {})
    /\ UNCHANGED <<rank, wrote>>

(* A statement, SCOPE and END_SCOPE. *)
WriteStatement ==
    /\ MayWrite
    /\ Inside \in Bodies
    /\ \/ \E extra \in {"none", "string"} :
            Write(Line("stmt", "none", extra, <<>>, TRUE), author,
                  IF extra = "string" /\ "indented" \in slips THEN {"literal"} ELSE {})
       \/ Write(Line("SCOPE", "none", "none", <<>>, TRUE), <<"scope">> \o author, {})
       \/ Inside = "scope" /\ Write(Line("END_SCOPE", "none", "none", <<>>, TRUE), Tail(author), {})
    /\ UNCHANGED <<rank, wrote>>

(* END of a body ends its behavior; each body for a platform has its own,  *)
(* and the behavior another one.                                           *)
AfterEnd(stack) == IF Head(stack) = "body" THEN Tail(Tail(stack)) ELSE Tail(stack)

(* The author may have left scopes open. *)
WriteEnd ==
    /\ MayWrite
    /\ LET ended == Skip(author, {"scope"})
       IN  /\ ended # <<>>
           /\ Head(ended) \in {"body", "platform"} \/ (Head(ended) = "behavior" /\ rank = 4)
           /\ Write(Line("END", "none", "none", <<>>, nested /\ AfterEnd(ended) # <<>>), AfterEnd(ended), {})
           /\ rank' = IF Head(ended) # "platform" /\ AfterEnd(ended) # <<>> THEN 3 ELSE rank
    /\ UNCHANGED wrote

(* The file ends, perhaps too early. *)
WriteEof ==
    /\ status = "reading" /\ line = NoLine
    /\ line' = Line("EOF", "none", "none", <<>>, FALSE) /\ lexed' = FALSE
    /\ slips' = slips \cup (IF author # <<>> THEN {"cut"} ELSE {})
    /\ UNCHANGED <<author, rank, nested, left, inDesc, calls, status, wrote, parsed>>

-----------------------------------------------------------------------------
(* The lexer. *)

(* A string must end on its line; in a description a quote is plain text. *)
Unterminated(desc) == line.extra = "quote" /\ ~desc

(* A number must be well-formed, in a description too. *)
Malformed == line.extra = "number"

(* DESCRIPTION begins a description; only a section word in column 1 ends  *)
(* it.                                                                     *)
Lex ==
    /\ line # NoLine /\ ~lexed /\ status = "reading"
    /\ lexed' = TRUE
    /\ LET leaves == line.word \in SectionWords /\ ~line.indent
           desc == line.word = "DESCRIPTION" \/ (inDesc /\ ~leaves)
       IN  inDesc' = desc /\ status' = IF Malformed \/ Unterminated(desc) THEN "rejected" ELSE status
    /\ UNCHANGED <<avars, line, calls, parsed>>

-----------------------------------------------------------------------------
(* The parser. *)

Running(f) == status = "reading" /\ lexed /\ line # NoLine /\ calls # <<>> /\ Head(calls) = f

(* What is left of a line after its first word. *)
Rest == IF line.tail = "none" THEN NoLine ELSE Line(line.tail, "none", line.extra, <<>>, line.indent)

Call(f) == calls' = <<f>> \o calls
Return == calls' = Tail(calls)
Read(rest) == line' = rest /\ status' = status /\ UNCHANGED <<avars, lexed, inDesc>>
Keep == Read(line)
Reject == status' = "rejected" /\ UNCHANGED <<avars, line, lexed, inDesc, calls, parsed>>

(* The sections of a behavior.  HASH takes the next token of the line. *)
ParseBehavior ==
    /\ Running("behavior")
    /\ CASE line.word = "DESCRIPTION"     -> Call("description") /\ Read(Rest) /\ UNCHANGED parsed
         [] line.word = "CONTRACT"        -> Call("contract") /\ Read(Rest) /\ parsed' = NoContract
         [] line.word = "HASH" /\ line.tail # "none" ->
              Read(IF line.tail = "pin" THEN NoLine ELSE Rest) /\ UNCHANGED <<calls, parsed>>
         [] line.word = "IMPLEMENTATION"  -> Call(IF line.extra = "platform" THEN "platform" ELSE "body") /\ Read(Rest) /\ UNCHANGED parsed
         [] line.word = "COMPOSITION"     -> Call("body") /\ Read(Rest) /\ UNCHANGED parsed
         [] line.word \in {"NATIVE", "END"} -> Return /\ Read(Rest) /\ UNCHANGED parsed
         [] OTHER                         -> Reject

(* A description ends before a line whose first word is a section word,    *)
(* wherever that line starts.                                              *)
ParseDescription ==
    /\ Running("description")
    /\ IF line.word \in SectionWords \cup {"EOF"} THEN Return /\ Keep ELSE Read(NoLine) /\ UNCHANGED calls
    /\ UNCHANGED parsed

(* REQUIRES replaces the requirements, GUARANTEES the guarantees. *)
ParseContract ==
    /\ Running("contract")
    /\ CASE line.word \in {"INPUT", "OUTPUT"} -> Read(NoLine) /\ UNCHANGED <<calls, parsed>>
         [] line.word = "REQUIRES" ->
              /\ Call("requires")
              /\ Read(IF line.items = <<>> THEN NoLine ELSE [line EXCEPT !.word = "ref"])
              /\ parsed' = [parsed EXCEPT !.behaviors = <<>>, !.memory = <<>>]
         [] line.word = "GUARANTEES" -> Read(NoLine) /\ parsed' = [parsed EXCEPT !.guarantees = line.items] /\ UNCHANGED calls
         [] line.word = "MEMORY" -> Read(NoLine) /\ parsed' = [parsed EXCEPT !.memory = @ \o line.items] /\ UNCHANGED calls
         [] OTHER -> Return /\ Keep /\ parsed' = NoContract

(* A hash as the lexer sees it: a number, which loses its leading zeros,   *)
(* then a word.  The parser joins the two and fills up with zeros.         *)
Shortened(pin) == [pin EXCEPT !.zeros = IF pin.zeros > 0 /\ pin.digits = 0 THEN 1 ELSE 0]

(* Mutation: no zeros are filled in. *)
HexStringShort(pin) == Shortened(pin)

HexString(pin) ==
    LET s == Shortened(pin)
        len == s.zeros + s.digits + s.letters
    IN  IF len < HashLength THEN [s EXCEPT !.zeros = @ + HashLength - len] ELSE s

(* The names of a line that are taken for the rest of a hash: hexadecimal  *)
(* numbers after a hash of decimal digits only.                            *)
Swallowed(refs) ==
    {i \in DOMAIN refs : i > 1 /\ refs[i].name \in HexNames /\ refs[i - 1].pin # <<>> /\ refs[i - 1].pin[1].letters = 0}

(* The k-th smallest element of a set of positions. *)
Nth(S, k) == CHOOSE i \in S : Cardinality({j \in S : j <= i}) = k

(* The references of a line as they are parsed, and whether the parser     *)
(* cannot go on, at the @ of a name that was swallowed.                    *)
BehaviorRefs(refs) ==
    LET kept == DOMAIN refs \ Swallowed(refs)
        ref(i) == [name |-> refs[i].name,
                   pin  |-> IF i + 1 \in Swallowed(refs) THEN <<"too long">>
                            ELSE [k \in DOMAIN refs[i].pin |-> HexString(refs[i].pin[k])]]
    IN  [refs |-> [k \in 1 .. Cardinality(kept) |-> ref(Nth(kept, k))],
         stuck |-> \E i \in Swallowed(refs) : refs[i].pin # <<>>]

(* Each line of references replaces the one before it. *)
ParseRequires ==
    /\ Running("requires")
    /\ IF line.word # "ref" THEN Return /\ Keep /\ UNCHANGED parsed
       ELSE LET r == BehaviorRefs(line.items)
            IN  IF r.stuck THEN Reject
                ELSE Read(NoLine) /\ parsed' = [parsed EXCEPT !.behaviors = r.refs] /\ UNCHANGED calls

(* parse_node.  In a description, the lexer makes no string literals. *)
ParseNode ==
    CASE line.word = "stmt" /\ ~(line.extra = "string" /\ inDesc) -> Read(NoLine) /\ UNCHANGED <<calls, parsed>>
      [] line.word = "SCOPE"                                      -> Call("scope") /\ Read(NoLine) /\ UNCHANGED parsed
      [] OTHER                                                    -> Reject

ParseScope ==
    /\ Running("scope")
    /\ CASE line.word = "END_SCOPE"      -> Return /\ Read(NoLine) /\ UNCHANGED parsed
         [] line.word \in {"END", "EOF"} -> Return /\ Keep /\ UNCHANGED parsed
         [] OTHER                        -> ParseNode

(* parse_implementation and parse_composition; the END of a body for one   *)
(* platform is read with it.                                               *)
ParseImplementation ==
    /\ Running("body") \/ Running("platform")
    /\ IF line.word \in {"END", "EOF"}
       THEN /\ Return
            /\ Read(IF Head(calls) = "platform" /\ line.word = "END" THEN NoLine ELSE line)
            /\ UNCHANGED parsed
       ELSE ParseNode

PatternEnd == [on_create |-> {"ON_DESTROY", "BEHAVIOR", "END_PATTERN", "EOF"}, on_destroy |-> {"END_PATTERN", "EOF"},
               entry |-> {"END_EXECUTABLE", "EOF"}]

(* The statements of ON_CREATE, ON_DESTROY and ENTRY. *)
ParseStatements ==
    /\ \E f \in DOMAIN PatternEnd : Running(f)
    /\ IF line.word \in PatternEnd[Head(calls)] THEN Return /\ Keep /\ UNCHANGED parsed ELSE ParseNode

(* Memory declarations of a pattern. *)
ParseMemory ==
    /\ Running("memory")
    /\ CASE line.word = "decl"                     -> Read(NoLine) /\ UNCHANGED <<calls, parsed>>
         [] line.word \in {"stmt", "ref", "plain"} -> Reject
         [] OTHER                                  -> Return /\ Keep /\ UNCHANGED parsed

ParsePattern ==
    /\ Running("pattern")
    /\ CASE line.word \in {"MEMORY", "ON_CREATE", "ON_DESTROY", "BEHAVIOR"} -> Call(Opens[line.word]) /\ Read(Rest) /\ UNCHANGED parsed
         [] line.word = "END_PATTERN"                                       -> Return /\ Read(Rest) /\ UNCHANGED parsed
         [] line.word = "EOF"                                               -> Return /\ Keep /\ UNCHANGED parsed
         [] OTHER                                                           -> Reject

ParseExecutable ==
    /\ Running("executable")
    /\ CASE line.word \in {"DESCRIPTION", "ENTRY"}         -> Call(Opens[line.word]) /\ Read(Rest) /\ UNCHANGED parsed
         [] line.word = "USES" /\ line.tail = "path"       -> Read(NoLine) /\ UNCHANGED <<calls, parsed>>
         [] line.word = "END_EXECUTABLE"                   -> Return /\ Read(Rest) /\ UNCHANGED parsed
         [] line.word = "EOF"                              -> Return /\ Keep /\ UNCHANGED parsed
         [] OTHER                                          -> Reject

(* The parser has returned: what follows in the file is never looked at. *)
Ignore ==
    /\ status = "reading" /\ lexed /\ line # NoLine /\ calls = <<>>
    /\ line' = NoLine
    /\ status' = IF line.word = "EOF" THEN "accepted" ELSE status
    /\ UNCHANGED <<avars, lexed, inDesc, calls, parsed>>

Author == WriteSection \/ WriteText \/ WriteClause \/ WriteDeclaration \/ WriteStatement \/ WriteEnd \/ WriteEof
Parser ==
    \/ ParseBehavior \/ ParseDescription \/ ParseContract \/ ParseRequires \/ ParseScope \/ ParseImplementation
    \/ ParseStatements \/ ParseMemory \/ ParsePattern \/ ParseExecutable \/ Ignore

FrontNext == Author \/ Lex \/ Parser

FrontSpec == FrontInit /\ [][FrontNext]_frontVars

-----------------------------------------------------------------------------
(* Properties. *)

AtRest == status = "reading" /\ line = NoLine

(* Between two lines the parser is in the construct that the author is in, *)
(* also after an END that leaves scopes open, unless a line of a           *)
(* description began with a section word, in any column.  And the lexer    *)
(* takes the text for a description exactly if it is one, or follows one   *)
(* in an indented behavior, where no section word stands in column 1.      *)
InStep ==
    AtRest /\ "word" \notin slips =>
        /\ calls = author
        /\ inDesc <=> (Inside = "description" \/ "indented" \in slips)

(* A file whose descriptions have no line with a section word is rejected  *)
(* exactly if a description has a malformed number, a string literal       *)
(* follows the description of an indented behavior, a name with a hash of  *)
(* its own was taken for part of the hash before it, or the file ends      *)
(* within a behavior.  So a pattern or an executable that is cut short     *)
(* elsewhere is accepted, and so is a SCOPE that is never closed, which    *)
(* the grammar of the language reference rules out.                        *)
RejectedExactly ==
    status # "reading" /\ "word" \notin slips =>
        (status = "rejected" <=>
            \/ slips \cap {"number", "literal", "pinned"} # {}
            \/ "cut" \in slips /\ \E i \in DOMAIN author : author[i] = "behavior")

(* "A section word appearing indented inside the body does not end it",    *)
(* "matching the parser's line-start rule" (lexer.rs, next_token): while   *)
(* an indented line of a description is read, the lexer and                *)
(* parse_description agree on whether the description goes on.             *)
DescriptionsAgree ==
    status = "reading" /\ lexed /\ line # NoLine /\ Inside = "description" /\ line.indent /\ line.word # "DESCRIPTION"
        => (inDesc <=> calls # <<>> /\ Head(calls) = "description")

(* The contract parsed is the contract written, exactly if REQUIRES and    *)
(* GUARANTEES are given once, the references on one line and before any    *)
(* MEMORY, and no hash of decimal digits comes before a name that is a     *)
(* hexadecimal number.  Leading zeros of a hash survive.                   *)
ContractKept ==
    AtRest /\ "word" \notin slips /\ Inside \in {"contract", "requires"} => ((parsed = wrote) <=> slips \cap {"again", "pin"} = {})

=============================================================================
