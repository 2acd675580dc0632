---------------------------- MODULE FrontProofs ----------------------------
(***************************************************************************)
(* Proofs about module FrontEnd: the lexer and the parser stay in step     *)
(* with the author, a file is rejected exactly for the listed reasons, and *)
(* a contract is parsed as it was written, for files of any length,        *)
(* references and hashes of any form.                                      *)
(***************************************************************************)
EXTENDS FrontEnd, FiniteSetTheorems, SequenceTheorems, WellFoundedInduction, TLAPS

-----------------------------------------------------------------------------
(* The inductive invariant *)

Definitions == {"behavior", "pattern", "executable"}
Constructs == Definitions \cup OpenEnded \cup {"body", "platform", "scope"}

(* What a construct may directly be in. *)
Under == [description |-> {"behavior", "executable"}, contract |-> {"behavior"}, requires |-> {"contract"},
          body |-> {"behavior"}, platform |-> {"behavior"}, scope |-> Bodies, memory |-> {"pattern"},
          on_create |-> {"pattern"}, on_destroy |-> {"pattern"}, entry |-> {"executable"}, behavior |-> {"pattern"},
          pattern |-> {}, executable |-> {}]

(* A stack of constructs that the grammar allows. *)
Shaped(s) ==
    /\ s \in Seq(Constructs)
    /\ \A i \in 1 .. Len(s) - 1 : s[i + 1] \in Under[s[i]]
    /\ s # <<>> => s[Len(s)] \in Definitions

(* What MEMORY and GUARANTEES may name. *)
Named == {"m", "pure", "no_alloc", "writes_output"}

(* A contract.  Its references are those of the author, or what the parser *)
(* made of them.                                                           *)
IsContract(c) ==
    /\ c = [behaviors |-> c.behaviors, memory |-> c.memory, guarantees |-> c.guarantees]
    /\ Len(c.behaviors) \in Nat /\ c.memory \in Seq(Named) /\ c.guarantees \in Seq(Named)

Typed ==
    /\ Shaped(author) /\ Shaped(calls)
    /\ rank \in 0 .. 5 /\ nested \in BOOLEAN /\ lexed \in BOOLEAN /\ inDesc \in BOOLEAN
    /\ line = Line(line.word, line.tail, line.extra, line.items, line.indent) /\ line.indent \in BOOLEAN
    /\ status \in {"reading", "accepted", "rejected"}
    /\ IsContract(wrote) /\ wrote.behaviors \in Seq(PinnedRef) /\ IsContract(parsed)
    /\ slips \subseteq {"word", "indented", "number", "again", "pin", "pinned", "literal", "cut"}

(* The rank of the innermost definition's section, by what the author is in. *)
RankIn == [description |-> 1, contract |-> 2, requires |-> 2, body |-> 4, platform |-> 4, memory |-> 1,
           on_create |-> 2, on_destroy |-> 4, entry |-> 3]

Ranked(s, r) == \A i \in DOMAIN s : s[i] \notin Definitions \cup {"scope"} => r = RankIn[s[i]]

(* Indented descriptions are those of behaviors in a pattern. *)
Nested ==
    /\ "indented" \in slips => nested /\ (author # <<>> => author[Len(author)] = "pattern")
    /\ Inside = "description" /\ nested /\ Len(author) > 2 => "indented" \in slips

-----------------------------------------------------------------------------
Clauses == {"INPUT", "OUTPUT", "REQUIRES", "GUARANTEES", "MEMORY"}

(* The function for construct c returns at word w of a section, and leaves *)
(* the word to its caller.                                                 *)
Leaves(w, c) ==
    CASE c = "description"       -> w \in SectionWords
      [] c \in DOMAIN PatternEnd -> w \in PatternEnd[c]
      [] c = "contract"          -> w \notin Clauses
      [] OTHER                   -> w \notin {"ref", "decl", "stmt", "plain"}

(* Line l, read by a parser whose functions are s, leads to stack a. *)
Section(l, s, a) ==
    LET e == Skip(s, OpenEnded) IN
    /\ e # <<>> /\ Head(e) \in Definitions /\ l.word \in DOMAIN Rank[Head(e)]
    /\ s # <<>> /\ Head(s) \in OpenEnded =>
         Leaves(l.word, Head(s)) /\ (Head(s) = "requires" => Leaves(l.word, "contract"))
    /\ l.tail = CASE l.word = "HASH" -> "pin" [] l.word = "USES" -> "path" [] OTHER -> "none"
    /\ l.extra = "none" \/ (l.extra = "platform" /\ l.word = "IMPLEMENTATION")
    /\ a = AfterSection(l.word, l.extra = "platform", e)

ContractOf(s) == IF Head(s) = "requires" THEN Tail(s) ELSE s

Clause(l, s, a) ==
    /\ l.extra = "none" /\ s # <<>> /\ Head(s) \in {"contract", "requires"}
    /\ \/ l.word \in {"INPUT", "OUTPUT"} /\ a = ContractOf(s)
       \/ l.word \in {"GUARANTEES", "MEMORY"} /\ a = ContractOf(s) /\ l.items \in Seq(Named)
       \/ l.word = "REQUIRES" /\ a = <<"requires">> \o ContractOf(s) /\ l.items \in RefLines \cup {<<>>}
       \/ l.word = "ref" /\ Head(s) = "requires" /\ a = s /\ l.items \in RefLines

Text(l, s, a) == l.word = "plain" /\ l.extra \in {"none", "quote", "number"} /\ s # <<>> /\ Head(s) = "description" /\ a = s

Declaration(l, s, a) == l.word = "decl" /\ l.extra = "none" /\ s # <<>> /\ Head(s) = "memory" /\ a = s

Statement(l, s, a) ==
    /\ s # <<>> /\ Head(s) \in Bodies
    /\ \/ l.word = "stmt" /\ l.extra \in {"none", "string"} /\ a = s
       \/ l.word = "SCOPE" /\ l.extra = "none" /\ a = <<"scope">> \o s
       \/ l.word = "END_SCOPE" /\ l.extra = "none" /\ Head(s) = "scope" /\ a = Tail(s)

Ending(l, s, a) ==
    LET e == Skip(s, {"scope"}) IN
    /\ l.word = "END" /\ l.tail = "none" /\ l.extra = "none"
    /\ e # <<>> /\ Head(e) \in {"body", "platform", "behavior"} /\ a = AfterEnd(e)

(* At the end of the file all functions return but that of a behavior. *)
Eof(l, s, a) ==
    /\ l.word = "EOF" /\ l.extra = "none"
    /\ "behavior" \in Range(s) <=> "behavior" \in Range(a)

Fits(l, s, a) ==
    \/ Section(l, s, a) \/ Clause(l, s, a) \/ Text(l, s, a) \/ Declaration(l, s, a)
    \/ Statement(l, s, a) \/ Ending(l, s, a) \/ Eof(l, s, a)

Following == status = "reading" => IF line = NoLine THEN calls = author ELSE Fits(line, calls, author)

(* What the lexer takes the line for. *)
Described ==
    IF lexed \/ line = NoLine THEN inDesc
    ELSE line.word = "DESCRIPTION" \/ (inDesc /\ ~(line.word \in SectionWords /\ ~line.indent))

Lexing == status = "reading" /\ line.word # "EOF" => (Described <=> (Inside = "description" \/ "indented" \in slips))

(* A line for which the file is rejected has not been read yet. *)
Slipping ==
    status = "reading" =>
        /\ "number" \in slips <=> line.extra = "number" /\ ~lexed
        /\ "literal" \in slips <=> line.word = "stmt" /\ line.extra = "string" /\ "indented" \in slips
        /\ "pinned" \in slips <=> line.word \in {"REQUIRES", "ref"} /\ BehaviorRefs(line.items).stuck
        /\ "cut" \in slips <=> line.word = "EOF" /\ author # <<>>

-----------------------------------------------------------------------------
(* The contract as it will be parsed once the line is read. *)
ParsedAfter(l, p) ==
    CASE l.word = "CONTRACT"   -> NoContract
      [] l.word = "GUARANTEES" -> [p EXCEPT !.guarantees = l.items]
      [] l.word = "MEMORY"     -> [p EXCEPT !.memory = @ \o l.items]
      [] l.word = "REQUIRES"   -> [p EXCEPT !.memory = <<>>, !.behaviors = BehaviorRefs(l.items).refs]
      [] l.word = "ref"        -> [p EXCEPT !.behaviors = BehaviorRefs(l.items).refs]
      [] OTHER                 -> p

(* What was parsed is what was written, or something of it is missing. *)
Agree(p, w, slipped) ==
    /\ Len(p.behaviors) <= Len(w.behaviors) /\ Len(p.memory) <= Len(w.memory) /\ Len(p.guarantees) <= Len(w.guarantees)
    /\ IF slipped
       THEN Len(p.behaviors) < Len(w.behaviors) \/ Len(p.memory) < Len(w.memory) \/ Len(p.guarantees) < Len(w.guarantees)
       ELSE p = w

Agreeing ==
    IF Inside \in {"contract", "requires"}
    THEN status = "reading" /\ line.word # "EOF" => Agree(ParsedAfter(line, parsed), wrote, slips \cap {"again", "pin"} # {})
    ELSE slips \cap {"again", "pin"} = {}

Good ==
    /\ Typed /\ Ranked(author, rank) /\ Nested
    /\ Following /\ Lexing /\ Slipping /\ Agreeing
    /\ RejectedExactly

(* Nothing is claimed once a line of a description has begun with a        *)
(* section word.                                                           *)
IInv == "word" \notin slips => Good

-----------------------------------------------------------------------------
(* Stacks *)

(* A non-empty set of positions has a first one. *)
LEMMA LeastPosition ==
    ASSUME NEW T, T \subseteq Nat, T # {}
    PROVE  \E x \in T : \A y \in T : x <= y
  <1> DEFINE R == {ss \in Nat \X Nat : ss[1] < ss[2]}
  <1>1. IsWellFoundedOn(R, Nat)
    BY NatLessThanWellFounded, Zenon DEF OpToRel
  <1>2. \E x \in T : \A y \in T : ~ (<<y, x>> \in R)
    <2> HIDE DEF R
    <2> QED BY <1>1, WFMin, Zenon
  <1>3. PICK x \in T : \A y \in T : ~ (<<y, x>> \in R)
    BY <1>2
  <1>4. ASSUME NEW y \in T PROVE x <= y
    <2>1. x \in Nat /\ y \in Nat /\ ~(<<y, x>> \in R)
      BY <1>3
    <2> QED BY <2>1
  <1> QED BY <1>4

(* Skip drops a prefix of S, up to the first construct that is not in S. *)
LEMMA SkipMeaning ==
    ASSUME NEW s, s \in Seq(Constructs), NEW S
    PROVE  \E n \in 0 .. Len(s) : /\ Skip(s, S) = SubSeq(s, n + 1, Len(s))
                                  /\ \A i \in 1 .. n : s[i] \in S
                                  /\ n < Len(s) => s[n + 1] \notin S
  <1> DEFINE P(n) == (\A i \in 1 .. n : s[i] \in S) /\ (n < Len(s) => s[n + 1] \notin S)
  <1>1. \E n \in 0 .. Len(s) : P(n)
    <2>1. CASE \A i \in 1 .. Len(s) : s[i] \in S
      BY <2>1
    <2>2. CASE \E i \in 1 .. Len(s) : s[i] \notin S
      <3> DEFINE T == {i \in 1 .. Len(s) : s[i] \notin S}
      <3>1. T \subseteq Nat /\ T # {}
        BY <2>2
      <3>2. \E x \in T : \A y \in T : x <= y
        <4> HIDE DEF T
        <4> QED BY <3>1, LeastPosition
      <3>3. PICK x \in T : \A y \in T : x <= y
        BY <3>2
      <3>4. P(x - 1) /\ x - 1 \in 0 .. Len(s)
        BY <3>3
      <3> QED BY <3>4
    <2> QED BY <2>1, <2>2
  <1>2. PICK n \in 0 .. Len(s) : n = Depth(s, S) /\ P(n)
    BY <1>1 DEF Depth
  <1>3. Skip(s, S) = SubSeq(s, n + 1, Len(s))
    BY <1>2 DEF Skip
  <1>4. (\A i \in 1 .. n : s[i] \in S) /\ (n < Len(s) => s[n + 1] \notin S)
    BY <1>2
  <1> QED BY <1>3, <1>4

(* The head and the tail of a stack that is not empty. *)
LEMMA TailFacts ==
    ASSUME NEW C, NEW s, s \in Seq(C), s # <<>>
    PROVE  /\ Len(s) \in Nat /\ Len(s) >= 1 /\ Head(s) = s[1] /\ s[1] \in C
           /\ Tail(s) \in Seq(C) /\ Len(Tail(s)) = Len(s) - 1
           /\ \A i \in 1 .. Len(s) - 1 : Tail(s)[i] = s[i + 1]
           /\ Tail(s) # <<>> <=> Len(s) > 1
           /\ Tail(s) # <<>> => Head(Tail(s)) = s[2]
  <1>1. Len(s) \in Nat /\ Len(s) >= 1 /\ Head(s) = s[1] /\ s[1] \in C
    OBVIOUS
  <1>2. /\ Tail(s) \in Seq(C) /\ Len(Tail(s)) = Len(s) - 1
        /\ \A i \in 1 .. Len(Tail(s)) : Tail(s)[i] = s[i + 1]
    BY HeadTailProperties
  <1> DEFINE t == Tail(s)
  <1> HIDE DEF t
  <1>3. t \in Seq(C) /\ Len(t) = Len(s) - 1 /\ \A i \in 1 .. Len(s) - 1 : t[i] = s[i + 1]
    BY <1>1, <1>2 DEF t
  <1>4. (t # <<>> <=> Len(t) # 0) /\ (t # <<>> => Head(t) = t[1])
    BY <1>3
  <1>5. (t # <<>> <=> Len(s) > 1) /\ (t # <<>> => Head(t) = s[2])
    BY <1>1, <1>3, <1>4
  <1> QED BY <1>1, <1>3, <1>5 DEF t

(* What pushing a construct does to a stack. *)
LEMMA PushFacts ==
    ASSUME NEW C, NEW s, s \in Seq(C), NEW c \in C
    PROVE  /\ <<c>> \o s \in Seq(C) /\ <<c>> \o s # <<>> /\ Len(<<c>> \o s) = Len(s) + 1
           /\ Head(<<c>> \o s) = c /\ Tail(<<c>> \o s) = s /\ (<<c>> \o s)[1] = c
           /\ \A i \in 1 .. Len(s) : (<<c>> \o s)[i + 1] = s[i]
  OBVIOUS

(* With nothing to skip, Skip is the identity. *)
LEMMA SkipStays ==
    ASSUME NEW s, s \in Seq(Constructs), NEW S, s = <<>> \/ Head(s) \notin S
    PROVE  Skip(s, S) = s
  <1>1. PICK n \in 0 .. Len(s) : /\ Skip(s, S) = SubSeq(s, n + 1, Len(s))
                                 /\ \A i \in 1 .. n : s[i] \in S
    BY SkipMeaning
  <1>2. n = 0
    BY <1>1
  <1> QED BY <1>1, <1>2

(* A construct of S on top makes no difference. *)
LEMMA SkipTail ==
    ASSUME NEW s, s \in Seq(Constructs), NEW S, s # <<>>, Head(s) \in S
    PROVE  Skip(s, S) = Skip(Tail(s), S)
  <1>1. PICK n \in 0 .. Len(s) : /\ Skip(s, S) = SubSeq(s, n + 1, Len(s))
                                 /\ \A i \in 1 .. n : s[i] \in S
                                 /\ n < Len(s) => s[n + 1] \notin S
    BY SkipMeaning
  <1> DEFINE t == Tail(s)
  <1>2. /\ t \in Seq(Constructs) /\ Len(t) = Len(s) - 1 /\ Len(s) >= 1 /\ Len(s) \in Nat
        /\ \A i \in 1 .. Len(s) - 1 : t[i] = s[i + 1]
    BY TailFacts
  <1>3. PICK m \in 0 .. Len(t) : /\ Skip(t, S) = SubSeq(t, m + 1, Len(t))
                                 /\ \A i \in 1 .. m : t[i] \in S
                                 /\ m < Len(t) => t[m + 1] \notin S
    BY <1>2, SkipMeaning
  <1>4. n = m + 1
    <2>1. n # 0
      BY <1>1, <1>2
    <2>2. ~(n < m + 1)
      <3>1. SUFFICES ASSUME n < m + 1 PROVE FALSE
        OBVIOUS
      <3>2. n < Len(s) /\ n \in 1 .. m
        BY <1>2, <1>3, <2>1, <3>1
      <3>3. s[n + 1] = t[n]
        BY <1>2, <3>2
      <3> QED BY <1>1, <1>3, <3>2, <3>3
    <2>3. ~(n > m + 1)
      <3>1. SUFFICES ASSUME n > m + 1 PROVE FALSE
        OBVIOUS
      <3>2. m < Len(t) /\ m + 2 \in 1 .. n /\ m + 1 \in 1 .. Len(s) - 1
        BY <1>2, <1>3, <3>1
      <3>3. t[m + 1] = s[m + 2]
        BY <1>2, <3>2
      <3> QED BY <1>1, <1>3, <3>2, <3>3
    <2> QED BY <2>2, <2>3
  <1>5. SubSeq(s, n + 1, Len(s)) = SubSeq(t, m + 1, Len(t))
    BY <1>2, <1>4
  <1> QED BY <1>1, <1>3, <1>5

(* What the grammar allows stays so when something on top is dropped. *)
LEMMA ShapedTail ==
    ASSUME NEW s, Shaped(s), s # <<>>
    PROVE  Shaped(Tail(s)) /\ (Tail(s) # <<>> => Head(Tail(s)) \in Under[Head(s)])
  <1>1. s \in Seq(Constructs)
    BY DEF Shaped
  <1>2. /\ Tail(s) \in Seq(Constructs) /\ Len(Tail(s)) = Len(s) - 1 /\ Len(s) >= 1 /\ Len(s) \in Nat
        /\ \A i \in 1 .. Len(s) - 1 : Tail(s)[i] = s[i + 1]
        /\ Tail(s) # <<>> <=> Len(s) > 1
        /\ Head(s) = s[1] /\ (Tail(s) # <<>> => Head(Tail(s)) = s[2])
    BY <1>1, TailFacts
  <1> DEFINE t == Tail(s)
  <1> HIDE DEF t
  <1>3. ASSUME NEW i \in 1 .. Len(t) - 1 PROVE t[i + 1] \in Under[t[i]]
    <2>1. i + 1 \in 1 .. Len(s) - 1 /\ i \in 1 .. Len(s) - 1 /\ t[i] = s[i + 1] /\ t[i + 1] = s[i + 2]
      BY <1>2 DEF t
    <2>2. s[(i + 1) + 1] \in Under[s[i + 1]]
      BY <2>1 DEF Shaped
    <2> QED BY <2>1, <2>2
  <1>4. t # <<>> => t[Len(t)] = s[Len(s)]
    BY <1>2 DEF t
  <1>5. Shaped(t)
    BY <1>2, <1>3, <1>4 DEF Shaped, t
  <1>6. Tail(s) # <<>> => s[1 + 1] \in Under[s[1]]
    BY <1>2 DEF Shaped
  <1> QED BY <1>2, <1>5, <1>6 DEF t

(* A construct may be pushed on what it may be in. *)
LEMMA ShapedPush ==
    ASSUME NEW s, Shaped(s), NEW c \in Constructs, s # <<>>, Head(s) \in Under[c]
    PROVE  Shaped(<<c>> \o s)
  <1> DEFINE t == <<c>> \o s
  <1>1. s \in Seq(Constructs) /\ Len(s) \in Nat /\ Len(s) >= 1 /\ Head(s) = s[1]
    BY TailFacts DEF Shaped
  <1>2. /\ t \in Seq(Constructs) /\ t # <<>> /\ Len(t) = Len(s) + 1 /\ t[1] = c
        /\ \A i \in 1 .. Len(s) : t[i + 1] = s[i]
    BY <1>1, PushFacts
  <1> HIDE DEF t
  <1>3. ASSUME NEW i \in 1 .. Len(t) - 1 PROVE t[i + 1] \in Under[t[i]]
    <2>1. CASE i = 1
      BY <1>1, <1>2, <2>1
    <2>2. CASE i # 1
      <3>1. i - 1 \in 1 .. Len(s) - 1 /\ i - 1 \in 1 .. Len(s) /\ i \in 1 .. Len(s) /\ (i - 1) + 1 = i
        BY <1>1, <1>2, <2>2
      <3>2. s[(i - 1) + 1] \in Under[s[i - 1]]
        BY <3>1 DEF Shaped
      <3>3. t[i + 1] = s[i] /\ t[(i - 1) + 1] = s[i - 1]
        BY <1>2, <3>1
      <3> QED BY <3>1, <3>2, <3>3
    <2> QED BY <2>1, <2>2
  <1>4. t[Len(t)] = s[Len(s)]
    BY <1>1, <1>2
  <1>5. Shaped(t)
    BY <1>1, <1>2, <1>3, <1>4 DEF Shaped
  <1> QED BY <1>5 DEF t

(* What the grammar allows stays so under Skip, over the same bottom. *)
LEMMA ShapedSkip ==
    ASSUME NEW s, Shaped(s), NEW S
    PROVE  Shaped(Skip(s, S)) /\ (Skip(s, S) # <<>> => s # <<>> /\ Skip(s, S)[Len(Skip(s, S))] = s[Len(s)])
  <1>1. s \in Seq(Constructs) /\ Len(s) \in Nat
    BY DEF Shaped
  <1>2. PICK n \in 0 .. Len(s) : Skip(s, S) = SubSeq(s, n + 1, Len(s))
    BY <1>1, SkipMeaning
  <1> DEFINE t == SubSeq(s, n + 1, Len(s))
  <1>3. /\ t \in Seq(Constructs) /\ Len(t) = Len(s) - n
        /\ \A i \in 1 .. Len(s) - n : t[i] = s[i + n]
    BY <1>1
  <1> HIDE DEF t
  <1>4. ASSUME NEW i \in 1 .. Len(t) - 1 PROVE t[i + 1] \in Under[t[i]]
    <2>1. i \in 1 .. Len(s) - n /\ i + 1 \in 1 .. Len(s) - n /\ i + n \in 1 .. Len(s) - 1 /\ (i + 1) + n = (i + n) + 1
      BY <1>1, <1>3
    <2>2. t[i] = s[i + n] /\ t[i + 1] = s[(i + n) + 1]
      BY <1>3, <2>1
    <2>3. s[(i + n) + 1] \in Under[s[i + n]]
      BY <2>1 DEF Shaped
    <2> QED BY <2>2, <2>3
  <1>5. t # <<>> => s # <<>> /\ t[Len(t)] = s[Len(s)]
    <2>1. t # <<>> => Len(t) # 0
      BY <1>3
    <2> QED BY <1>1, <1>3, <2>1
  <1>6. Shaped(t)
    BY <1>3, <1>4, <1>5 DEF Shaped
  <1> QED BY <1>2, <1>5, <1>6 DEF t

(* Only a definition is in nothing. *)
LEMMA ShapedUnder ==
    ASSUME NEW s, Shaped(s), s # <<>>, Head(s) \notin Definitions
    PROVE  Tail(s) # <<>> /\ Shaped(Tail(s)) /\ Head(Tail(s)) \in Under[Head(s)]
  <1>1. s \in Seq(Constructs) /\ s[Len(s)] \in Definitions
    BY DEF Shaped
  <1>2. Len(s) \in Nat /\ Len(s) >= 1 /\ Head(s) = s[1] /\ (Tail(s) # <<>> <=> Len(s) > 1)
    BY <1>1, TailFacts
  <1>3. Len(s) # 1
    BY <1>1, <1>2
  <1>4. Tail(s) # <<>>
    BY <1>1, <1>2, <1>3
  <1> QED BY <1>4, ShapedTail

(* What encloses a definition are definitions. *)
LEMMA DefinitionsOnly ==
    ASSUME NEW s, Shaped(s), s # <<>>, Head(s) \in Definitions
    PROVE  /\ \A i \in DOMAIN s : s[i] \in Definitions
           /\ Len(s) = 1 \/ (Len(s) = 2 /\ s[1] = "behavior" /\ s[2] = "pattern")
  <1>1. s \in Seq(Constructs) /\ Len(s) \in Nat /\ Len(s) >= 1 /\ Head(s) = s[1] /\ DOMAIN s = 1 .. Len(s)
    BY TailFacts DEF Shaped
  <1>2. CASE Len(s) = 1
    BY <1>1, <1>2
  <1>3. CASE Len(s) > 1
    <2>1. s[1 + 1] \in Under[s[1]]
      BY <1>1, <1>3 DEF Shaped
    <2>2. s[1] = "behavior" /\ s[2] = "pattern"
      BY <1>1, <2>1 DEF Definitions, Under
    <2>3. ASSUME Len(s) > 2 PROVE FALSE
      <3>1. s[2 + 1] \in Under[s[2]]
        BY <1>1, <2>3 DEF Shaped
      <3> QED BY <2>2, <3>1 DEF Under
    <2>4. Len(s) = 2
      BY <1>1, <1>3, <2>3
    <2> QED BY <1>1, <2>2, <2>4 DEF Definitions
  <1> QED BY <1>1, <1>2, <1>3

(* A contract is on top, or below its REQUIRES. *)
LEMMA ContractOnTop ==
    ASSUME NEW s, Shaped(s)
    PROVE  "contract" \in Range(s) <=> s # <<>> /\ Head(s) \in {"contract", "requires"}
  <1>1. s \in Seq(Constructs) /\ Len(s) \in Nat /\ DOMAIN s = 1 .. Len(s) /\ \A i \in 1 .. Len(s) : s[i] \in Constructs
    BY DEF Shaped
  <1>2. s # <<>> => Head(s) = s[1] /\ Len(s) >= 1
    BY <1>1
  <1>3. ASSUME s # <<>>, Head(s) \in {"contract", "requires"}
        PROVE  \E i \in 1 .. Len(s) : s[i] = "contract"
    <2>1. CASE Head(s) = "contract"
      BY <1>1, <1>2, <1>3, <2>1
    <2>2. CASE Head(s) = "requires"
      <3>1. Tail(s) # <<>> /\ Head(Tail(s)) \in Under["requires"]
        BY <1>3, <2>2, ShapedUnder DEF Definitions
      <3>2. Len(s) > 1 /\ Head(Tail(s)) = s[2]
        BY <1>1, <1>3, <3>1, TailFacts
      <3>3. s[2] = "contract"
        BY <3>1, <3>2 DEF Under
      <3> QED BY <1>1, <3>2, <3>3
    <2> QED BY <1>3, <2>1, <2>2
  <1>4. ASSUME NEW i \in 1 .. Len(s), s[i] = "contract"
        PROVE  s # <<>> /\ Head(s) \in {"contract", "requires"}
    <2>1. s # <<>>
      BY <1>1
    <2>2. ASSUME NEW j \in 1 .. Len(s), j > 1, s[j] = "contract" PROVE s[j - 1] = "requires"
      <3>1. j - 1 \in 1 .. Len(s) - 1 /\ (j - 1) + 1 = j /\ j - 1 \in 1 .. Len(s)
        BY <1>1, <2>2
      <3>2. s[j] \in Under[s[j - 1]] /\ s[j - 1] \in Constructs
        BY <1>1, <3>1 DEF Shaped
      <3> QED BY <2>2, <3>2 DEF Under, Constructs, Definitions, OpenEnded, Bodies
    <2>3. ASSUME NEW j \in 1 .. Len(s), j > 1, s[j] = "requires" PROVE FALSE
      <3>1. j - 1 \in 1 .. Len(s) - 1 /\ (j - 1) + 1 = j /\ j - 1 \in 1 .. Len(s)
        BY <1>1, <2>3
      <3>2. s[j] \in Under[s[j - 1]] /\ s[j - 1] \in Constructs
        BY <1>1, <3>1 DEF Shaped
      <3> QED BY <2>3, <3>2 DEF Under, Constructs, Definitions, OpenEnded, Bodies
    <2>4. i = 1 \/ i = 2
      <3>1. SUFFICES ASSUME i > 2 PROVE FALSE
        BY <1>1
      <3>2. i - 1 \in 1 .. Len(s) /\ i - 1 > 1 /\ i > 1
        BY <1>1, <3>1
      <3> QED BY <1>4, <2>2, <2>3, <3>2
    <2>5. i = 2 => s[1] = "requires"
      BY <1>1, <1>4, <2>2
    <2> QED BY <1>2, <1>4, <2>1, <2>4, <2>5
  <1> QED BY <1>1, <1>3, <1>4 DEF Range

(* What is below an open-ended construct, and where Skip leads. *)
LEMMA OpenOnTop ==
    ASSUME NEW s, Shaped(s), s # <<>>, Head(s) \in OpenEnded
    PROVE  LET e == Skip(s, OpenEnded) IN
           /\ e # <<>> /\ Shaped(e) /\ Head(e) \in Definitions
           /\ Tail(s) # <<>> /\ Shaped(Tail(s)) /\ Head(Tail(s)) \in Under[Head(s)]
           /\ Head(s) = "requires" => /\ Head(Tail(s)) = "contract" /\ Head(e) = "behavior"
                                      /\ e = Skip(Tail(s), OpenEnded)
           /\ Head(s) # "requires" => e = Tail(s)
  <1>1. s \in Seq(Constructs) /\ Skip(s, OpenEnded) = Skip(Tail(s), OpenEnded)
    BY SkipTail DEF Shaped
  <1>2. Head(s) \notin Definitions /\ Head(s) \in Constructs
    BY DEF OpenEnded, Definitions, Constructs
  <1>3. Tail(s) # <<>> /\ Shaped(Tail(s)) /\ Head(Tail(s)) \in Under[Head(s)]
    BY <1>2, ShapedUnder
  <1>4. CASE Head(s) # "requires"
    <2>1. Head(Tail(s)) \in Definitions /\ Head(Tail(s)) \notin OpenEnded
      BY <1>3, <1>4 DEF Under, OpenEnded, Definitions
    <2>2. Skip(Tail(s), OpenEnded) = Tail(s)
      BY <1>3, <2>1, SkipStays DEF Shaped
    <2> QED BY <1>1, <1>3, <1>4, <2>1, <2>2
  <1>5. CASE Head(s) = "requires"
    <2> DEFINE t == Tail(s)
    <2>1. Head(t) = "contract"
      BY <1>3, <1>5 DEF Under
    <2> HIDE DEF t
    <2>2. t # <<>> /\ Shaped(t) /\ Head(t) \in OpenEnded /\ Head(t) \notin Definitions /\ t \in Seq(Constructs)
      BY <1>3, <2>1 DEF OpenEnded, Definitions, Shaped, t
    <2>3. Tail(t) # <<>> /\ Shaped(Tail(t)) /\ Head(Tail(t)) \in Under["contract"]
      BY <2>1, <2>2, ShapedUnder
    <2>4. Head(Tail(t)) = "behavior"
      BY <2>3 DEF Under
    <2>5. Head(Tail(t)) \notin OpenEnded /\ Tail(t) \in Seq(Constructs)
      BY <2>3, <2>4 DEF OpenEnded, Shaped
    <2>6. Skip(t, OpenEnded) = Tail(t)
      BY <2>2, <2>5, SkipTail, SkipStays
    <2>7. Skip(s, OpenEnded) = Tail(t) /\ Skip(Tail(s), OpenEnded) = Tail(t)
      BY <1>1, <2>6 DEF t
    <2> QED BY <1>3, <1>5, <2>1, <2>3, <2>4, <2>7 DEF t, Definitions
  <1> QED BY <1>4, <1>5

(* A construct is on top of a stack or below. *)
LEMMA RangeTail ==
    ASSUME NEW s, s \in Seq(Constructs), s # <<>>, NEW c
    PROVE  c \in Range(s) <=> Head(s) = c \/ c \in Range(Tail(s))
  <1>1. /\ Len(s) \in Nat /\ Len(s) >= 1 /\ Head(s) = s[1] /\ Tail(s) \in Seq(Constructs)
        /\ Len(Tail(s)) = Len(s) - 1 /\ \A i \in 1 .. Len(s) - 1 : Tail(s)[i] = s[i + 1]
    BY TailFacts
  <1>2. DOMAIN s = 1 .. Len(s) /\ DOMAIN Tail(s) = 1 .. Len(s) - 1
    BY <1>1
  <1>3. ASSUME NEW i \in 1 .. Len(s), s[i] = c PROVE Head(s) = c \/ c \in Range(Tail(s))
    <2>1. CASE i = 1
      BY <1>1, <1>3, <2>1
    <2>2. CASE i # 1
      <3>1. i - 1 \in 1 .. Len(s) - 1 /\ (i - 1) + 1 = i
        BY <1>1, <2>2
      <3>2. Tail(s)[i - 1] = c
        BY <1>1, <1>3, <3>1
      <3> QED BY <1>2, <3>1, <3>2 DEF Range
    <2> QED BY <2>1, <2>2
  <1>4. ASSUME c \in Range(Tail(s)) PROVE c \in Range(s)
    <2>1. PICK i \in 1 .. Len(s) - 1 : Tail(s)[i] = c
      BY <1>2, <1>4 DEF Range
    <2>2. i + 1 \in 1 .. Len(s) /\ s[i + 1] = c
      BY <1>1, <2>1
    <2> QED BY <1>2, <2>2 DEF Range
  <1>5. Head(s) = c => c \in Range(s)
    BY <1>1, <1>2 DEF Range
  <1> QED BY <1>2, <1>3, <1>4, <1>5 DEF Range

(* Ranks and stacks. *)
LEMMA RankedTail ==
    ASSUME NEW s, s \in Seq(Constructs), s # <<>>, NEW r, Ranked(s, r)
    PROVE  Ranked(Tail(s), r)
  <1>1. /\ Len(s) \in Nat /\ Tail(s) \in Seq(Constructs)
        /\ Len(Tail(s)) = Len(s) - 1 /\ \A i \in 1 .. Len(s) - 1 : Tail(s)[i] = s[i + 1]
    BY TailFacts
  <1>2. DOMAIN s = 1 .. Len(s) /\ DOMAIN Tail(s) = 1 .. Len(s) - 1
    BY <1>1
  <1>3. ASSUME NEW i \in 1 .. Len(s) - 1, Tail(s)[i] \notin Definitions \cup {"scope"} PROVE r = RankIn[Tail(s)[i]]
    <2>1. i + 1 \in DOMAIN s /\ Tail(s)[i] = s[i + 1]
      BY <1>1, <1>2
    <2> QED BY <1>3, <2>1 DEF Ranked
  <1> QED BY <1>2, <1>3 DEF Ranked

(* The section just begun has the rank just reached. *)
LEMMA RankedPush ==
    ASSUME NEW s, s \in Seq(Constructs), NEW r, Ranked(s, r), NEW c \in Constructs,
           c \notin Definitions \cup {"scope"} => r = RankIn[c]
    PROVE  Ranked(<<c>> \o s, r)
  <1> DEFINE t == <<c>> \o s
  <1>1. /\ t \in Seq(Constructs) /\ Len(t) = Len(s) + 1 /\ t[1] = c /\ Len(s) \in Nat
        /\ \A i \in 1 .. Len(s) : t[i + 1] = s[i]
    BY PushFacts
  <1>2. DOMAIN t = 1 .. Len(s) + 1 /\ DOMAIN s = 1 .. Len(s)
    BY <1>1
  <1> HIDE DEF t
  <1>3. ASSUME NEW i \in 1 .. Len(s) + 1, t[i] \notin Definitions \cup {"scope"} PROVE r = RankIn[t[i]]
    <2>1. CASE i = 1
      BY <1>1, <1>3, <2>1
    <2>2. CASE i # 1
      <3>1. i - 1 \in 1 .. Len(s) /\ (i - 1) + 1 = i
        BY <1>1, <2>2
      <3>2. t[i] = s[i - 1] /\ i - 1 \in DOMAIN s
        BY <1>1, <1>2, <3>1
      <3> QED BY <1>3, <3>2 DEF Ranked
    <2> QED BY <2>1, <2>2
  <1>4. Ranked(t, r)
    BY <1>2, <1>3 DEF Ranked
  <1> QED BY <1>4 DEF t

(* Between two sections every rank will do. *)
LEMMA RankedDefinitions ==
    ASSUME NEW s, Shaped(s), s = <<>> \/ Head(s) \in Definitions, NEW r
    PROVE  Ranked(s, r)
  <1>1. s \in Seq(Constructs)
    BY DEF Shaped
  <1>2. \A i \in DOMAIN s : s[i] \in Definitions
    BY <1>1, DefinitionsOnly
  <1> QED BY <1>2 DEF Ranked

-----------------------------------------------------------------------------
(* References *)

(* Leading zeros that the lexer drops are filled in (expect_hex_string). *)
LEMMA HexStringKept ==
    ASSUME NEW p \in Pin
    PROVE  HexString(p) = p
  <1>1. /\ p = [zeros |-> p.zeros, digits |-> p.digits, letters |-> p.letters]
        /\ p.zeros \in Nat /\ p.digits \in Nat /\ p.letters \in Nat
        /\ HashLength \in Nat /\ p.zeros + p.digits + p.letters = HashLength
    BY FrontEndAssumption DEF Pin
  <1> DEFINE z == IF p.zeros > 0 /\ p.digits = 0 THEN 1 ELSE 0
  <1>2. Shortened(p) = [zeros |-> z, digits |-> p.digits, letters |-> p.letters]
    BY <1>1 DEF Shortened
  <1>3. z \in Nat /\ z <= p.zeros
    BY <1>1
  <1> HIDE DEF z
  <1>4. CASE z + p.digits + p.letters < HashLength
    <2>1. HexString(p) = [zeros |-> z + HashLength - (z + p.digits + p.letters), digits |-> p.digits, letters |-> p.letters]
      BY <1>2, <1>4 DEF HexString
    <2>2. z + HashLength - (z + p.digits + p.letters) = p.zeros
      BY <1>1, <1>3
    <2> QED BY <1>1, <2>1, <2>2
  <1>5. CASE ~(z + p.digits + p.letters < HashLength)
    <2>1. HexString(p) = [zeros |-> z, digits |-> p.digits, letters |-> p.letters]
      BY <1>2, <1>5 DEF HexString
    <2>2. z = p.zeros
      BY <1>1, <1>3, <1>5
    <2> QED BY <1>1, <2>1, <2>2
  <1> QED BY <1>4, <1>5

(* parse_behavior_refs keeps the references, unless a name is swallowed. *)
LEMMA RefsKept ==
    ASSUME NEW refs \in Seq(PinnedRef)
    PROVE  LET r == BehaviorRefs(refs).refs IN
           /\ Len(r) \in Nat /\ Len(r) <= Len(refs)
           /\ IF Swallowed(refs) = {} THEN r = refs ELSE Len(r) < Len(refs)
  <1> DEFINE kept == DOMAIN refs \ Swallowed(refs)
             value(i) == IF i + 1 \in Swallowed(refs) THEN <<"too long">>
                         ELSE [k \in DOMAIN refs[i].pin |-> HexString(refs[i].pin[k])]
             ref(i) == [name |-> refs[i].name, pin |-> value(i)]
             r == [k \in 1 .. Cardinality(kept) |-> ref(Nth(kept, k))]
             n == Len(refs)
  <1>1. BehaviorRefs(refs).refs = r
    BY DEF BehaviorRefs
  <1>2. n \in Nat /\ DOMAIN refs = 1 .. n /\ IsFiniteSet(1 .. n) /\ Cardinality(1 .. n) = n
    <2>1. n \in Nat /\ DOMAIN refs = 1 .. n
      OBVIOUS
    <2> HIDE DEF n
    <2>2. IsFiniteSet(1 .. n) /\ Cardinality(1 .. n) = IF 1 > n THEN 0 ELSE n - 1 + 1
      BY <2>1, FS_Interval
    <2> QED BY <2>1, <2>2
  <1>3. /\ IsFiniteSet(kept) /\ Cardinality(kept) \in Nat /\ Cardinality(kept) <= n
        /\ Cardinality(kept) = n => kept = 1 .. n
    <2>1. kept \in SUBSET (1 .. n)
      BY <1>2
    <2> HIDE DEF kept, n
    <2> QED BY <1>2, <2>1, FS_Subset, FS_CardinalityType
  <1>4. Len(r) = Cardinality(kept)
    BY <1>3
  <1>5. ASSUME Swallowed(refs) # {} PROVE Cardinality(kept) # n
    <2>1. Swallowed(refs) \subseteq DOMAIN refs
      BY DEF Swallowed
    <2>2. kept # 1 .. n
      BY <1>2, <1>5, <2>1
    <2> QED BY <1>3, <2>2
  <1>6. ASSUME Swallowed(refs) = {} PROVE r = refs
    <2>1. kept = 1 .. n
      BY <1>2, <1>6
    <2>2. ASSUME NEW k \in 1 .. n PROVE Nth(kept, k) = k
      <3>1. ASSUME NEW i \in 1 .. n PROVE Cardinality({j \in kept : j <= i}) = i
        <4>1. {j \in kept : j <= i} = 1 .. i
          BY <1>2, <2>1
        <4>2. Cardinality(1 .. i) = i
          BY <1>2, FS_Interval
        <4> QED BY <4>1, <4>2
      <3>2. \A i \in kept : Cardinality({j \in kept : j <= i}) = k <=> i = k
        BY <2>1, <3>1
      <3> QED BY <2>1, <3>2 DEF Nth
    <2>3. ASSUME NEW k \in 1 .. n PROVE value(k) = refs[k].pin
      <3> DEFINE q == refs[k].pin
      <3>1. refs[k] \in PinnedRef
        BY ElementOfSeq
      <3>2. q \in Seq(Pin)
        BY <3>1 DEF PinnedRef
      <3>3. value(k) = [m \in DOMAIN q |-> HexString(q[m])]
        BY <1>6
      <3> HIDE DEF q, value
      <3>4. \A m \in DOMAIN q : HexString(q[m]) = q[m]
        BY <3>2, HexStringKept
      <3>5. value(k) = [m \in DOMAIN q |-> q[m]]
        BY <3>3, <3>4
      <3>6. [m \in DOMAIN q |-> q[m]] = q
        BY <3>2
      <3> QED BY <3>5, <3>6 DEF q
    <2>4. ASSUME NEW k \in 1 .. n PROVE ref(Nth(kept, k)) = refs[k]
      <3>1. refs[k] \in PinnedRef
        BY ElementOfSeq
      <3>2. refs[k] = [name |-> refs[k].name, pin |-> refs[k].pin]
        BY <3>1 DEF PinnedRef
      <3> HIDE DEF value
      <3> QED BY <2>2, <2>3, <3>2
    <2> HIDE DEF ref
    <2>5. r = [k \in 1 .. n |-> refs[k]]
      <3>1. Cardinality(kept) = n
        BY <1>2, <2>1
      <3> QED BY <2>4, <3>1
    <2>6. [k \in 1 .. n |-> refs[k]] = refs
      BY <1>2
    <2> QED BY <2>5, <2>6
  <1> HIDE DEF r, kept, n
  <1>7. Len(refs) = n
    BY DEF n
  <1> QED BY <1>1, <1>2, <1>3, <1>4, <1>5, <1>6, <1>7

(* The author's slips are what the parser stumbles over. *)
LEMMA SlipsFound ==
    ASSUME NEW refs \in Seq(PinnedRef)
    PROVE  /\ PinSlips(refs) \subseteq {"pin", "pinned"}
           /\ "pin" \in PinSlips(refs) <=> Swallowed(refs) # {}
           /\ "pinned" \in PinSlips(refs) <=> BehaviorRefs(refs).stuck
  <1>1. Len(refs) \in Nat /\ DOMAIN refs = 1 .. Len(refs)
    OBVIOUS
  <1>2. \A i \in DigitsBeforeHex(refs) : i + 1 \in Swallowed(refs)
    BY <1>1 DEF DigitsBeforeHex, Swallowed
  <1>3. ASSUME NEW i \in Swallowed(refs) PROVE i - 1 \in DigitsBeforeHex(refs) /\ (i - 1) + 1 = i
    BY <1>1 DEF DigitsBeforeHex, Swallowed
  <1>4. BehaviorRefs(refs).stuck <=> \E i \in Swallowed(refs) : refs[i].pin # <<>>
    BY DEF BehaviorRefs
  <1>5. (\E i \in DigitsBeforeHex(refs) : refs[i + 1].pin # <<>>) <=> \E i \in Swallowed(refs) : refs[i].pin # <<>>
    BY <1>2, <1>3
  <1>6. DigitsBeforeHex(refs) # {} <=> Swallowed(refs) # {}
    BY <1>2, <1>3
  <1> QED BY <1>4, <1>5, <1>6 DEF PinSlips

-----------------------------------------------------------------------------
(* How the parser goes on *)

(* The line has been read, and the parser is where the author is. *)
LEMMA DoneStep ==
    ASSUME Good, status = "reading", line # NoLine, lexed,
           UNCHANGED <<avars, lexed, inDesc>>, status' = status, line' = NoLine, calls' = author,
           line.word # "EOF",
           ~(line.word = "stmt" /\ line.extra = "string" /\ "indented" \in slips),
           ~(line.word \in {"REQUIRES", "ref"} /\ BehaviorRefs(line.items).stuck),
           IsContract(parsed'),
           Inside \in {"contract", "requires"} => parsed' = ParsedAfter(line, parsed)
    PROVE  Good'
  <1> USE DEF avars
  <1>0. NoLine.word = "none" /\ NoLine.extra = "none" /\ NoLine = Line("none", "none", "none", <<>>, FALSE) /\ NoLine.indent = FALSE
        /\ NoLine.tail = "none" /\ NoLine.items = <<>>
    BY DEF NoLine, Line
  <1>1. Typed'
    BY <1>0 DEF Good, Typed, IsContract
  <1>2. Ranked(author, rank)' /\ Nested'
    BY DEF Good, Nested, Inside, Ranked
  <1>3. Following'
    BY DEF Following
  <1>4. Lexing'
    BY <1>0 DEF Good, Lexing, Described, Inside
  <1>5. Slipping'
    BY <1>0 DEF Good, Slipping
  <1>6. Agreeing'
    <2>1. ParsedAfter(line, parsed)' = parsed'
      BY <1>0 DEF ParsedAfter
    <2> QED BY <2>1 DEF Good, Agreeing, Inside
  <1>7. RejectedExactly'
    BY DEF RejectedExactly
  <1> QED BY <1>1, <1>2, <1>3, <1>4, <1>5, <1>6, <1>7 DEF Good

(* A function returned and left the line to its caller. *)
LEMMA KeepStep ==
    ASSUME Good, status = "reading", line # NoLine, lexed,
           UNCHANGED <<avars, line, lexed, inDesc>>, status' = status,
           Shaped(calls'), Fits(line, calls', author), IsContract(parsed'),
           Inside \in {"contract", "requires"} /\ line.word # "EOF" => ParsedAfter(line, parsed') = ParsedAfter(line, parsed)
    PROVE  Good'
  <1> USE DEF avars
  <1>1. Typed'
    BY DEF Good, Typed, IsContract
  <1>2. Ranked(author, rank)' /\ Nested'
    BY DEF Good, Nested, Inside, Ranked
  <1>3. Following'
    BY DEF Following
  <1>4. Lexing'
    BY DEF Good, Lexing, Described, Inside
  <1>5. Slipping'
    BY DEF Good, Slipping
  <1>6. Agreeing'
    <2>1. Inside' = Inside
      BY DEF Inside
    <2>2. ParsedAfter(line, parsed)' = ParsedAfter(line, parsed')
      OBVIOUS
    <2> QED BY <2>1, <2>2 DEF Good, Agreeing
  <1>7. RejectedExactly'
    BY DEF RejectedExactly
  <1> QED BY <1>1, <1>2, <1>3, <1>4, <1>5, <1>6, <1>7 DEF Good

(* A file is rejected for one of the reasons. *)
LEMMA RejectStep ==
    ASSUME Good, status = "reading", UNCHANGED <<avars, line, calls, parsed>>, status' = "rejected",
           lexed' \in BOOLEAN, inDesc' \in BOOLEAN,
           \/ slips \cap {"number", "literal", "pinned"} # {}
           \/ "cut" \in slips /\ "behavior" \in Range(author)
    PROVE  Good'
  <1> USE DEF avars
  <1>1. Typed'
    BY DEF Good, Typed, IsContract
  <1>2. Ranked(author, rank)' /\ Nested'
    BY DEF Good, Nested, Inside, Ranked
  <1>3. Following' /\ Lexing' /\ Slipping'
    BY DEF Following, Lexing, Slipping
  <1>4. Agreeing'
    BY DEF Good, Agreeing, Inside
  <1>5. RejectedExactly'
    BY DEF RejectedExactly, Range
  <1> QED BY <1>1, <1>2, <1>3, <1>4, <1>5 DEF Good

(* At a section word every open-ended construct returns. *)
LEMMA SectionPop ==
    ASSUME NEW l, NEW s, NEW a, Shaped(s), s # <<>>, Head(s) \in OpenEnded, Section(l, s, a)
    PROVE  Shaped(Tail(s)) /\ Section(l, Tail(s), a) /\ Leaves(l.word, Head(s))
  <1>1. Skip(s, OpenEnded) = Skip(Tail(s), OpenEnded)
    BY SkipTail DEF Shaped
  <1>2. /\ Tail(s) # <<>> /\ Shaped(Tail(s))
        /\ Head(s) = "requires" => Head(Tail(s)) = "contract"
        /\ Head(s) # "requires" => Head(Tail(s)) \in Definitions
    BY OpenOnTop
  <1>3. Leaves(l.word, Head(s)) /\ (Head(s) = "requires" => Leaves(l.word, "contract"))
    BY DEF Section
  <1>4. Head(Tail(s)) \in OpenEnded => Head(s) = "requires" /\ Head(Tail(s)) = "contract"
    BY <1>2 DEF OpenEnded, Definitions
  <1>5. Head(Tail(s)) \in OpenEnded => Leaves(l.word, Head(Tail(s))) /\ Head(Tail(s)) # "requires"
    BY <1>3, <1>4
  <1> QED BY <1>1, <1>2, <1>3, <1>5 DEF Section

(* At the end of the file everything but a behavior returns. *)
LEMMA EofPop ==
    ASSUME NEW l, NEW s, NEW a, Shaped(s), s # <<>>, Head(s) # "behavior", Eof(l, s, a)
    PROVE  Shaped(Tail(s)) /\ Eof(l, Tail(s), a)
  <1>1. "behavior" \in Range(s) <=> "behavior" \in Range(Tail(s))
    BY RangeTail DEF Shaped
  <1> QED BY <1>1, ShapedTail DEF Eof

(* At END every scope returns, and a body leaves it to its behavior. *)
LEMMA EndPop ==
    ASSUME NEW l, NEW s, NEW a, Shaped(s), s # <<>>, Head(s) \in {"scope", "body"}, Ending(l, s, a)
    PROVE  Shaped(Tail(s)) /\ Ending(l, Tail(s), a)
  <1>1. Tail(s) # <<>> /\ Shaped(Tail(s)) /\ Head(Tail(s)) \in Under[Head(s)] /\ s \in Seq(Constructs)
    BY ShapedUnder DEF Definitions, Shaped
  <1>2. CASE Head(s) = "scope"
    <2>1. Skip(s, {"scope"}) = Skip(Tail(s), {"scope"})
      BY <1>1, <1>2, SkipTail
    <2> QED BY <1>1, <2>1 DEF Ending
  <1>3. CASE Head(s) = "body"
    <2>1. Skip(s, {"scope"}) = s
      BY <1>1, <1>3, SkipStays
    <2>2. Head(Tail(s)) = "behavior"
      BY <1>1, <1>3 DEF Under
    <2>3. Skip(Tail(s), {"scope"}) = Tail(s)
      <3>1. Tail(s) \in Seq(Constructs)
        BY <1>1 DEF Shaped
      <3> DEFINE t == Tail(s)
      <3>2. t \in Seq(Constructs) /\ Head(t) \notin {"scope"}
        BY <2>2, <3>1
      <3> HIDE DEF t
      <3>3. Skip(t, {"scope"}) = t
        BY <3>2, SkipStays
      <3> QED BY <3>3 DEF t
    <2>4. a = AfterEnd(s) /\ AfterEnd(s) = Tail(Tail(s)) /\ AfterEnd(Tail(s)) = Tail(Tail(s))
      BY <1>3, <2>1, <2>2 DEF Ending, AfterEnd
    <2> QED BY <1>1, <2>2, <2>3, <2>4 DEF Ending
  <1> QED BY <1>2, <1>3

(* Which lines there are for the function that is running. *)
LEMMA FitsAt ==
    ASSUME NEW l, NEW s, NEW a, Shaped(s), s # <<>>, Fits(l, s, a), ~Eof(l, s, a)
    PROVE  /\ Head(s) = "description" => Section(l, s, a) \/ Text(l, s, a)
           /\ Head(s) \in {"contract", "requires"} => Section(l, s, a) \/ Clause(l, s, a)
           /\ Head(s) \in {"scope", "body", "platform"} => Statement(l, s, a) \/ Ending(l, s, a)
           /\ Head(s) \in {"on_create", "on_destroy", "entry"} => Section(l, s, a) \/ Statement(l, s, a)
           /\ Head(s) = "memory" => Section(l, s, a) \/ Declaration(l, s, a)
           /\ Head(s) = "behavior" => Section(l, s, a) \/ Ending(l, s, a)
           /\ Head(s) \in {"pattern", "executable"} => Section(l, s, a)
  <1>1. s \in Seq(Constructs)
    BY DEF Shaped
  <1>2. ASSUME Head(s) \in {"scope", "body", "platform"}, Section(l, s, a) PROVE FALSE
    <2>1. Skip(s, OpenEnded) = s
      BY <1>1, <1>2, SkipStays DEF OpenEnded
    <2> QED BY <1>2, <2>1 DEF Section, Definitions
  <1>3. ASSUME Head(s) # "scope", Ending(l, s, a) PROVE Head(s) \in {"body", "platform", "behavior"}
    <2>1. Skip(s, {"scope"}) = s
      BY <1>1, <1>3, SkipStays
    <2> QED BY <1>3, <2>1 DEF Ending
  <1>4. Clause(l, s, a) => Head(s) \in {"contract", "requires"}
    BY DEF Clause
  <1>5. Text(l, s, a) => Head(s) = "description"
    BY DEF Text
  <1>6. Declaration(l, s, a) => Head(s) = "memory"
    BY DEF Declaration
  <1>7. Statement(l, s, a) => Head(s) \in {"scope", "body", "platform", "on_create", "on_destroy", "entry"}
    BY DEF Statement, Bodies
  <1>8. /\ Section(l, s, a) \/ Clause(l, s, a) \/ Text(l, s, a) \/ Declaration(l, s, a) \/ Statement(l, s, a) \/ Ending(l, s, a)
    BY DEF Fits
  <1> QED BY <1>2, <1>3, <1>4, <1>5, <1>6, <1>7, <1>8

(* A section of the definition that is running. *)
LEMMA SectionAt ==
    ASSUME NEW l, NEW s, NEW a, Shaped(s), s # <<>>, Head(s) \in Definitions, Section(l, s, a)
    PROVE  /\ l.word \in DOMAIN Rank[Head(s)] /\ a = AfterSection(l.word, l.extra = "platform", s)
           /\ l.tail = CASE l.word = "HASH" -> "pin" [] l.word = "USES" -> "path" [] OTHER -> "none"
           /\ l.extra = "platform" => l.word = "IMPLEMENTATION"
  <1>1. Skip(s, OpenEnded) = s
    BY SkipStays DEF Definitions, OpenEnded, Shaped
  <1> QED BY <1>1 DEF Section

(* What is known when a function runs. *)
LEMMA RunFacts ==
    ASSUME Good, NEW f, Running(f)
    PROVE  /\ status = "reading" /\ lexed /\ line # NoLine /\ calls # <<>> /\ Head(calls) = f
           /\ Shaped(calls) /\ Shaped(author) /\ Fits(line, calls, author) /\ calls \in Seq(Constructs)
           /\ IsContract(parsed)
           /\ line.word # "EOF" => (inDesc <=> (Inside = "description" \/ "indented" \in slips))
  BY DEF Good, Running, Typed, Following, Lexing, Described, Shaped

-----------------------------------------------------------------------------
(* The functions of the parser *)

(* A statement, read by parse_node. *)
LEMMA NodeKeeps ==
    ASSUME Good, NEW f, Running(f), Statement(line, calls, author), line.word # "END_SCOPE", ParseNode
    PROVE  Good'
  <1>1. /\ status = "reading" /\ lexed /\ line # NoLine /\ calls # <<>> /\ Head(calls) \in Bodies
        /\ Shaped(calls) /\ IsContract(parsed)
        /\ line.word # "EOF" => (inDesc <=> (Inside = "description" \/ "indented" \in slips))
    BY RunFacts DEF Statement
  <1>2. CASE line.word = "stmt"
    <2>1. author = calls /\ Inside # "description"
      BY <1>1, <1>2 DEF Statement, Inside, Bodies
    <2>2. inDesc <=> "indented" \in slips
      BY <1>1, <1>2, <2>1
    <2>3. CASE line.extra = "string" /\ inDesc
      <3>1. Reject
        BY <1>2, <2>3 DEF ParseNode
      <3>2. "literal" \in slips
        BY <1>1, <1>2, <2>2, <2>3 DEF Good, Slipping
      <3>3. lexed' \in BOOLEAN /\ inDesc' \in BOOLEAN
        BY <3>1 DEF Reject, Good, Typed
      <3> QED BY <1>1, <3>1, <3>2, <3>3, RejectStep DEF Reject
    <2>4. CASE ~(line.extra = "string" /\ inDesc)
      <3>1. Read(NoLine) /\ UNCHANGED <<calls, parsed>>
        BY <1>2, <2>4 DEF ParseNode
      <3>2. ParsedAfter(line, parsed) = parsed
        BY <1>2 DEF ParsedAfter
      <3>3. UNCHANGED <<avars, lexed, inDesc>> /\ status' = status /\ line' = NoLine /\ calls' = author /\ parsed' = parsed
        BY <2>1, <3>1 DEF Read
      <3>4. IsContract(parsed')
        BY <1>1, <3>3
      <3>5. ~(line.word = "stmt" /\ line.extra = "string" /\ "indented" \in slips)
        BY <2>2, <2>4
      <3> QED BY <1>1, <1>2, <3>2, <3>3, <3>4, <3>5, DoneStep
    <2> QED BY <2>3, <2>4
  <1>3. CASE line.word = "SCOPE"
    <2>1. calls' = <<"scope">> \o calls /\ Read(NoLine) /\ parsed' = parsed
      BY <1>3 DEF ParseNode, Call
    <2>2. author = <<"scope">> \o calls
      BY <1>3 DEF Statement
    <2>3. ParsedAfter(line, parsed) = parsed
      BY <1>3 DEF ParsedAfter
    <2>4. UNCHANGED <<avars, lexed, inDesc>> /\ status' = status /\ line' = NoLine /\ calls' = author
      BY <2>1, <2>2 DEF Read
    <2>5. IsContract(parsed')
      BY <1>1, <2>1
    <2> QED BY <1>1, <1>3, <2>1, <2>3, <2>4, <2>5, DoneStep
  <1> QED BY <1>2, <1>3 DEF Statement

(* parse_description returns at a section word or at the end of the file,  *)
(* and reads any other line.                                               *)
LEMMA DescriptionKeeps ==
    ASSUME Good, ParseDescription
    PROVE  Good'
  <1>1. Running("description")
    BY DEF ParseDescription
  <1>2. /\ status = "reading" /\ lexed /\ line # NoLine /\ calls # <<>> /\ Head(calls) = "description"
        /\ Shaped(calls) /\ Fits(line, calls, author) /\ IsContract(parsed)
    BY <1>1, RunFacts
  <1>3. ASSUME line.word \in SectionWords \cup {"EOF"}, Shaped(Tail(calls)), Fits(line, Tail(calls), author)
        PROVE  Good'
    <2>1. calls' = Tail(calls) /\ Read(line) /\ parsed' = parsed
      BY <1>3 DEF ParseDescription, Return, Keep
    <2> QED BY <1>2, <1>3, <2>1, KeepStep DEF Read
  <1>4. CASE Eof(line, calls, author)
    <2>1. Shaped(Tail(calls)) /\ Eof(line, Tail(calls), author)
      BY <1>2, <1>4, EofPop
    <2> QED BY <1>3, <1>4, <2>1 DEF Eof, Fits
  <1>5. CASE Section(line, calls, author)
    <2>1. Shaped(Tail(calls)) /\ Section(line, Tail(calls), author) /\ Leaves(line.word, "description")
      BY <1>2, <1>5, SectionPop DEF OpenEnded
    <2>2. line.word \in SectionWords
      BY <2>1 DEF Leaves, PatternEnd
    <2> QED BY <1>3, <2>1, <2>2 DEF Fits
  <1>6. CASE Text(line, calls, author)
    <2>1. line.word = "plain" /\ author = calls
      BY <1>6 DEF Text
    <2>2. Read(NoLine) /\ UNCHANGED calls /\ parsed' = parsed
      BY <2>1 DEF ParseDescription, SectionWords
    <2>3. ParsedAfter(line, parsed) = parsed
      BY <2>1 DEF ParsedAfter
    <2> QED BY <1>2, <2>1, <2>2, <2>3, DoneStep DEF Read
  <1> QED BY <1>2, <1>4, <1>5, <1>6, FitsAt

(* parse_scope returns at END_SCOPE, and leaves END to its caller. *)
LEMMA ScopeKeeps ==
    ASSUME Good, ParseScope
    PROVE  Good'
  <1>1. Running("scope")
    BY DEF ParseScope
  <1>2. /\ status = "reading" /\ lexed /\ line # NoLine /\ calls # <<>> /\ Head(calls) = "scope"
        /\ Shaped(calls) /\ Fits(line, calls, author) /\ IsContract(parsed)
    BY <1>1, RunFacts
  <1>3. ASSUME line.word \in {"END", "EOF"}, Shaped(Tail(calls)), Fits(line, Tail(calls), author)
        PROVE  Good'
    <2>1. calls' = Tail(calls) /\ Read(line) /\ parsed' = parsed
      BY <1>3 DEF ParseScope, Return, Keep
    <2> QED BY <1>2, <1>3, <2>1, KeepStep DEF Read
  <1>4. CASE Eof(line, calls, author)
    <2>1. Shaped(Tail(calls)) /\ Eof(line, Tail(calls), author)
      BY <1>2, <1>4, EofPop
    <2> QED BY <1>3, <1>4, <2>1 DEF Eof, Fits
  <1>5. CASE Ending(line, calls, author)
    <2>1. Shaped(Tail(calls)) /\ Ending(line, Tail(calls), author)
      BY <1>2, <1>5, EndPop
    <2> QED BY <1>3, <1>5, <2>1 DEF Fits, Ending
  <1>6. CASE Statement(line, calls, author)
    <2>1. CASE line.word = "END_SCOPE"
      <3>1. author = Tail(calls) /\ calls' = Tail(calls) /\ Read(NoLine) /\ parsed' = parsed
        BY <1>6, <2>1 DEF ParseScope, Return, Statement
      <3>2. ParsedAfter(line, parsed) = parsed
        BY <2>1 DEF ParsedAfter
      <3> QED BY <1>2, <2>1, <3>1, <3>2, DoneStep DEF Read
    <2>2. CASE line.word # "END_SCOPE"
      <3>1. line.word \in {"stmt", "SCOPE"}
        BY <1>6, <2>2 DEF Statement
      <3>2. ParseNode
        BY <3>1 DEF ParseScope
      <3> QED BY <1>1, <1>6, <2>2, <3>2, NodeKeeps
    <2> QED BY <2>1, <2>2
  <1> QED BY <1>2, <1>4, <1>5, <1>6, FitsAt

(* A body returns at END; one for a platform reads it (parse_behavior). *)
LEMMA ImplementationKeeps ==
    ASSUME Good, ParseImplementation
    PROVE  Good'
  <1>1. PICK f \in {"body", "platform"} : Running(f)
    BY DEF ParseImplementation
  <1>2. /\ status = "reading" /\ lexed /\ line # NoLine /\ calls # <<>> /\ Head(calls) = f
        /\ Shaped(calls) /\ Fits(line, calls, author) /\ IsContract(parsed)
    BY <1>1, RunFacts
  <1>3. ASSUME line.word = "EOF" \/ (line.word = "END" /\ f = "body"), Shaped(Tail(calls)), Fits(line, Tail(calls), author)
        PROVE  Good'
    <2>1. calls' = Tail(calls) /\ Read(line) /\ parsed' = parsed
      BY <1>2, <1>3 DEF ParseImplementation, Return
    <2> QED BY <1>2, <1>3, <2>1, KeepStep DEF Read
  <1>4. CASE Eof(line, calls, author)
    <2>1. Shaped(Tail(calls)) /\ Eof(line, Tail(calls), author)
      BY <1>2, <1>4, EofPop
    <2> QED BY <1>3, <1>4, <2>1 DEF Eof, Fits
  <1>5. CASE Ending(line, calls, author)
    <2>1. line.word = "END"
      BY <1>5 DEF Ending
    <2>2. CASE f = "body"
      <3>1. Shaped(Tail(calls)) /\ Ending(line, Tail(calls), author)
        BY <1>2, <1>5, <2>2, EndPop
      <3> QED BY <1>3, <2>1, <2>2, <3>1 DEF Fits
    <2>3. CASE f = "platform"
      <3>1. calls \in Seq(Constructs)
        BY <1>2 DEF Shaped
      <3>2. Skip(calls, {"scope"}) = calls
        BY <1>2, <2>3, <3>1, SkipStays
      <3>3. author = Tail(calls)
        BY <1>2, <1>5, <2>3, <3>2 DEF Ending, AfterEnd
      <3>4. calls' = Tail(calls) /\ Read(NoLine) /\ parsed' = parsed
        BY <1>2, <2>1, <2>3 DEF ParseImplementation, Return
      <3>5. ParsedAfter(line, parsed) = parsed
        BY <2>1 DEF ParsedAfter
      <3> QED BY <1>2, <2>1, <3>3, <3>4, <3>5, DoneStep DEF Read
    <2> QED BY <2>2, <2>3
  <1>6. CASE Statement(line, calls, author)
    <2>1. line.word \in {"stmt", "SCOPE"}
      BY <1>2, <1>6 DEF Statement
    <2>2. ParseNode
      BY <2>1 DEF ParseImplementation
    <2> QED BY <1>1, <1>6, <2>1, <2>2, NodeKeeps
  <1> QED BY <1>2, <1>4, <1>5, <1>6, FitsAt

(* ON_CREATE, ON_DESTROY and ENTRY return at the next section. *)
LEMMA StatementsKeep ==
    ASSUME Good, ParseStatements
    PROVE  Good'
  <1>1. PICK f \in {"on_create", "on_destroy", "entry"} : Running(f)
    BY DEF ParseStatements, PatternEnd
  <1>2. /\ status = "reading" /\ lexed /\ line # NoLine /\ calls # <<>> /\ Head(calls) = f
        /\ Shaped(calls) /\ Fits(line, calls, author) /\ IsContract(parsed)
    BY <1>1, RunFacts
  <1>3. ASSUME line.word \in PatternEnd[f], Shaped(Tail(calls)), Fits(line, Tail(calls), author)
        PROVE  Good'
    <2>1. calls' = Tail(calls) /\ Read(line) /\ parsed' = parsed
      BY <1>2, <1>3 DEF ParseStatements, Return, Keep
    <2> QED BY <1>2, <1>3, <2>1, KeepStep DEF Read
  <1>4. CASE Eof(line, calls, author)
    <2>1. Shaped(Tail(calls)) /\ Eof(line, Tail(calls), author)
      BY <1>2, <1>4, EofPop
    <2>2. line.word \in PatternEnd[f]
      BY <1>4 DEF Eof, PatternEnd
    <2> QED BY <1>3, <2>1, <2>2 DEF Fits
  <1>5. CASE Section(line, calls, author)
    <2>1. Shaped(Tail(calls)) /\ Section(line, Tail(calls), author) /\ Leaves(line.word, f)
      BY <1>2, <1>5, SectionPop DEF OpenEnded
    <2>2. line.word \in PatternEnd[f]
      BY <2>1 DEF Leaves, PatternEnd
    <2> QED BY <1>3, <2>1, <2>2 DEF Fits
  <1>6. CASE Statement(line, calls, author)
    <2>1. line.word \in {"stmt", "SCOPE"}
      BY <1>2, <1>6 DEF Statement
    <2>2. line.word \notin PatternEnd[f]
      BY <2>1 DEF PatternEnd
    <2>3. ParseNode
      BY <1>2, <2>2 DEF ParseStatements
    <2> QED BY <1>1, <1>6, <2>1, <2>3, NodeKeeps
  <1> QED BY <1>2, <1>4, <1>5, <1>6, FitsAt

(* The memory declarations of a pattern return at the next section. *)
LEMMA MemoryKeeps ==
    ASSUME Good, ParseMemory
    PROVE  Good'
  <1>1. Running("memory")
    BY DEF ParseMemory
  <1>2. /\ status = "reading" /\ lexed /\ line # NoLine /\ calls # <<>> /\ Head(calls) = "memory"
        /\ Shaped(calls) /\ Fits(line, calls, author) /\ IsContract(parsed)
    BY <1>1, RunFacts
  <1>3. ASSUME line.word \notin {"decl", "stmt", "ref", "plain"}, Shaped(Tail(calls)), Fits(line, Tail(calls), author)
        PROVE  Good'
    <2>1. calls' = Tail(calls) /\ Read(line) /\ parsed' = parsed
      BY <1>3 DEF ParseMemory, Return, Keep
    <2> QED BY <1>2, <1>3, <2>1, KeepStep DEF Read
  <1>4. CASE Eof(line, calls, author)
    <2>1. Shaped(Tail(calls)) /\ Eof(line, Tail(calls), author)
      BY <1>2, <1>4, EofPop
    <2> QED BY <1>3, <1>4, <2>1 DEF Eof, Fits
  <1>5. CASE Section(line, calls, author)
    <2>1. Shaped(Tail(calls)) /\ Section(line, Tail(calls), author) /\ Leaves(line.word, "memory")
      BY <1>2, <1>5, SectionPop DEF OpenEnded
    <2>2. line.word \notin {"decl", "stmt", "ref", "plain"}
      BY <2>1 DEF Leaves, PatternEnd
    <2> QED BY <1>3, <2>1, <2>2 DEF Fits
  <1>6. CASE Declaration(line, calls, author)
    <2>1. line.word = "decl" /\ author = calls
      BY <1>6 DEF Declaration
    <2>2. Read(NoLine) /\ UNCHANGED calls /\ parsed' = parsed
      BY <2>1 DEF ParseMemory
    <2>3. ParsedAfter(line, parsed) = parsed
      BY <2>1 DEF ParsedAfter
    <2> QED BY <1>2, <2>1, <2>2, <2>3, DoneStep DEF Read
  <1> QED BY <1>2, <1>4, <1>5, <1>6, FitsAt

(* A section leaves nothing of its line. *)
LEMMA RestRead ==
    ASSUME line.tail = "none"
    PROVE  Rest = NoLine
  BY DEF Rest

(* parse_pattern calls the parser of every section and returns at          *)
(* END_PATTERN.                                                            *)
LEMMA PatternKeeps ==
    ASSUME Good, ParsePattern
    PROVE  Good'
  <1>1. Running("pattern")
    BY DEF ParsePattern
  <1>2. /\ status = "reading" /\ lexed /\ line # NoLine /\ calls # <<>> /\ Head(calls) = "pattern"
        /\ Shaped(calls) /\ Shaped(author) /\ Fits(line, calls, author) /\ IsContract(parsed)
    BY <1>1, RunFacts
  <1>3. CASE Eof(line, calls, author)
    <2>1. Shaped(Tail(calls)) /\ Eof(line, Tail(calls), author)
      BY <1>2, <1>3, EofPop
    <2>2. calls' = Tail(calls) /\ Read(line) /\ parsed' = parsed
      BY <1>3 DEF ParsePattern, Return, Keep, Eof
    <2> QED BY <1>2, <2>1, <2>2, KeepStep DEF Read, Fits
  <1>4. CASE Section(line, calls, author)
    <2>1. /\ line.word \in {"MEMORY", "ON_CREATE", "BEHAVIOR", "ON_DESTROY", "END_PATTERN"}
          /\ line.tail = "none" /\ line.extra # "platform"
          /\ author = AfterSection(line.word, line.extra = "platform", calls)
      <3>1. /\ line.word \in DOMAIN Rank["pattern"] /\ author = AfterSection(line.word, line.extra = "platform", calls)
            /\ line.tail = CASE line.word = "HASH" -> "pin" [] line.word = "USES" -> "path" [] OTHER -> "none"
            /\ line.extra = "platform" => line.word = "IMPLEMENTATION"
        BY <1>2, <1>4, SectionAt DEF Definitions
      <3>2. line.word \in {"MEMORY", "ON_CREATE", "BEHAVIOR", "ON_DESTROY", "END_PATTERN"}
        BY <3>1 DEF Rank
      <3> QED BY <3>1, <3>2
    <2>2. calls' = author /\ Read(NoLine) /\ parsed' = parsed
      <3>1. CASE line.word = "END_PATTERN"
        BY <2>1, <3>1, RestRead DEF ParsePattern, Return, AfterSection
      <3>2. CASE line.word # "END_PATTERN"
        <4>1. author = <<Opens[line.word]>> \o calls
          BY <2>1, <3>2 DEF AfterSection
        <4>2. line.word \in {"MEMORY", "ON_CREATE", "ON_DESTROY", "BEHAVIOR"}
          BY <2>1, <3>2
        <4> QED BY <2>1, <4>1, <4>2, RestRead DEF ParsePattern, Call
      <3> QED BY <3>1, <3>2
    <2>3. Inside \in {"contract", "requires"} => FALSE
      <3>1. CASE line.word = "END_PATTERN"
        <4>1. author = Tail(calls)
          BY <2>1, <3>1 DEF AfterSection
        <4>2. Tail(calls) # <<>> => Head(Tail(calls)) \in Under["pattern"]
          BY <1>2, ShapedTail
        <4> QED BY <4>1, <4>2 DEF Under, Inside
      <3>2. CASE line.word # "END_PATTERN"
        <4>1. author = <<Opens[line.word]>> \o calls /\ Opens[line.word] \notin {"contract", "requires"}
          BY <2>1, <3>2 DEF AfterSection, Opens
        <4>2. calls \in Seq(Constructs) /\ Opens[line.word] \in Constructs
          BY <1>2, <2>1, <3>2 DEF Shaped, Opens, Constructs, Definitions, OpenEnded
        <4>3. author # <<>> /\ Head(author) = Opens[line.word]
          BY <4>1, <4>2, PushFacts
        <4> QED BY <4>1, <4>3 DEF Inside
      <3> QED BY <3>1, <3>2
    <2>4. line.word \notin {"EOF", "stmt", "REQUIRES", "ref"}
      BY <2>1
    <2> QED BY <1>2, <2>2, <2>3, <2>4, DoneStep DEF Read
  <1> QED BY <1>2, <1>3, <1>4, FitsAt

(* parse_executable calls the parser of every section and returns at       *)
(* END_EXECUTABLE.                                                         *)
LEMMA ExecutableKeeps ==
    ASSUME Good, ParseExecutable
    PROVE  Good'
  <1>1. Running("executable")
    BY DEF ParseExecutable
  <1>2. /\ status = "reading" /\ lexed /\ line # NoLine /\ calls # <<>> /\ Head(calls) = "executable"
        /\ Shaped(calls) /\ Shaped(author) /\ Fits(line, calls, author) /\ IsContract(parsed)
    BY <1>1, RunFacts
  <1>3. CASE Eof(line, calls, author)
    <2>1. Shaped(Tail(calls)) /\ Eof(line, Tail(calls), author)
      BY <1>2, <1>3, EofPop
    <2>2. calls' = Tail(calls) /\ Read(line) /\ parsed' = parsed
      BY <1>3 DEF ParseExecutable, Return, Keep, Eof
    <2> QED BY <1>2, <2>1, <2>2, KeepStep DEF Read, Fits
  <1>4. CASE Section(line, calls, author)
    <2>1. /\ line.word \in {"DESCRIPTION", "USES", "ENTRY", "END_EXECUTABLE"}
          /\ line.tail = IF line.word = "USES" THEN "path" ELSE "none"
          /\ line.extra # "platform"
          /\ author = AfterSection(line.word, line.extra = "platform", calls)
      <3>1. /\ line.word \in DOMAIN Rank["executable"] /\ author = AfterSection(line.word, line.extra = "platform", calls)
            /\ line.tail = CASE line.word = "HASH" -> "pin" [] line.word = "USES" -> "path" [] OTHER -> "none"
            /\ line.extra = "platform" => line.word = "IMPLEMENTATION"
        BY <1>2, <1>4, SectionAt DEF Definitions
      <3>2. line.word \in {"DESCRIPTION", "USES", "ENTRY", "END_EXECUTABLE"}
        BY <3>1 DEF Rank
      <3> QED BY <3>1, <3>2
    <2>2. calls' = author /\ Read(NoLine) /\ parsed' = parsed
      <3>1. CASE line.word = "END_EXECUTABLE"
        BY <2>1, <3>1, RestRead DEF ParseExecutable, Return, AfterSection
      <3>2. CASE line.word = "USES"
        BY <2>1, <3>2 DEF ParseExecutable, AfterSection
      <3>3. CASE line.word \in {"DESCRIPTION", "ENTRY"}
        <4>1. author = <<Opens[line.word]>> \o calls
          BY <2>1, <3>3 DEF AfterSection
        <4> QED BY <2>1, <3>3, <4>1, RestRead DEF ParseExecutable, Call
      <3> QED BY <2>1, <3>1, <3>2, <3>3
    <2>3. ParsedAfter(line, parsed) = parsed
      BY <2>1 DEF ParsedAfter
    <2>4. line.word \notin {"EOF", "stmt", "REQUIRES", "ref"}
      BY <2>1
    <2> QED BY <1>2, <2>2, <2>3, <2>4, DoneStep DEF Read
  <1> QED BY <1>2, <1>3, <1>4, FitsAt

(* parse_behavior calls the parser of every section, returns at END or     *)
(* NATIVE, and rejects a file that ends before.                            *)
LEMMA BehaviorKeeps ==
    ASSUME Good, ParseBehavior
    PROVE  Good'
  <1>1. Running("behavior")
    BY DEF ParseBehavior
  <1>2. /\ status = "reading" /\ lexed /\ line # NoLine /\ calls # <<>> /\ Head(calls) = "behavior"
        /\ Shaped(calls) /\ Shaped(author) /\ Fits(line, calls, author) /\ IsContract(parsed) /\ calls \in Seq(Constructs)
    BY <1>1, RunFacts
  <1>3. CASE Eof(line, calls, author)
    <2>1. Reject
      BY <1>3 DEF ParseBehavior, Eof
    <2>2. "behavior" \in Range(author)
      BY <1>2, <1>3, RangeTail DEF Eof
    <2>3. author # <<>>
      BY <2>2 DEF Range
    <2>4. "cut" \in slips
      BY <1>2, <1>3, <2>3 DEF Good, Slipping, Eof
    <2>5. lexed' \in BOOLEAN /\ inDesc' \in BOOLEAN
      BY <2>1 DEF Reject, Good, Typed
    <2> QED BY <1>2, <2>1, <2>2, <2>4, <2>5, RejectStep DEF Reject
  <1>4. CASE Ending(line, calls, author)
    <2>1. Skip(calls, {"scope"}) = calls
      BY <1>2, SkipStays
    <2>2. line.word = "END" /\ line.tail = "none" /\ author = Tail(calls)
      BY <1>2, <1>4, <2>1 DEF Ending, AfterEnd
    <2>3. calls' = Tail(calls) /\ Read(NoLine) /\ parsed' = parsed
      BY <2>2, RestRead DEF ParseBehavior, Return
    <2>4. ParsedAfter(line, parsed) = parsed
      BY <2>2 DEF ParsedAfter
    <2> QED BY <1>2, <2>2, <2>3, <2>4, DoneStep DEF Read
  <1>5. CASE Section(line, calls, author)
    <2>1. /\ line.word \in {"DESCRIPTION", "CONTRACT", "HASH", "IMPLEMENTATION", "COMPOSITION", "NATIVE"}
          /\ line.tail = IF line.word = "HASH" THEN "pin" ELSE "none"
          /\ line.extra = "platform" => line.word = "IMPLEMENTATION"
          /\ author = AfterSection(line.word, line.extra = "platform", calls)
      <3>1. /\ line.word \in DOMAIN Rank["behavior"] /\ author = AfterSection(line.word, line.extra = "platform", calls)
            /\ line.tail = CASE line.word = "HASH" -> "pin" [] line.word = "USES" -> "path" [] OTHER -> "none"
            /\ line.extra = "platform" => line.word = "IMPLEMENTATION"
        BY <1>2, <1>5, SectionAt DEF Definitions
      <3>2. line.word \in {"DESCRIPTION", "CONTRACT", "HASH", "IMPLEMENTATION", "COMPOSITION", "NATIVE"}
        BY <3>1 DEF Rank
      <3> QED BY <3>1, <3>2
    <2>2. calls' = author /\ Read(NoLine) /\ parsed' = ParsedAfter(line, parsed) /\ IsContract(parsed')
      <3>1. CASE line.word = "NATIVE"
        BY <1>2, <2>1, <3>1, RestRead DEF ParseBehavior, Return, AfterSection, ParsedAfter
      <3>2. CASE line.word = "HASH"
        BY <1>2, <2>1, <3>2 DEF ParseBehavior, AfterSection, ParsedAfter
      <3>3. CASE line.word = "DESCRIPTION"
        <4>1. author = <<"description">> \o calls
          BY <2>1, <3>3 DEF AfterSection, Opens
        <4> QED BY <1>2, <2>1, <3>3, <4>1, RestRead DEF ParseBehavior, Call, ParsedAfter
      <3>4. CASE line.word = "CONTRACT"
        <4>1. author = <<"contract">> \o calls
          BY <2>1, <3>4 DEF AfterSection, Opens
        <4>2. calls' = author /\ Read(NoLine) /\ parsed' = NoContract
          BY <2>1, <3>4, <4>1, RestRead DEF ParseBehavior, Call
        <4>3. IsContract(NoContract)
          BY DEF IsContract, NoContract
        <4> QED BY <3>4, <4>2, <4>3 DEF ParsedAfter
      <3>5. CASE line.word = "IMPLEMENTATION"
        <4>1. author = <<IF line.extra = "platform" THEN "platform" ELSE "body">> \o calls
          BY <2>1, <3>5 DEF AfterSection, Opens
        <4> QED BY <1>2, <2>1, <3>5, <4>1, RestRead DEF ParseBehavior, Call, ParsedAfter
      <3>6. CASE line.word = "COMPOSITION"
        <4>1. author = <<"body">> \o calls
          BY <2>1, <3>6 DEF AfterSection, Opens
        <4> QED BY <1>2, <2>1, <3>6, <4>1, RestRead DEF ParseBehavior, Call, ParsedAfter
      <3> QED BY <2>1, <3>1, <3>2, <3>3, <3>4, <3>5, <3>6
    <2>3. line.word \notin {"EOF", "stmt", "REQUIRES", "ref"}
      BY <2>1
    <2> QED BY <1>2, <2>2, <2>3, DoneStep DEF Read
  <1> QED BY <1>2, <1>3, <1>4, <1>5, FitsAt

(* After a section the author is in a contract only if it is CONTRACT. *)
LEMMA SectionInside ==
    ASSUME NEW l, NEW s, NEW a, Shaped(s), Section(l, s, a), a # <<>>, Head(a) \in {"contract", "requires"}
    PROVE  l.word = "CONTRACT"
  <1> DEFINE e == Skip(s, OpenEnded)
  <1>1. Shaped(e) /\ e # <<>> /\ Head(e) \in Definitions /\ l.word \in DOMAIN Rank[Head(e)]
    BY ShapedSkip DEF Section
  <1>2. a = AfterSection(l.word, l.extra = "platform", e)
    BY DEF Section
  <1>3. Tail(e) # <<>> => Head(Tail(e)) \in Under[Head(e)]
    BY <1>1, ShapedTail
  <1> HIDE DEF e
  <1>4. CASE l.word \in {"END_PATTERN", "END_EXECUTABLE", "NATIVE"}
    <2>1. a = Tail(e)
      BY <1>2, <1>4 DEF AfterSection
    <2> QED BY <1>1, <1>3, <2>1 DEF Definitions, Under
  <1>5. CASE l.word \in {"HASH", "USES"}
    <2>1. a = e
      BY <1>2, <1>5 DEF AfterSection
    <2> QED BY <1>1, <2>1 DEF Definitions
  <1>6. CASE l.word \notin {"END_PATTERN", "END_EXECUTABLE", "NATIVE", "HASH", "USES"}
    <2> DEFINE c == IF l.extra = "platform" THEN "platform" ELSE Opens[l.word]
    <2>1. a = <<c>> \o e
      BY <1>2, <1>6 DEF AfterSection
    <2>2. Head(a) = c
      <3>1. e \in Seq(Constructs)
        BY <1>1 DEF Shaped
      <3> HIDE DEF c
      <3> QED BY <2>1, <3>1
    <2>3. c \in {"contract", "requires"}
      BY <2>2
    <2>4. l.word \in {"DESCRIPTION", "CONTRACT", "IMPLEMENTATION", "COMPOSITION", "MEMORY", "ON_CREATE", "BEHAVIOR", "ON_DESTROY", "ENTRY"}
      BY <1>1, <1>6 DEF Rank, Definitions
    <2> QED BY <2>3, <2>4 DEF Opens
  <1> QED BY <1>4, <1>5, <1>6

(* An empty contract is one. *)
LEMMA NoContractIs == IsContract(NoContract)
  BY DEF IsContract, NoContract

(* parse_contract reads every clause, and REQUIRES forgets what was read   *)
(* for it before.                                                          *)
LEMMA ContractKeeps ==
    ASSUME Good, ParseContract
    PROVE  Good'
  <1>1. Running("contract")
    BY DEF ParseContract
  <1>2. /\ status = "reading" /\ lexed /\ line # NoLine /\ calls # <<>> /\ Head(calls) = "contract"
        /\ Shaped(calls) /\ Shaped(author) /\ Fits(line, calls, author) /\ IsContract(parsed) /\ calls \in Seq(Constructs)
    BY <1>1, RunFacts
  <1>3. ASSUME line.word \notin Clauses, Shaped(Tail(calls)), Fits(line, Tail(calls), author),
               Inside \in {"contract", "requires"} => line.word \in {"EOF", "CONTRACT"}
        PROVE  Good'
    <2>1. calls' = Tail(calls) /\ Read(line) /\ parsed' = NoContract
      BY <1>3 DEF ParseContract, Return, Keep, Clauses
    <2>2. line.word = "CONTRACT" => ParsedAfter(line, parsed') = ParsedAfter(line, parsed)
      BY DEF ParsedAfter
    <2>3. Inside \in {"contract", "requires"} /\ line.word # "EOF" => ParsedAfter(line, parsed') = ParsedAfter(line, parsed)
      BY <1>3, <2>2
    <2> QED BY <1>2, <1>3, <2>1, <2>3, NoContractIs, KeepStep DEF Read
  <1>4. CASE Eof(line, calls, author)
    <2>1. Shaped(Tail(calls)) /\ Eof(line, Tail(calls), author)
      BY <1>2, <1>4, EofPop
    <2> QED BY <1>3, <1>4, <2>1 DEF Eof, Fits, Clauses
  <1>5. CASE Section(line, calls, author)
    <2>1. Shaped(Tail(calls)) /\ Section(line, Tail(calls), author) /\ Leaves(line.word, "contract")
      BY <1>2, <1>5, SectionPop DEF OpenEnded
    <2>2. line.word \notin Clauses
      BY <2>1 DEF Leaves, PatternEnd
    <2>3. Inside \in {"contract", "requires"} => line.word = "CONTRACT"
      BY <1>2, <1>5, SectionInside DEF Inside
    <2> QED BY <1>3, <2>1, <2>2, <2>3 DEF Fits
  <1>6. CASE Clause(line, calls, author)
    <2>1. ContractOf(calls) = calls
      BY <1>2 DEF ContractOf
    <2>2. parsed = [behaviors |-> parsed.behaviors, memory |-> parsed.memory, guarantees |-> parsed.guarantees]
      BY <1>2 DEF IsContract
    <2>3. ASSUME line.word \in {"INPUT", "OUTPUT", "GUARANTEES", "MEMORY"} PROVE Good'
      <3>1. author = calls /\ (line.word \in {"GUARANTEES", "MEMORY"} => line.items \in Seq(Named))
        BY <1>6, <2>1, <2>3 DEF Clause
      <3>2. Read(NoLine) /\ calls' = calls /\ parsed' = ParsedAfter(line, parsed)
        BY <2>3 DEF ParseContract, ParsedAfter
      <3>3. IsContract(ParsedAfter(line, parsed))
        <4>1. CASE line.word \in {"INPUT", "OUTPUT"}
          BY <1>2, <4>1 DEF ParsedAfter
        <4>2. CASE line.word = "GUARANTEES"
          <5>1. ParsedAfter(line, parsed) = [behaviors |-> parsed.behaviors, memory |-> parsed.memory, guarantees |-> line.items]
            BY <2>2, <4>2 DEF ParsedAfter
          <5> QED BY <1>2, <3>1, <4>2, <5>1 DEF IsContract
        <4>3. CASE line.word = "MEMORY"
          <5>1. ParsedAfter(line, parsed) = [behaviors |-> parsed.behaviors, memory |-> parsed.memory \o line.items,
                                             guarantees |-> parsed.guarantees]
            BY <2>2, <4>3 DEF ParsedAfter
          <5>2. parsed.memory \o line.items \in Seq(Named)
            BY <1>2, <3>1, <4>3 DEF IsContract
          <5> QED BY <1>2, <5>1, <5>2 DEF IsContract
        <4> QED BY <2>3, <4>1, <4>2, <4>3
      <3> QED BY <1>2, <2>3, <3>1, <3>2, <3>3, DoneStep DEF Read
    <2>4. ASSUME line.word = "REQUIRES" PROVE Good'
      <3> DEFINE cleared == [behaviors |-> <<>>, memory |-> <<>>, guarantees |-> parsed.guarantees]
      <3>1. author = <<"requires">> \o calls /\ line.items \in RefLines \cup {<<>>}
        BY <1>6, <2>1, <2>4 DEF Clause
      <3>2. /\ calls' = author
            /\ Read(IF line.items = <<>> THEN NoLine ELSE [line EXCEPT !.word = "ref"])
            /\ parsed' = cleared
        BY <2>2, <2>4, <3>1 DEF ParseContract, Call
      <3>3. IsContract(cleared)
        BY <1>2 DEF IsContract
      <3>4. ParsedAfter(line, parsed) = [behaviors |-> BehaviorRefs(line.items).refs, memory |-> <<>>, guarantees |-> parsed.guarantees]
        BY <2>2, <2>4 DEF ParsedAfter
      <3>5. CASE line.items = <<>>
        <4>1. <<>> \in Seq(PinnedRef) /\ Swallowed(<<>>) = {}
          BY DEF Swallowed
        <4>2. BehaviorRefs(<<>>).refs = <<>> /\ ~BehaviorRefs(<<>>).stuck
          BY <4>1, RefsKept DEF BehaviorRefs
        <4>3. parsed' = ParsedAfter(line, parsed)
          BY <3>2, <3>4, <3>5, <4>2
        <4> QED BY <1>2, <2>4, <3>2, <3>3, <3>5, <4>2, <4>3, DoneStep DEF Read
      <3>6. CASE line.items # <<>>
        <4> USE DEF avars
        <4> HIDE DEF cleared
        <4>1. /\ line' = [line EXCEPT !.word = "ref"] /\ status' = status
              /\ UNCHANGED <<avars, lexed, inDesc>>
          BY <3>2, <3>6 DEF Read
        <4>2. line' = [word |-> "ref", tail |-> line.tail, extra |-> line.extra, items |-> line.items, indent |-> line.indent]
          BY <4>1 DEF Good, Typed, Line
        <4>3. /\ line'.word = "ref" /\ line'.items = line.items /\ line'.extra = line.extra
              /\ line'.tail = line.tail /\ line'.indent = line.indent /\ line' # NoLine
          BY <4>2 DEF NoLine
        <4>4. Typed'
          <5>1. line' = Line(line'.word, line'.tail, line'.extra, line'.items, line'.indent)
            BY <4>2, <4>3 DEF Line
          <5>2. IsContract(parsed') /\ IsContract(wrote) /\ wrote' = wrote /\ wrote.behaviors \in Seq(PinnedRef)
            BY <3>2, <3>3, <4>1 DEF Good, Typed
          <5>3. IsContract(wrote')
            BY <5>2
          <5> QED BY <1>2, <3>2, <4>1, <4>3, <5>1, <5>2, <5>3 DEF Good, Typed
        <4>5. Ranked(author, rank)' /\ Nested'
          BY <4>1 DEF Good, Nested, Inside, Ranked
        <4>6. Following'
          <5>1. author # <<>> /\ Head(author) = "requires" /\ line.extra = "none" /\ line.items \in RefLines
            BY <1>2, <1>6, <3>1, <3>6 DEF Clause
          <5>2. Clause(line', calls', author')
            BY <3>2, <4>1, <4>3, <5>1 DEF Clause
          <5> QED BY <4>3, <5>2 DEF Following, Fits
        <4>7. Lexing'
          BY <1>2, <2>4, <4>1, <4>3 DEF Good, Lexing, Described, Inside
        <4>8. Slipping'
          BY <1>2, <2>4, <4>1, <4>3 DEF Good, Slipping
        <4>9. Agreeing'
          <5>1. ParsedAfter(line', parsed') = ParsedAfter(line, parsed)
            BY <3>2, <3>4, <4>3 DEF ParsedAfter, cleared
          <5>2. Inside' = Inside
            BY <4>1 DEF Inside
          <5> QED BY <1>2, <2>4, <4>1, <4>3, <5>1, <5>2 DEF Good, Agreeing
        <4>10. RejectedExactly'
          BY <1>2, <4>1 DEF RejectedExactly
        <4> QED BY <4>4, <4>5, <4>6, <4>7, <4>8, <4>9, <4>10 DEF Good
      <3> QED BY <3>5, <3>6
    <2> QED BY <1>2, <1>6, <2>3, <2>4 DEF Clause
  <1> QED BY <1>2, <1>4, <1>5, <1>6, FitsAt

(* parse_requires reads the lines of references, or is stuck at a hash     *)
(* whose name was swallowed.                                               *)
LEMMA RequiresKeeps ==
    ASSUME Good, ParseRequires
    PROVE  Good'
  <1>1. Running("requires")
    BY DEF ParseRequires
  <1>2. /\ status = "reading" /\ lexed /\ line # NoLine /\ calls # <<>> /\ Head(calls) = "requires"
        /\ Shaped(calls) /\ Fits(line, calls, author) /\ IsContract(parsed) /\ calls \in Seq(Constructs)
    BY <1>1, RunFacts
  <1>3. ASSUME line.word # "ref", Shaped(Tail(calls)), Fits(line, Tail(calls), author)
        PROVE  Good'
    <2>1. calls' = Tail(calls) /\ Read(line) /\ parsed' = parsed
      BY <1>3 DEF ParseRequires, Return, Keep
    <2> QED BY <1>2, <1>3, <2>1, KeepStep DEF Read
  <1>4. CASE Eof(line, calls, author)
    <2>1. Shaped(Tail(calls)) /\ Eof(line, Tail(calls), author)
      BY <1>2, <1>4, EofPop
    <2> QED BY <1>3, <1>4, <2>1 DEF Eof, Fits
  <1>5. CASE Section(line, calls, author)
    <2>1. Shaped(Tail(calls)) /\ Section(line, Tail(calls), author) /\ Leaves(line.word, "requires")
      BY <1>2, <1>5, SectionPop DEF OpenEnded
    <2>2. line.word # "ref"
      BY <2>1 DEF Leaves, PatternEnd
    <2> QED BY <1>3, <2>1, <2>2 DEF Fits
  <1>6. CASE Clause(line, calls, author)
    <2>1. CASE line.word # "ref"
      <3> DEFINE t == Tail(calls)
      <3>1. t # <<>> /\ Shaped(t) /\ Head(t) = "contract"
        BY <1>2, OpenOnTop DEF OpenEnded
      <3>2. ContractOf(calls) = t
        BY <1>2 DEF ContractOf
      <3> HIDE DEF t
      <3>3. ContractOf(t) = t
        BY <3>1 DEF ContractOf
      <3>4. Clause(line, t, author)
        BY <1>6, <2>1, <3>1, <3>2, <3>3 DEF Clause
      <3> QED BY <1>3, <2>1, <3>1, <3>4 DEF Fits, t
    <2>2. CASE line.word = "ref"
      <3>1. author = calls /\ line.items \in RefLines
        BY <1>6, <2>2 DEF Clause
      <3>2. line.items \in Seq(PinnedRef)
        BY <3>1, FrontEndAssumption
      <3>3. CASE BehaviorRefs(line.items).stuck
        <4>1. Reject
          BY <2>2, <3>3 DEF ParseRequires
        <4>2. "pinned" \in slips
          BY <1>2, <2>2, <3>3 DEF Good, Slipping
        <4>3. lexed' \in BOOLEAN /\ inDesc' \in BOOLEAN
          BY <4>1 DEF Reject, Good, Typed
        <4> QED BY <1>2, <4>1, <4>2, <4>3, RejectStep DEF Reject
      <3>4. CASE ~BehaviorRefs(line.items).stuck
        <4>1. Read(NoLine) /\ calls' = calls /\ parsed' = [parsed EXCEPT !.behaviors = BehaviorRefs(line.items).refs]
          BY <2>2, <3>4 DEF ParseRequires
        <4>2. parsed' = ParsedAfter(line, parsed)
          BY <2>2, <4>1 DEF ParsedAfter
        <4>3. parsed' = [behaviors |-> BehaviorRefs(line.items).refs, memory |-> parsed.memory, guarantees |-> parsed.guarantees]
          BY <1>2, <4>1 DEF IsContract
        <4>4. Len(BehaviorRefs(line.items).refs) \in Nat
          BY <3>2, RefsKept
        <4>5. IsContract(parsed')
          BY <1>2, <4>3, <4>4 DEF IsContract
        <4> QED BY <1>2, <2>2, <3>1, <3>4, <4>1, <4>2, <4>5, DoneStep DEF Read
      <3> QED BY <3>3, <3>4
    <2> QED BY <2>1, <2>2
  <1> QED BY <1>2, <1>4, <1>5, <1>6, FitsAt

(* The parser returns before the end of the file only at its end. *)
LEMMA IgnoreKeeps ==
    ASSUME Good, Ignore
    PROVE  Good'
  <1> USE DEF avars
  <1>1. /\ status = "reading" /\ lexed /\ line # NoLine /\ calls = <<>> /\ Fits(line, calls, author)
        /\ line' = NoLine /\ UNCHANGED <<avars, lexed, inDesc, calls, parsed>>
    BY DEF Ignore, Good, Following
  <1>2. Eof(line, <<>>, author)
    <2> DEFINE t == <<>>
    <2>1. t \in Seq(Constructs) /\ t = <<>>
      OBVIOUS
    <2> HIDE DEF t
    <2>2. Skip(t, OpenEnded) = t
      BY <2>1, SkipStays
    <2>3. Skip(t, {"scope"}) = t
      BY <2>1, SkipStays
    <2> QED BY <1>1, <2>1, <2>2, <2>3 DEF Fits, Section, Clause, Text, Declaration, Statement, Ending
  <1>3. status' = "accepted"
    BY <1>2 DEF Ignore, Eof
  <1>4. "behavior" \notin Range(author)
    BY <1>2 DEF Eof, Range
  <1>5. Typed'
    <2>1. NoLine = Line(NoLine.word, NoLine.tail, NoLine.extra, NoLine.items, NoLine.indent) /\ NoLine.indent \in BOOLEAN
      BY DEF NoLine, Line
    <2> QED BY <1>1, <1>3, <2>1 DEF Good, Typed, IsContract
  <1>6. Ranked(author, rank)' /\ Nested'
    BY <1>1 DEF Good, Nested, Inside, Ranked
  <1>7. Following' /\ Lexing' /\ Slipping'
    BY <1>3 DEF Following, Lexing, Slipping
  <1>8. Agreeing'
    BY <1>1, <1>3 DEF Good, Agreeing, Inside
  <1>9. slips \cap {"number", "literal", "pinned"} = {}
    BY <1>1, <1>2 DEF Good, Slipping, Eof
  <1>10. RejectedExactly'
    BY <1>1, <1>3, <1>4, <1>9 DEF RejectedExactly, Range
  <1> QED BY <1>5, <1>6, <1>7, <1>8, <1>10 DEF Good

(* next_token takes a line for description exactly as the invariant says,  *)
(* and rejects a malformed number.                                         *)
LEMMA LexKeeps ==
    ASSUME Good, Lex
    PROVE  Good'
  <1> USE DEF avars
  <1> DEFINE desc == line.word = "DESCRIPTION" \/ (inDesc /\ ~(line.word \in SectionWords /\ ~line.indent))
  <1>1. /\ status = "reading" /\ ~lexed /\ line # NoLine /\ Fits(line, calls, author)
        /\ lexed' = TRUE /\ inDesc' = desc /\ UNCHANGED <<avars, line, calls, parsed>>
        /\ status' = IF Malformed \/ Unterminated(desc) THEN "rejected" ELSE status
    BY DEF Lex, Good, Following
  <1>2. desc \in BOOLEAN /\ (line.word # "EOF" => (desc <=> (Inside = "description" \/ "indented" \in slips)))
    BY <1>1 DEF Good, Lexing, Described
  <1> HIDE DEF desc
  <1>3. CASE Malformed
    <2>1. "number" \in slips
      BY <1>1, <1>3 DEF Malformed, Good, Slipping
    <2>2. status' = "rejected" /\ lexed' \in BOOLEAN /\ inDesc' \in BOOLEAN
      BY <1>1, <1>2, <1>3
    <2>3. slips \cap {"number", "literal", "pinned"} # {}
      BY <2>1
    <2> QED BY <1>1, <2>2, <2>3, RejectStep
  <1>4. ASSUME Unterminated(desc) PROVE FALSE
    <2>1. line.extra = "quote" /\ ~desc
      BY <1>4 DEF Unterminated
    <2>2. Text(line, calls, author)
      BY <1>1, <2>1 DEF Fits, Section, Clause, Declaration, Statement, Ending, Eof
    <2>3. Inside = "description" /\ line.word # "EOF"
      BY <2>2 DEF Text, Inside
    <2> QED BY <1>2, <2>1, <2>3
  <1>5. CASE ~Malformed
    <2>1. status' = status /\ line.extra # "number"
      BY <1>1, <1>4, <1>5 DEF Malformed
    <2>2. Typed'
      BY <1>1, <1>2, <2>1 DEF Good, Typed, IsContract
    <2>3. Ranked(author, rank)' /\ Nested'
      BY <1>1 DEF Good, Nested, Inside, Ranked
    <2>4. Following'
      BY <1>1, <2>1 DEF Following
    <2>5. Lexing'
      BY <1>1, <1>2, <2>1 DEF Lexing, Described, Inside
    <2>6. Slipping'
      BY <1>1, <2>1 DEF Good, Slipping
    <2>7. Agreeing'
      <3>1. Inside' = Inside /\ ParsedAfter(line, parsed)' = ParsedAfter(line, parsed)
        BY <1>1 DEF Inside, ParsedAfter
      <3> QED BY <1>1, <2>1, <3>1 DEF Good, Agreeing
    <2>8. RejectedExactly'
      BY <1>1, <2>1 DEF RejectedExactly
    <2> QED BY <2>2, <2>3, <2>4, <2>5, <2>6, <2>7, <2>8 DEF Good
  <1> QED BY <1>3, <1>5

-----------------------------------------------------------------------------
(* The author *)

(* What is known between two lines. *)
LEMMA RestFacts ==
    ASSUME Good, status = "reading", line = NoLine
    PROVE  /\ Shaped(author) /\ author \in Seq(Constructs) /\ calls = author /\ Shaped(calls)
           /\ slips \cap {"number", "literal", "pinned", "cut"} = {}
           /\ inDesc <=> (Inside = "description" \/ "indented" \in slips)
           /\ IF Inside \in {"contract", "requires"} THEN Agree(parsed, wrote, slips \cap {"again", "pin"} # {})
              ELSE slips \cap {"again", "pin"} = {}
  <1>1. NoLine.word = "none" /\ NoLine.extra = "none"
    BY DEF NoLine
  <1>2. Shaped(author) /\ author \in Seq(Constructs) /\ calls = author
    BY DEF Good, Typed, Following, Shaped
  <1>3. slips \cap {"number", "literal", "pinned", "cut"} = {}
    BY <1>1 DEF Good, Slipping
  <1>4. inDesc <=> (Inside = "description" \/ "indented" \in slips)
    BY <1>1 DEF Good, Lexing, Described
  <1>5. ParsedAfter(line, parsed) = parsed
    BY <1>1 DEF ParsedAfter
  <1>6. IF Inside \in {"contract", "requires"} THEN Agree(parsed, wrote, slips \cap {"again", "pin"} # {})
        ELSE slips \cap {"again", "pin"} = {}
    BY <1>1, <1>5 DEF Good, Agreeing
  <1> QED BY <1>2, <1>3, <1>4, <1>6

(* A line that leads somewhere, with the slips that it should have. *)
LEMMA WriteStep ==
    ASSUME Good, MayWrite, NEW l, NEW a, NEW slip, Write(l, a, slip),
           Shaped(a), Fits(l, author, a),
           l = Line(l.word, l.tail, l.extra, l.items, l.indent), l.indent \in BOOLEAN, l.word \notin {"none", "EOF"},
           slip \subseteq {"indented", "number", "again", "pin", "pinned", "literal"},
           "number" \in slip <=> l.extra = "number",
           "literal" \in slip <=> l.word = "stmt" /\ l.extra = "string" /\ "indented" \in slips \cup slip,
           "pinned" \in slip <=> l.word \in {"REQUIRES", "ref"} /\ BehaviorRefs(l.items).stuck,
           rank' \in 0 .. 5, Ranked(a, rank'), IsContract(wrote'), wrote'.behaviors \in Seq(PinnedRef),
           Nested', Lexing', Agreeing'
    PROVE  Good'
  <1>1. status = "reading" /\ line = NoLine
    BY DEF MayWrite
  <1>2. /\ Shaped(author) /\ calls = author /\ Shaped(calls)
        /\ slips \cap {"number", "literal", "pinned", "cut"} = {}
    BY <1>1, RestFacts
  <1>3. /\ line' = l /\ lexed' = FALSE /\ author' = a /\ UNCHANGED <<nested, inDesc, calls, status, parsed>>
        /\ slips' \subseteq slip \cup slips /\ slip \subseteq slips' /\ slips \ {"again", "pin"} \subseteq slips'
    BY DEF Write
  <1>4. l # NoLine
    BY DEF NoLine
  <1>5. Typed'
    <2>1. slips' \subseteq {"word", "indented", "number", "again", "pin", "pinned", "literal", "cut"}
      BY <1>3 DEF Good, Typed
    <2>2. IsContract(parsed) /\ parsed' = parsed
      BY <1>3 DEF Good, Typed
    <2>3. IsContract(parsed')
      BY <2>2
    <2>4. Shaped(author') /\ Shaped(calls')
      BY <1>2, <1>3
    <2> QED BY <1>3, <2>1, <2>3, <2>4 DEF Good, Typed
  <1>6. Ranked(author, rank)'
    BY <1>3
  <1>7. Following'
    BY <1>2, <1>3, <1>4 DEF Following
  <1>8. Slipping'
    <2>1. "number" \in slips' <=> l.extra = "number"
      BY <1>2, <1>3
    <2>2. "literal" \in slips' <=> l.word = "stmt" /\ l.extra = "string" /\ "indented" \in slips'
      BY <1>2, <1>3
    <2>3. "pinned" \in slips' <=> l.word \in {"REQUIRES", "ref"} /\ BehaviorRefs(l.items).stuck
      BY <1>2, <1>3
    <2>4. "cut" \notin slips'
      BY <1>2, <1>3
    <2> QED BY <1>3, <2>1, <2>2, <2>3, <2>4 DEF Slipping
  <1>9. RejectedExactly'
    BY <1>1, <1>3 DEF RejectedExactly
  <1> QED BY <1>5, <1>6, <1>7, <1>8, <1>9 DEF Good

(* Where the author goes on, what the next line is taken for. *)
LEMMA SameText ==
    ASSUME Good, MayWrite, NEW l, NEW a, NEW slip, Write(l, a, slip), Shaped(a),
           "indented" \notin slip, l.word \notin SectionWords \cup {"DESCRIPTION"},
           a # <<>>, author # <<>>, a[Len(a)] = author[Len(author)],
           Head(a) = "description" <=> Head(author) = "description",
           Head(a) = "description" => a = author
    PROVE  Nested' /\ Lexing'
  <1>1. status = "reading" /\ line = NoLine
    BY DEF MayWrite
  <1>2. /\ author' = a /\ line' = l /\ lexed' = FALSE /\ UNCHANGED <<nested, inDesc, status>>
        /\ "indented" \in slips' <=> "indented" \in slips
    BY DEF Write
  <1>3. inDesc <=> (Inside = "description" \/ "indented" \in slips)
    BY <1>1, RestFacts
  <1>4. Inside' = "description" <=> Inside = "description"
    BY <1>2 DEF Inside
  <1>5. Described' <=> inDesc
    <2>1. inDesc \in BOOLEAN
      BY DEF Good, Typed
    <2>2. l # NoLine \/ Described' = inDesc
      BY <1>2 DEF Described
    <2>3. l # NoLine => (Described' <=> inDesc)
      BY <1>2, <2>1 DEF Described
    <2> QED BY <2>1, <2>2, <2>3
  <1>6. Lexing'
    BY <1>2, <1>3, <1>4, <1>5 DEF Lexing
  <1>7. Nested'
    BY <1>2, <1>4 DEF Good, Nested, Inside
  <1> QED BY <1>6, <1>7

(* A contract is not touched where there is none. *)
LEMMA NoContractTouched ==
    ASSUME Good, MayWrite, NEW l, NEW a, NEW slip, Write(l, a, slip), Shaped(a),
           slip \cap {"again", "pin"} = {}, a = <<>> \/ Head(a) \notin {"contract", "requires"}
    PROVE  Agreeing'
  <1>1. "contract" \notin Range(a)
    BY ContractOnTop
  <1>2. slips' \cap {"again", "pin"} = {} /\ author' = a
    BY <1>1 DEF Write
  <1> QED BY <1>2 DEF Agreeing, Inside

(* The text of a description keeps the parser in it. *)
LEMMA TextKeeps ==
    ASSUME Good, WriteText, "word" \notin slips'
    PROVE  Good'
  <1>1. MayWrite /\ Inside = "description" /\ UNCHANGED <<rank, wrote>>
    BY DEF WriteText
  <1>2. status = "reading" /\ line = NoLine
    BY <1>1 DEF MayWrite
  <1>3. Shaped(author) /\ author # <<>> /\ Head(author) = "description"
    BY <1>1, <1>2, RestFacts DEF Inside
  <1>4. PICK indent \in BOOLEAN, extra \in {"none", "quote", "number"} :
          Write(Line("plain", "none", extra, <<>>, indent), author, IF extra = "number" THEN {"number"} ELSE {})
    BY DEF WriteText, Write
  <1> DEFINE l == Line("plain", "none", extra, <<>>, indent)
             slip == IF extra = "number" THEN {"number"} ELSE {}
  <1>5. /\ l = Line(l.word, l.tail, l.extra, l.items, l.indent) /\ l.indent \in BOOLEAN /\ l.word = "plain" /\ l.extra = extra
        /\ slip \subseteq {"number"} /\ ("number" \in slip <=> l.extra = "number")
    BY DEF Line
  <1>6. Write(l, author, slip)
    BY <1>4
  <1> HIDE DEF l, slip
  <1>7. Nested' /\ Lexing'
    BY <1>1, <1>3, <1>5, <1>6, SameText DEF SectionWords
  <1>8. Agreeing'
    BY <1>1, <1>3, <1>5, <1>6, NoContractTouched
  <1>9. Fits(l, author, author)
    BY <1>3, <1>5 DEF Fits, Text
  <1>10. rank' \in 0 .. 5 /\ Ranked(author, rank') /\ IsContract(wrote') /\ wrote'.behaviors \in Seq(PinnedRef)
    <2>1. rank' = rank /\ wrote' = wrote
      BY <1>1
    <2> QED BY <2>1 DEF Good, Typed
  <1> QED BY <1>1, <1>3, <1>5, <1>6, <1>7, <1>8, <1>9, <1>10, WriteStep

(* A memory declaration keeps the parser in the section. *)
LEMMA DeclarationKeeps ==
    ASSUME Good, WriteDeclaration
    PROVE  Good'
  <1> DEFINE l == Line("decl", "none", "none", <<>>, TRUE)
  <1>1. MayWrite /\ Inside = "memory" /\ rank' = rank /\ wrote' = wrote /\ Write(l, author, {})
    BY DEF WriteDeclaration
  <1>2. status = "reading" /\ line = NoLine
    BY <1>1 DEF MayWrite
  <1>3. Shaped(author) /\ author # <<>> /\ Head(author) = "memory"
    BY <1>1, <1>2, RestFacts DEF Inside
  <1>5. l = Line(l.word, l.tail, l.extra, l.items, l.indent) /\ l.indent \in BOOLEAN /\ l.word = "decl" /\ l.extra = "none"
    BY DEF Line
  <1> HIDE DEF l
  <1>7. Nested' /\ Lexing'
    BY <1>1, <1>3, <1>5, SameText DEF SectionWords
  <1>8. Agreeing'
    BY <1>1, <1>3, NoContractTouched
  <1>9. Fits(l, author, author)
    BY <1>3, <1>5 DEF Fits, Declaration
  <1>10. rank' \in 0 .. 5 /\ Ranked(author, rank') /\ IsContract(wrote') /\ wrote'.behaviors \in Seq(PinnedRef)
    BY <1>1 DEF Good, Typed
  <1> QED BY <1>1, <1>3, <1>5, <1>7, <1>8, <1>9, <1>10, WriteStep

(* Statements and scopes keep the parser in their body. *)
LEMMA StatementKeeps ==
    ASSUME Good, WriteStatement
    PROVE  Good'
  <1>1. MayWrite /\ Inside \in Bodies /\ rank' = rank /\ wrote' = wrote
    BY DEF WriteStatement
  <1>2. status = "reading" /\ line = NoLine
    BY <1>1 DEF MayWrite
  <1>3. Shaped(author) /\ author # <<>> /\ Head(author) \in Bodies /\ author \in Seq(Constructs)
    BY <1>1, <1>2, RestFacts DEF Inside, Bodies
  <1>4. Ranked(author, rank) /\ rank' \in 0 .. 5 /\ IsContract(wrote') /\ wrote'.behaviors \in Seq(PinnedRef)
    BY <1>1 DEF Good, Typed
  <1>5. ASSUME NEW word \in {"stmt", "SCOPE", "END_SCOPE"}, NEW extra \in {"none", "string"}, NEW a, NEW slip,
               Write(Line(word, "none", extra, <<>>, TRUE), a, slip),
               slip \subseteq {"literal"}, "literal" \in slip <=> word = "stmt" /\ extra = "string" /\ "indented" \in slips,
               Statement(Line(word, "none", extra, <<>>, TRUE), author, a),
               Shaped(a), a # <<>>, Head(a) \in Bodies, a[Len(a)] = author[Len(author)], Ranked(a, rank)
        PROVE  Good'
    <2> DEFINE l == Line(word, "none", extra, <<>>, TRUE)
    <2>1. l = Line(l.word, l.tail, l.extra, l.items, l.indent) /\ l.indent \in BOOLEAN /\ l.word = word /\ l.extra = extra
      BY DEF Line
    <2>2. Write(l, a, slip) /\ Fits(l, author, a)
      BY <1>5 DEF Fits
    <2> HIDE DEF l
    <2>3. Head(a) # "description" /\ Head(author) # "description" /\ Head(a) \notin {"contract", "requires"}
      BY <1>3, <1>5 DEF Bodies
    <2>4. l.word \notin SectionWords \cup {"DESCRIPTION"} /\ l.word \notin {"none", "EOF", "REQUIRES", "ref"}
      BY <2>1 DEF SectionWords
    <2>5. Nested' /\ Lexing'
      BY <1>1, <1>3, <1>5, <2>2, <2>3, <2>4, SameText
    <2>6. Agreeing'
      BY <1>1, <1>5, <2>2, <2>3, NoContractTouched
    <2>7. /\ "number" \in slip <=> l.extra = "number"
          /\ "pinned" \in slip <=> l.word \in {"REQUIRES", "ref"} /\ BehaviorRefs(l.items).stuck
          /\ "literal" \in slip <=> l.word = "stmt" /\ l.extra = "string" /\ "indented" \in slips \cup slip
          /\ slip \subseteq {"indented", "number", "again", "pin", "pinned", "literal"}
      BY <1>5, <2>1, <2>4
    <2>8. Ranked(a, rank')
      BY <1>1, <1>5
    <2> QED BY <1>1, <1>4, <1>5, <2>1, <2>2, <2>4, <2>5, <2>6, <2>7, <2>8, WriteStep
  <1>6. CASE \E extra \in {"none", "string"} :
               Write(Line("stmt", "none", extra, <<>>, TRUE), author,
                     IF extra = "string" /\ "indented" \in slips THEN {"literal"} ELSE {})
    <2>1. PICK extra \in {"none", "string"} :
            Write(Line("stmt", "none", extra, <<>>, TRUE), author,
                  IF extra = "string" /\ "indented" \in slips THEN {"literal"} ELSE {})
      BY <1>6
    <2> DEFINE slip == IF extra = "string" /\ "indented" \in slips THEN {"literal"} ELSE {}
    <2>2. Write(Line("stmt", "none", extra, <<>>, TRUE), author, slip)
      BY <2>1
    <2>3. slip \subseteq {"literal"} /\ ("literal" \in slip <=> extra = "string" /\ "indented" \in slips)
      OBVIOUS
    <2> HIDE DEF slip
    <2>4. Statement(Line("stmt", "none", extra, <<>>, TRUE), author, author)
      BY <1>3 DEF Statement, Line
    <2> QED BY <1>3, <1>4, <1>5, <2>2, <2>3, <2>4
  <1>7. CASE Write(Line("SCOPE", "none", "none", <<>>, TRUE), <<"scope">> \o author, {})
    <2> DEFINE a == <<"scope">> \o author
    <2>1. /\ Shaped(a) /\ a # <<>> /\ Head(a) = "scope" /\ a[Len(a)] = author[Len(author)]
      <3>1. "scope" \in Constructs /\ Under["scope"] = Bodies
        BY DEF Constructs, Under
      <3>2. Shaped(a)
        BY <1>3, <3>1, ShapedPush
      <3> QED BY <1>3, <3>1, <3>2, PushFacts, TailFacts
    <2>2. Ranked(a, rank)
      BY <1>3, <1>4, RankedPush DEF Constructs
    <2>3. Statement(Line("SCOPE", "none", "none", <<>>, TRUE), author, a)
      BY <1>3 DEF Statement, Line
    <2>4. Write(Line("SCOPE", "none", "none", <<>>, TRUE), a, {})
      BY <1>7
    <2> DEFINE slip == {}
               word == "SCOPE"
    <2>5. /\ slip \subseteq {"literal"} /\ ("literal" \in slip <=> word = "stmt" /\ "none" = "string" /\ "indented" \in slips)
          /\ word \in {"stmt", "SCOPE", "END_SCOPE"} /\ "none" \in {"none", "string"} /\ Head(a) \in Bodies
      BY <2>1 DEF Bodies
    <2>6. Write(Line(word, "none", "none", <<>>, TRUE), a, slip) /\ Statement(Line(word, "none", "none", <<>>, TRUE), author, a)
      BY <2>3, <2>4
    <2> HIDE DEF a, slip, word
    <2> QED BY <1>5, <2>1, <2>2, <2>5, <2>6
  <1>8. CASE Inside = "scope" /\ Write(Line("END_SCOPE", "none", "none", <<>>, TRUE), Tail(author), {})
    <2> DEFINE a == Tail(author)
    <2>1. Head(author) = "scope"
      BY <1>3, <1>8 DEF Inside
    <2>2. Shaped(a) /\ a # <<>> /\ Head(a) \in Under["scope"]
      BY <1>3, <2>1, ShapedUnder DEF Definitions
    <2>3. a[Len(a)] = author[Len(author)]
      BY <1>3, <2>2, TailFacts
    <2>4. Ranked(a, rank)
      BY <1>3, <1>4, RankedTail
    <2>5. Statement(Line("END_SCOPE", "none", "none", <<>>, TRUE), author, a)
      BY <1>3, <2>1 DEF Statement, Line
    <2>6. Write(Line("END_SCOPE", "none", "none", <<>>, TRUE), a, {}) /\ Head(a) \in Bodies
      BY <1>8, <2>2 DEF Under
    <2> DEFINE slip == {}
               word == "END_SCOPE"
    <2>7. /\ slip \subseteq {"literal"} /\ ("literal" \in slip <=> word = "stmt" /\ "none" = "string" /\ "indented" \in slips)
          /\ word \in {"stmt", "SCOPE", "END_SCOPE"} /\ "none" \in {"none", "string"}
      OBVIOUS
    <2>8. Write(Line(word, "none", "none", <<>>, TRUE), a, slip) /\ Statement(Line(word, "none", "none", <<>>, TRUE), author, a)
      BY <2>5, <2>6
    <2> HIDE DEF a, slip, word
    <2> QED BY <1>5, <2>2, <2>3, <2>4, <2>6, <2>7, <2>8
  <1> QED BY <1>6, <1>7, <1>8 DEF WriteStatement

(* What was written and what was parsed stay related by a clause. *)
LEMMA AgreeMore ==
    ASSUME NEW p, NEW w, NEW p2, NEW w2, IsContract(p), IsContract(w), IsContract(p2), IsContract(w2),
           NEW s \in BOOLEAN, NEW s2 \in BOOLEAN, Agree(p, w, s),
           Len(p2.behaviors) <= Len(w2.behaviors) /\ Len(p2.memory) <= Len(w2.memory) /\ Len(p2.guarantees) <= Len(w2.guarantees),
           s2 => \/ Len(p2.behaviors) < Len(w2.behaviors) \/ Len(p2.memory) < Len(w2.memory)
                 \/ Len(p2.guarantees) < Len(w2.guarantees),
           ~s2 => ~s,
           ~s2 => (p.behaviors = w.behaviors => p2.behaviors = w2.behaviors),
           ~s2 => (p.memory = w.memory => p2.memory = w2.memory),
           ~s2 => (p.guarantees = w.guarantees => p2.guarantees = w2.guarantees)
    PROVE  Agree(p2, w2, s2)
  <1>1. CASE s2
    BY <1>1 DEF Agree
  <1>2. CASE ~s2
    <2>1. p = w
      BY <1>2 DEF Agree
    <2>2. p2.behaviors = w2.behaviors /\ p2.memory = w2.memory /\ p2.guarantees = w2.guarantees
      BY <1>2, <2>1
    <2>3. p2 = w2
      BY <2>2 DEF IsContract
    <2> QED BY <1>2, <2>3 DEF Agree
  <1> QED BY <1>1, <1>2

(* A clause of a contract leads the parser to the clause. *)
LEMMA ClauseStep ==
    ASSUME Good, MayWrite, Inside \in {"contract", "requires"}, rank' = rank,
           NEW word \in Clauses \cup {"ref"}, NEW items, NEW a, NEW slip,
           Write(Line(word, "none", "none", items, TRUE), a, slip),
           Clause(Line(word, "none", "none", items, TRUE), author, a),
           a \in {ContractOf(author), <<"requires">> \o ContractOf(author)},
           slip \subseteq {"again", "pin", "pinned"},
           "pinned" \in slip <=> word \in {"REQUIRES", "ref"} /\ BehaviorRefs(items).stuck,
           IsContract(wrote'), wrote'.behaviors \in Seq(PinnedRef),
           Agree(ParsedAfter(Line(word, "none", "none", items, TRUE), parsed), wrote', (slip \cup slips) \cap {"again", "pin"} # {})
    PROVE  Good'
  <1> DEFINE l == Line(word, "none", "none", items, TRUE)
             c == ContractOf(author)
  <1>1. status = "reading" /\ line = NoLine
    BY DEF MayWrite
  <1>2. Shaped(author) /\ author # <<>> /\ Head(author) \in {"contract", "requires"} /\ author \in Seq(Constructs)
    BY <1>1, RestFacts DEF Inside
  <1>3. Ranked(author, rank) /\ rank \in 0 .. 5
    BY DEF Good, Typed
  <1>4. rank = 2
    <2>1. 1 \in DOMAIN author /\ Head(author) = author[1]
      BY <1>2
    <2> QED BY <1>2, <1>3, <2>1 DEF Ranked, Definitions, RankIn
  <1>5. Shaped(c) /\ c # <<>> /\ Head(c) = "contract" /\ Ranked(c, rank) /\ c[Len(c)] = author[Len(author)] /\ c \in Seq(Constructs)
    <2>1. CASE Head(author) = "contract"
      BY <1>2, <1>3, <2>1 DEF ContractOf
    <2>2. CASE Head(author) = "requires"
      <3>1. Shaped(Tail(author)) /\ Tail(author) # <<>> /\ Head(Tail(author)) = "contract"
        BY <1>2, <2>2, OpenOnTop DEF OpenEnded
      <3>2. Ranked(Tail(author), rank)
        BY <1>2, <1>3, RankedTail
      <3>3. Tail(author)[Len(Tail(author))] = author[Len(author)]
        BY <1>2, <3>1, TailFacts
      <3> QED BY <2>2, <3>1, <3>2, <3>3 DEF ContractOf, Shaped
    <2> QED BY <1>2, <2>1, <2>2
  <1>6. /\ Shaped(a) /\ a # <<>> /\ Head(a) \in {"contract", "requires"}
        /\ Ranked(a, rank) /\ a[Len(a)] = author[Len(author)]
    <2> HIDE DEF c
    <2>1. CASE a = c
      BY <1>5, <2>1
    <2>2. CASE a = <<"requires">> \o c
      <3>1. "requires" \in Constructs /\ "contract" \in Under["requires"] /\ RankIn["requires"] = 2
        BY DEF Constructs, OpenEnded, Under, RankIn
      <3>2. Shaped(<<"requires">> \o c) /\ Ranked(<<"requires">> \o c, rank)
        BY <1>4, <1>5, <3>1, ShapedPush, RankedPush
      <3>3. <<"requires">> \o c # <<>> /\ Head(<<"requires">> \o c) = "requires"
        BY <1>5, <3>1, PushFacts
      <3>4. (<<"requires">> \o c)[Len(<<"requires">> \o c)] = c[Len(c)]
        BY <1>5, <3>1, PushFacts, TailFacts
      <3> QED BY <1>5, <2>2, <3>2, <3>3, <3>4
    <2> QED BY <2>1, <2>2 DEF c
  <1>7. l = Line(l.word, l.tail, l.extra, l.items, l.indent) /\ l.indent \in BOOLEAN /\ l.word = word /\ l.extra = "none" /\ l.items = items
    BY DEF Line
  <1>8. Write(l, a, slip) /\ Fits(l, author, a)
    BY DEF Fits
  <1>9. Agree(ParsedAfter(l, parsed), wrote', (slip \cup slips) \cap {"again", "pin"} # {})
    OBVIOUS
  <1> HIDE DEF l, c
  <1>10. l.word \notin SectionWords \cup {"DESCRIPTION"} /\ l.word \notin {"none", "EOF", "stmt"}
    BY <1>7 DEF SectionWords, Clauses
  <1>11. Nested' /\ Lexing'
    BY <1>2, <1>6, <1>8, <1>10, SameText
  <1>12. Agreeing'
    <2>1. "contract" \in Range(a)
      BY <1>6, ContractOnTop
    <2>2. slips' = slip \cup slips /\ author' = a /\ line' = l /\ parsed' = parsed
      BY <1>8, <2>1 DEF Write
    <2> QED BY <1>6, <1>9, <2>2 DEF Agreeing, Inside
  <1>13. /\ "number" \in slip <=> l.extra = "number"
         /\ "pinned" \in slip <=> l.word \in {"REQUIRES", "ref"} /\ BehaviorRefs(l.items).stuck
         /\ "literal" \in slip <=> l.word = "stmt" /\ l.extra = "string" /\ "indented" \in slips \cup slip
         /\ slip \subseteq {"indented", "number", "again", "pin", "pinned", "literal"}
    BY <1>7, <1>10
  <1>14. rank' \in 0 .. 5 /\ Ranked(a, rank')
    BY <1>3, <1>6
  <1> QED BY <1>6, <1>7, <1>8, <1>10, <1>11, <1>12, <1>13, <1>14, WriteStep

(* Every clause of a contract keeps the parser in step, also where it      *)
(* loses what an earlier clause said (parse_contract, parse_requires).     *)
LEMMA ClauseKeeps ==
    ASSUME Good, WriteClause
    PROVE  Good'
  <1>1. MayWrite /\ Inside \in {"contract", "requires"} /\ rank' = rank
    BY DEF WriteClause
  <1>2. status = "reading" /\ line = NoLine
    BY <1>1 DEF MayWrite
  <1>3. Shaped(author) /\ author # <<>> /\ Head(author) = Inside /\ author \in Seq(Constructs)
    BY <1>1, <1>2, RestFacts DEF Inside
  <1> DEFINE c == ContractOf(author)
             slipped == slips \cap {"again", "pin"} # {}
  <1>4. /\ IsContract(wrote) /\ wrote.behaviors \in Seq(PinnedRef) /\ IsContract(parsed)
        /\ Agree(parsed, wrote, slipped) /\ slipped \in BOOLEAN
    BY <1>1, <1>2, RestFacts DEF Good, Typed
  <1>5. /\ wrote = [behaviors |-> wrote.behaviors, memory |-> wrote.memory, guarantees |-> wrote.guarantees]
        /\ parsed = [behaviors |-> parsed.behaviors, memory |-> parsed.memory, guarantees |-> parsed.guarantees]
        /\ wrote.memory \in Seq(Named) /\ wrote.guarantees \in Seq(Named)
        /\ parsed.memory \in Seq(Named) /\ parsed.guarantees \in Seq(Named)
        /\ Len(parsed.behaviors) \in Nat
    BY <1>4 DEF IsContract
  <1>6. /\ Len(parsed.behaviors) <= Len(wrote.behaviors) /\ Len(parsed.memory) <= Len(wrote.memory)
        /\ Len(parsed.guarantees) <= Len(wrote.guarantees)
        /\ slipped => \/ Len(parsed.behaviors) < Len(wrote.behaviors) \/ Len(parsed.memory) < Len(wrote.memory)
                      \/ Len(parsed.guarantees) < Len(wrote.guarantees)
        /\ ~slipped => parsed = wrote
    BY <1>4 DEF Agree
  <1>7. /\ Len(wrote.behaviors) \in Nat /\ Len(wrote.memory) \in Nat /\ Len(wrote.guarantees) \in Nat
        /\ Len(parsed.memory) \in Nat /\ Len(parsed.guarantees) \in Nat
        /\ Len(wrote.behaviors) = 0 <=> wrote.behaviors = <<>>
        /\ Len(wrote.memory) = 0 <=> wrote.memory = <<>>
        /\ Len(wrote.guarantees) = 0 <=> wrote.guarantees = <<>>
    BY <1>4, <1>5
  <1>8. c = IF Inside = "requires" THEN Tail(author) ELSE author
    BY <1>3 DEF ContractOf
  <1> HIDE DEF slipped, c
  <1>9. CASE \E w \in {"INPUT", "OUTPUT"} : Write(Line(w, "none", "none", <<>>, TRUE), c, {}) /\ UNCHANGED wrote
    <2>1. PICK w \in {"INPUT", "OUTPUT"} : Write(Line(w, "none", "none", <<>>, TRUE), c, {}) /\ wrote' = wrote
      BY <1>9
    <2> DEFINE slip == {}
               items == <<>>
               l == Line(w, "none", "none", items, TRUE)
    <2>2. Clause(l, author, c)
      BY <1>1, <1>3, <1>8 DEF Clause, Line, c
    <2>3. ParsedAfter(l, parsed) = parsed
      BY DEF ParsedAfter, Line
    <2>4. /\ slip \subseteq {"again", "pin", "pinned"} /\ w \in Clauses /\ w \notin {"REQUIRES", "ref"} /\ "pinned" \notin slip
          /\ ((slip \cup slips) \cap {"again", "pin"} # {}) = slipped
      BY DEF Clauses, slipped
    <2>5. Write(l, c, slip) /\ IsContract(wrote') /\ wrote'.behaviors \in Seq(PinnedRef)
          /\ Agree(ParsedAfter(l, parsed), wrote', (slip \cup slips) \cap {"again", "pin"} # {})
      BY <1>4, <2>1, <2>3, <2>4
    <2> HIDE DEF slip, items
    <2> QED BY <1>1, <2>2, <2>4, <2>5, ClauseStep DEF c
  <1>10. CASE /\ Write(Line("MEMORY", "none", "none", <<"m">>, TRUE), c, {})
              /\ wrote' = [wrote EXCEPT !.memory = Append(@, "m")]
    <2> DEFINE slip == {}
               items == <<"m">>
               word == "MEMORY"
               l == Line(word, "none", "none", items, TRUE)
    <2>1. items \in Seq(Named) /\ Len(items) = 1 /\ Append(wrote.memory, "m") = wrote.memory \o items
      <3> DEFINE m == "m"
                 s == wrote.memory
      <3>1. m \in Named /\ s \in Seq(Named)
        BY <1>5 DEF Named
      <3> HIDE DEF m, s
      <3>2. <<m>> \in Seq(Named) /\ Len(<<m>>) = 1
        BY <3>1
      <3>3. Append(s, m) = s \o <<m>>
        BY <3>1, AppendIsConcat
      <3> QED BY <3>2, <3>3 DEF m, s
    <2>2. Clause(l, author, c)
      BY <1>1, <1>3, <1>8, <2>1 DEF Clause, Line, c
    <2>3. ParsedAfter(l, parsed) = [behaviors |-> parsed.behaviors, memory |-> parsed.memory \o items, guarantees |-> parsed.guarantees]
      BY <1>5 DEF ParsedAfter, Line
    <2>4. wrote' = [behaviors |-> wrote.behaviors, memory |-> wrote.memory \o items, guarantees |-> wrote.guarantees]
      BY <1>5, <1>10, <2>1
    <2>5. /\ slip \subseteq {"again", "pin", "pinned"} /\ word \in Clauses /\ word \notin {"REQUIRES", "ref"} /\ "pinned" \notin slip
          /\ ((slip \cup slips) \cap {"again", "pin"} # {}) = slipped
      BY DEF Clauses, slipped
    <2>6. Write(l, c, slip)
      BY <1>10
    <2> HIDE DEF slip, items, word, l
    <2>7. /\ wrote.memory \o items \in Seq(Named) /\ Len(wrote.memory \o items) = Len(wrote.memory) + 1
          /\ parsed.memory \o items \in Seq(Named) /\ Len(parsed.memory \o items) = Len(parsed.memory) + 1
      BY <1>5, <2>1
    <2>8. IsContract(wrote') /\ wrote'.behaviors \in Seq(PinnedRef) /\ IsContract(ParsedAfter(l, parsed))
      BY <1>4, <1>5, <1>7, <2>3, <2>4, <2>7 DEF IsContract
    <2>9. Agree(ParsedAfter(l, parsed), wrote', slipped)
      <3> DEFINE p2 == ParsedAfter(l, parsed)
                 w2 == wrote'
      <3>1. /\ p2.behaviors = parsed.behaviors /\ p2.memory = parsed.memory \o items /\ p2.guarantees = parsed.guarantees
            /\ w2.behaviors = wrote.behaviors /\ w2.memory = wrote.memory \o items /\ w2.guarantees = wrote.guarantees
        BY <2>3, <2>4
      <3>2. Len(p2.behaviors) <= Len(w2.behaviors) /\ Len(p2.memory) <= Len(w2.memory) /\ Len(p2.guarantees) <= Len(w2.guarantees)
        BY <1>6, <1>7, <2>7, <3>1
      <3>3. slipped => \/ Len(p2.behaviors) < Len(w2.behaviors) \/ Len(p2.memory) < Len(w2.memory)
                       \/ Len(p2.guarantees) < Len(w2.guarantees)
        BY <1>5, <1>6, <1>7, <2>7, <3>1
      <3>4. /\ ~slipped => ~slipped
            /\ ~slipped => (parsed.behaviors = wrote.behaviors => p2.behaviors = w2.behaviors)
            /\ ~slipped => (parsed.memory = wrote.memory => p2.memory = w2.memory)
            /\ ~slipped => (parsed.guarantees = wrote.guarantees => p2.guarantees = w2.guarantees)
        BY <2>7, <3>1
      <3>5. IsContract(p2) /\ IsContract(w2)
        BY <2>8
      <3> HIDE DEF p2, w2
      <3>6. Agree(p2, w2, slipped)
        BY <1>4, <2>7, <3>2, <3>3, <3>4, <3>5, AgreeMore
      <3> QED BY <3>6 DEF p2, w2
    <2> QED BY <1>1, <2>2, <2>5, <2>6, <2>8, <2>9, ClauseStep DEF c, l
  <1>11. CASE \E g \in {<<"pure">>, <<"no_alloc", "writes_output">>} :
                /\ Write(Line("GUARANTEES", "none", "none", g, TRUE), c, IF wrote.guarantees # <<>> THEN {"again"} ELSE {})
                /\ wrote' = [wrote EXCEPT !.guarantees = @ \o g]
    <2>1. PICK g \in {<<"pure">>, <<"no_alloc", "writes_output">>} :
            /\ Write(Line("GUARANTEES", "none", "none", g, TRUE), c, IF wrote.guarantees # <<>> THEN {"again"} ELSE {})
            /\ wrote' = [wrote EXCEPT !.guarantees = @ \o g]
      BY <1>11
    <2> DEFINE slip == IF wrote.guarantees # <<>> THEN {"again"} ELSE {}
               word == "GUARANTEES"
               l == Line(word, "none", "none", g, TRUE)
    <2>2. g \in Seq(Named) /\ Len(g) \in Nat
      <3>1. ASSUME NEW x \in Named, NEW y \in Named
            PROVE  <<x>> \in Seq(Named) /\ Len(<<x>>) \in Nat /\ <<x, y>> \in Seq(Named) /\ Len(<<x, y>>) \in Nat
        BY <3>1
      <3>2. "pure" \in Named /\ "no_alloc" \in Named /\ "writes_output" \in Named
        BY DEF Named
      <3>3. CASE g = <<"pure">>
        BY <3>1, <3>2, <3>3
      <3>4. CASE g = <<"no_alloc", "writes_output">>
        BY <3>1, <3>2, <3>4
      <3> QED BY <2>1, <3>3, <3>4
    <2>3. Clause(l, author, c)
      BY <1>1, <1>3, <1>8, <2>2 DEF Clause, Line, c
    <2>4. ParsedAfter(l, parsed) = [behaviors |-> parsed.behaviors, memory |-> parsed.memory, guarantees |-> g]
      BY <1>5 DEF ParsedAfter, Line
    <2>5. wrote' = [behaviors |-> wrote.behaviors, memory |-> wrote.memory, guarantees |-> wrote.guarantees \o g]
      BY <1>5, <2>1
    <2>6. /\ slip \subseteq {"again", "pin", "pinned"} /\ word \in Clauses /\ word \notin {"REQUIRES", "ref"} /\ "pinned" \notin slip
          /\ (slip \cup slips) \cap {"again", "pin"} # {} <=> slipped \/ wrote.guarantees # <<>>
      BY DEF Clauses, slipped
    <2>7. Write(l, c, slip)
      BY <2>1
    <2> DEFINE after == (slip \cup slips) \cap {"again", "pin"} # {}
    <2> HIDE DEF slip, word, l
    <2>8. wrote.guarantees \o g \in Seq(Named) /\ Len(wrote.guarantees \o g) = Len(wrote.guarantees) + Len(g)
      BY <1>5, <2>2
    <2>9. IsContract(wrote') /\ wrote'.behaviors \in Seq(PinnedRef) /\ IsContract(ParsedAfter(l, parsed))
      BY <1>4, <1>5, <1>7, <2>2, <2>4, <2>5, <2>8 DEF IsContract
    <2>10. wrote.guarantees = <<>> => wrote.guarantees \o g = g
      BY <2>2
    <2>11. after \in BOOLEAN /\ (after <=> slipped \/ wrote.guarantees # <<>>)
      BY <2>6
    <2> HIDE DEF after
    <2>12. Agree(ParsedAfter(l, parsed), wrote', after)
      <3> DEFINE p2 == ParsedAfter(l, parsed)
                 w2 == wrote'
      <3>1. /\ p2.behaviors = parsed.behaviors /\ p2.memory = parsed.memory /\ p2.guarantees = g
            /\ w2.behaviors = wrote.behaviors /\ w2.memory = wrote.memory /\ w2.guarantees = wrote.guarantees \o g
        BY <2>4, <2>5
      <3>2. Len(p2.behaviors) <= Len(w2.behaviors) /\ Len(p2.memory) <= Len(w2.memory) /\ Len(p2.guarantees) <= Len(w2.guarantees)
        BY <1>6, <1>7, <2>2, <2>8, <2>10, <2>11, <3>1
      <3>3. after => \/ Len(p2.behaviors) < Len(w2.behaviors) \/ Len(p2.memory) < Len(w2.memory)
                       \/ Len(p2.guarantees) < Len(w2.guarantees)
        BY <1>5, <1>6, <1>7, <2>2, <2>8, <2>10, <2>11, <3>1
      <3>4. /\ ~after => ~slipped
            /\ ~after => (parsed.behaviors = wrote.behaviors => p2.behaviors = w2.behaviors)
            /\ ~after => (parsed.memory = wrote.memory => p2.memory = w2.memory)
            /\ ~after => (parsed.guarantees = wrote.guarantees => p2.guarantees = w2.guarantees)
        BY <2>2, <2>8, <2>10, <2>11, <3>1
      <3>5. IsContract(p2) /\ IsContract(w2)
        BY <2>9
      <3> HIDE DEF p2, w2
      <3>6. Agree(p2, w2, after)
        BY <1>4, <2>2, <2>8, <2>10, <2>11, <3>2, <3>3, <3>4, <3>5, AgreeMore
      <3> QED BY <3>6 DEF p2, w2
    <2> QED BY <1>1, <2>3, <2>6, <2>7, <2>9, <2>12, ClauseStep DEF c, l, after
  <1>12. ASSUME NEW word \in {"REQUIRES", "ref"}, NEW refs \in RefLines \cup {<<>>}, NEW again \in BOOLEAN,
                Write(Line(word, "none", "none", refs, TRUE), <<"requires">> \o c, PinSlips(refs) \cup (IF again THEN {"again"} ELSE {})),
                wrote' = [wrote EXCEPT !.behaviors = @ \o refs],
                Clause(Line(word, "none", "none", refs, TRUE), author, <<"requires">> \o c),
                again <=> wrote.behaviors # <<>> \/ (word = "REQUIRES" /\ wrote.memory # <<>>)
         PROVE  Good'
    <2> DEFINE slip == PinSlips(refs) \cup (IF again THEN {"again"} ELSE {})
               l == Line(word, "none", "none", refs, TRUE)
               r == BehaviorRefs(refs).refs
               a == <<"requires">> \o c
               after == (slip \cup slips) \cap {"again", "pin"} # {}
               memory == IF word = "REQUIRES" THEN <<>> ELSE parsed.memory
    <2>1. refs \in Seq(PinnedRef) /\ Len(refs) \in Nat
      <3>1. CASE refs \in RefLines
        <4>1. refs \in Seq(PinnedRef)
          BY <3>1, FrontEndAssumption
        <4> QED BY <4>1
      <3>2. CASE refs = <<>>
        BY <3>2
      <3> QED BY <3>1, <3>2
    <2>2. Len(r) \in Nat /\ Len(r) <= Len(refs) /\ IF Swallowed(refs) = {} THEN r = refs ELSE Len(r) < Len(refs)
      BY <2>1, RefsKept
    <2>3. /\ slip \subseteq {"again", "pin", "pinned"}
          /\ "pinned" \in slip <=> BehaviorRefs(refs).stuck
          /\ after <=> slipped \/ again \/ Swallowed(refs) # {}
      BY <2>1, SlipsFound DEF slipped
    <2>4. ParsedAfter(l, parsed) = [behaviors |-> r, memory |-> memory, guarantees |-> parsed.guarantees]
      BY <1>5 DEF ParsedAfter, Line
    <2>5. wrote' = [behaviors |-> wrote.behaviors \o refs, memory |-> wrote.memory, guarantees |-> wrote.guarantees]
      BY <1>5, <1>12
    <2>6. memory \in Seq(Named) /\ Len(memory) \in Nat /\ Len(memory) <= Len(wrote.memory)
          /\ (~again /\ parsed.memory = wrote.memory => memory = wrote.memory)
          /\ (~again => (word = "REQUIRES" => Len(wrote.memory) = 0))
          /\ (word = "REQUIRES" => Len(memory) = 0) /\ (word # "REQUIRES" => memory = parsed.memory)
      <3>1. CASE word = "REQUIRES"
        BY <1>7, <1>12, <3>1
      <3>2. CASE word # "REQUIRES"
        BY <1>5, <1>6, <1>7, <3>2
      <3> QED BY <3>1, <3>2
    <2>7. Write(l, a, slip) /\ Clause(l, author, a) /\ after \in BOOLEAN
      BY <1>12
    <2> HIDE DEF slip, l, r, a, after, memory
    <2>8. wrote.behaviors \o refs \in Seq(PinnedRef) /\ Len(wrote.behaviors \o refs) = Len(wrote.behaviors) + Len(refs)
          /\ (wrote.behaviors = <<>> => wrote.behaviors \o refs = refs)
      BY <1>4, <2>1
    <2>9. IsContract(wrote') /\ wrote'.behaviors \in Seq(PinnedRef) /\ IsContract(ParsedAfter(l, parsed))
      BY <1>5, <1>7, <2>1, <2>2, <2>4, <2>5, <2>6, <2>8 DEF IsContract
    <2>10. after => \/ Len(r) < Len(wrote.behaviors) + Len(refs) \/ Len(memory) < Len(wrote.memory)
                    \/ Len(parsed.guarantees) < Len(wrote.guarantees)
      <3>1. CASE again
        BY <1>7, <1>12, <2>1, <2>2, <2>6, <3>1
      <3>2. CASE ~again /\ Swallowed(refs) # {}
        BY <1>7, <2>1, <2>2, <3>2
      <3>3. CASE slipped /\ ~again
        <4>1. Len(wrote.behaviors) = 0 /\ ~(Len(parsed.behaviors) < Len(wrote.behaviors))
          BY <1>5, <1>7, <1>12, <3>3
        <4>2. Len(parsed.memory) < Len(wrote.memory) \/ Len(parsed.guarantees) < Len(wrote.guarantees)
          BY <1>6, <3>3, <4>1
        <4>3. word = "REQUIRES" => ~(Len(parsed.memory) < Len(wrote.memory))
          BY <1>7, <2>6, <3>3
        <4> QED BY <2>6, <4>2, <4>3
      <3> QED BY <2>3, <3>1, <3>2, <3>3
    <2>11. ~after => /\ ~slipped /\ r = wrote.behaviors \o refs
                     /\ parsed.memory = wrote.memory => memory = wrote.memory
      BY <1>12, <2>2, <2>3, <2>6, <2>8
    <2>12. Agree(ParsedAfter(l, parsed), wrote', after)
      <3> DEFINE p2 == ParsedAfter(l, parsed)
                 w2 == wrote'
      <3>1. /\ p2.behaviors = r /\ p2.memory = memory /\ p2.guarantees = parsed.guarantees
            /\ w2.behaviors = wrote.behaviors \o refs /\ w2.memory = wrote.memory /\ w2.guarantees = wrote.guarantees
        BY <2>4, <2>5
      <3>2. Len(p2.behaviors) <= Len(w2.behaviors) /\ Len(p2.memory) <= Len(w2.memory) /\ Len(p2.guarantees) <= Len(w2.guarantees)
        BY <1>6, <1>7, <2>1, <2>2, <2>6, <2>8, <3>1
      <3>3. after => \/ Len(p2.behaviors) < Len(w2.behaviors) \/ Len(p2.memory) < Len(w2.memory)
                     \/ Len(p2.guarantees) < Len(w2.guarantees)
        BY <2>8, <2>10, <3>1
      <3>4. /\ ~after => ~slipped
            /\ ~after => (parsed.behaviors = wrote.behaviors => p2.behaviors = w2.behaviors)
            /\ ~after => (parsed.memory = wrote.memory => p2.memory = w2.memory)
            /\ ~after => (parsed.guarantees = wrote.guarantees => p2.guarantees = w2.guarantees)
        BY <2>11, <3>1
      <3>5. IsContract(p2) /\ IsContract(w2)
        BY <2>9
      <3> HIDE DEF p2, w2
      <3>6. Agree(p2, w2, after)
        BY <1>4, <2>7, <3>2, <3>3, <3>4, <3>5, AgreeMore
      <3> QED BY <3>6 DEF p2, w2
    <2>13. word \in Clauses \cup {"ref"}
      BY DEF Clauses
    <2>14. a \in {ContractOf(author), <<"requires">> \o ContractOf(author)}
      BY DEF a, c
    <2> QED BY <1>1, <2>3, <2>7, <2>9, <2>12, <2>13, <2>14, ClauseStep DEF l, after
  <1>13. CASE \E refs \in RefLines \cup {<<>>} :
                /\ Write(Line("REQUIRES", "none", "none", refs, TRUE), <<"requires">> \o c,
                         PinSlips(refs) \cup (IF wrote.behaviors # <<>> \/ wrote.memory # <<>> THEN {"again"} ELSE {}))
                /\ wrote' = [wrote EXCEPT !.behaviors = @ \o refs]
    <2>1. PICK refs \in RefLines \cup {<<>>} :
            /\ Write(Line("REQUIRES", "none", "none", refs, TRUE), <<"requires">> \o c,
                     PinSlips(refs) \cup (IF wrote.behaviors # <<>> \/ wrote.memory # <<>> THEN {"again"} ELSE {}))
            /\ wrote' = [wrote EXCEPT !.behaviors = @ \o refs]
      BY <1>13
    <2> DEFINE again == wrote.behaviors # <<>> \/ wrote.memory # <<>>
               word == "REQUIRES"
    <2>2. Clause(Line(word, "none", "none", refs, TRUE), author, <<"requires">> \o c)
      BY <1>1, <1>3, <1>8 DEF Clause, Line, c
    <2>3. /\ again \in BOOLEAN /\ word \in {"REQUIRES", "ref"}
          /\ again <=> wrote.behaviors # <<>> \/ (word = "REQUIRES" /\ wrote.memory # <<>>)
      OBVIOUS
    <2>4. Write(Line(word, "none", "none", refs, TRUE), <<"requires">> \o c, PinSlips(refs) \cup (IF again THEN {"again"} ELSE {}))
      BY <2>1
    <2> HIDE DEF again, word
    <2> QED BY <1>12, <2>1, <2>2, <2>3, <2>4
  <1>14. CASE /\ Inside = "requires"
              /\ \E refs \in RefLines :
                   /\ Write(Line("ref", "none", "none", refs, TRUE), <<"requires">> \o c,
                            PinSlips(refs) \cup (IF wrote.behaviors # <<>> THEN {"again"} ELSE {}))
                   /\ wrote' = [wrote EXCEPT !.behaviors = @ \o refs]
    <2>1. PICK refs \in RefLines :
            /\ Write(Line("ref", "none", "none", refs, TRUE), <<"requires">> \o c,
                     PinSlips(refs) \cup (IF wrote.behaviors # <<>> THEN {"again"} ELSE {}))
            /\ wrote' = [wrote EXCEPT !.behaviors = @ \o refs]
      BY <1>14
    <2> DEFINE again == wrote.behaviors # <<>>
               word == "ref"
    <2>2. <<"requires">> \o c = author
      <3>1. c = Tail(author) /\ Head(author) = "requires"
        BY <1>3, <1>8, <1>14
      <3> QED BY <1>3, <3>1
    <2>3. Clause(Line(word, "none", "none", refs, TRUE), author, <<"requires">> \o c)
      BY <1>3, <1>14, <2>2 DEF Clause, Line
    <2>4. /\ again \in BOOLEAN /\ word \in {"REQUIRES", "ref"}
          /\ again <=> wrote.behaviors # <<>> \/ (word = "REQUIRES" /\ wrote.memory # <<>>)
      OBVIOUS
    <2>5. Write(Line(word, "none", "none", refs, TRUE), <<"requires">> \o c, PinSlips(refs) \cup (IF again THEN {"again"} ELSE {}))
      BY <2>1
    <2> HIDE DEF again, word
    <2> QED BY <1>12, <2>1, <2>3, <2>4, <2>5
  <1> QED BY <1>8, <1>9, <1>10, <1>11, <1>13, <1>14 DEF WriteClause

(* END leads back to what the behavior is in, whatever scopes were left    *)
(* open (parse_scope leaves END to its caller).                            *)
LEMMA EndKeeps ==
    ASSUME Good, WriteEnd
    PROVE  Good'
  <1> DEFINE e == Skip(author, {"scope"})
             a == AfterEnd(e)
             l == Line("END", "none", "none", <<>>, nested /\ a # <<>>)
             slip == {}
  <1>1. /\ MayWrite /\ wrote' = wrote /\ e # <<>> /\ Head(e) \in {"body", "platform", "behavior"}
        /\ Write(l, a, slip) /\ rank' = IF Head(e) # "platform" /\ a # <<>> THEN 3 ELSE rank
    BY DEF WriteEnd
  <1>2. status = "reading" /\ line = NoLine
    BY <1>1 DEF MayWrite
  <1>3. /\ Shaped(author) /\ author \in Seq(Constructs)
        /\ inDesc <=> (Inside = "description" \/ "indented" \in slips)
    BY <1>2, RestFacts
  <1>4. Shaped(e) /\ author # <<>> /\ e[Len(e)] = author[Len(author)] /\ e \in Seq(Constructs)
    BY <1>1, <1>3, ShapedSkip DEF Shaped
  <1>5. Head(author) = "scope" \/ e = author
    BY <1>3, SkipStays
  <1>6. Inside # "description" /\ (inDesc <=> "indented" \in slips)
    BY <1>1, <1>3, <1>4, <1>5 DEF Inside
  <1> HIDE DEF e
  <1>7. /\ Shaped(a) /\ (a # <<>> => Head(a) \in Definitions /\ a[Len(a)] = e[Len(e)])
        /\ e[Len(e)] = "pattern" => a # <<>>
    <2> DEFINE t == Tail(e)
    <2>1. CASE Head(e) = "body"
      <3>1. t # <<>> /\ Shaped(t) /\ Head(t) \in Under["body"]
        BY <1>1, <1>4, <2>1, ShapedUnder DEF Definitions
      <3>2. a = Tail(t) /\ Head(t) = "behavior"
        BY <2>1, <3>1 DEF AfterEnd, Under
      <3>3. t[Len(t)] = e[Len(e)]
        BY <1>1, <1>4, <3>1, TailFacts
      <3> HIDE DEF t, a
      <3>4. Shaped(a) /\ (a # <<>> => Head(a) \in Under["behavior"])
        BY <3>1, <3>2, ShapedTail
      <3>5. t \in Seq(Constructs)
        BY <3>1 DEF Shaped
      <3>6. a # <<>> => a[Len(a)] = t[Len(t)]
        BY <3>1, <3>2, <3>5, TailFacts
      <3>7. a = <<>> => t[Len(t)] = "behavior"
        BY <3>1, <3>2, <3>5, TailFacts
      <3> QED BY <3>3, <3>4, <3>6, <3>7 DEF Under, Definitions
    <2>2. CASE Head(e) = "platform"
      <3>1. a = t
        BY <2>2 DEF AfterEnd
      <3>2. t # <<>> /\ Shaped(t) /\ Head(t) \in Under["platform"]
        BY <1>1, <1>4, <2>2, ShapedUnder DEF Definitions
      <3>3. t[Len(t)] = e[Len(e)]
        BY <1>1, <1>4, <3>2, TailFacts
      <3> HIDE DEF t, a
      <3> QED BY <3>1, <3>2, <3>3 DEF Under, Definitions
    <2>3. CASE Head(e) = "behavior"
      <3>1. a = t
        BY <2>3 DEF AfterEnd
      <3>2. Shaped(t) /\ (t # <<>> => Head(t) \in Under["behavior"])
        BY <1>1, <1>4, <2>3, ShapedTail
      <3>3. t # <<>> => t[Len(t)] = e[Len(e)]
        BY <1>1, <1>4, TailFacts
      <3>4. t = <<>> => e[Len(e)] = "behavior"
        BY <1>1, <1>4, <2>3, TailFacts
      <3> HIDE DEF t, a
      <3> QED BY <3>1, <3>2, <3>3, <3>4 DEF Under, Definitions
    <2> QED BY <1>1, <2>1, <2>2, <2>3
  <1>8. nested \in BOOLEAN /\ rank \in 0 .. 5 /\ IsContract(wrote) /\ wrote.behaviors \in Seq(PinnedRef)
        /\ ("indented" \in slips => nested /\ author[Len(author)] = "pattern")
    BY <1>4 DEF Good, Typed, Nested
  <1>9. /\ l = Line(l.word, l.tail, l.extra, l.items, l.indent) /\ l.indent \in BOOLEAN /\ l.indent = (nested /\ a # <<>>)
        /\ l.word = "END" /\ l.extra = "none" /\ l.tail = "none"
    <2> HIDE DEF a
    <2> QED BY <1>8 DEF Line
  <1>10. Ending(l, author, a)
    <2>1. a = AfterEnd(e)
      OBVIOUS
    <2> HIDE DEF a, l
    <2> QED BY <1>1, <1>9, <2>1 DEF Ending, e
  <1>11. slip \subseteq {"indented", "number", "again", "pin", "pinned", "literal"} /\ slip = {}
    OBVIOUS
  <1> HIDE DEF a, l, slip
  <1>12. /\ author' = a /\ line' = l /\ lexed' = FALSE /\ UNCHANGED <<nested, inDesc, status>>
         /\ "indented" \in slips' <=> "indented" \in slips
    BY <1>1, <1>11 DEF Write
  <1>13. "indented" \in slips => nested /\ a # <<>> /\ a[Len(a)] = "pattern"
    BY <1>4, <1>7, <1>8
  <1>14. Inside' # "description" /\ Inside' \notin {"contract", "requires"}
    BY <1>7, <1>12 DEF Inside, Definitions
  <1>15. Nested'
    BY <1>12, <1>13, <1>14 DEF Nested
  <1>16. Lexing'
    <2>1. l # NoLine
      BY <1>9 DEF NoLine
    <2>2. Described' <=> inDesc /\ l.indent
      BY <1>9, <1>12, <2>1 DEF Described, SectionWords
    <2>3. inDesc /\ l.indent <=> "indented" \in slips
      BY <1>6, <1>9, <1>13
    <2> QED BY <1>12, <1>14, <2>2, <2>3 DEF Lexing
  <1>17. Agreeing'
    <2>1. a = <<>> \/ Head(a) \notin {"contract", "requires"}
      BY <1>7 DEF Definitions
    <2> QED BY <1>1, <1>7, <1>11, <2>1, NoContractTouched
  <1>18. rank' \in 0 .. 5 /\ Ranked(a, rank') /\ IsContract(wrote') /\ wrote'.behaviors \in Seq(PinnedRef)
    <2>1. Ranked(a, rank')
      BY <1>7, RankedDefinitions
    <2> QED BY <1>1, <1>8, <2>1
  <1>19. Fits(l, author, a)
    BY <1>10 DEF Fits
  <1>20. /\ "number" \in slip <=> l.extra = "number"
         /\ "pinned" \in slip <=> l.word \in {"REQUIRES", "ref"} /\ BehaviorRefs(l.items).stuck
         /\ "literal" \in slip <=> l.word = "stmt" /\ l.extra = "string" /\ "indented" \in slips \cup slip
    BY <1>9, <1>11
  <1> QED BY <1>1, <1>7, <1>9, <1>11, <1>15, <1>16, <1>17, <1>18, <1>19, <1>20, WriteStep

(* A file may end anywhere. *)
LEMMA EofKeeps ==
    ASSUME Good, WriteEof
    PROVE  Good'
  <1>1. /\ status = "reading" /\ line = NoLine
        /\ line' = Line("EOF", "none", "none", <<>>, FALSE) /\ lexed' = FALSE
        /\ slips' = slips \cup (IF author # <<>> THEN {"cut"} ELSE {})
        /\ UNCHANGED <<author, rank, nested, left, inDesc, calls, status, wrote, parsed>>
    BY DEF WriteEof
  <1>2. /\ Shaped(author) /\ calls = author /\ Shaped(calls)
        /\ slips \cap {"number", "literal", "pinned", "cut"} = {}
        /\ Inside \notin {"contract", "requires"} => slips \cap {"again", "pin"} = {}
    BY <1>1, RestFacts
  <1>3. /\ line'.word = "EOF" /\ line'.extra = "none" /\ line' # NoLine /\ line'.indent \in BOOLEAN
        /\ line' = Line(line'.word, line'.tail, line'.extra, line'.items, line'.indent)
    BY <1>1 DEF Line, NoLine
  <1>4. Inside' = Inside
    BY <1>1 DEF Inside
  <1>5. Typed'
    <2>1. IsContract(wrote) /\ IsContract(parsed) /\ wrote' = wrote /\ parsed' = parsed
      BY <1>1 DEF Good, Typed
    <2>2. IsContract(wrote') /\ IsContract(parsed')
      BY <2>1
    <2>3. Shaped(author') /\ Shaped(calls')
      BY <1>1, <1>2
    <2>4. slips' \subseteq {"word", "indented", "number", "again", "pin", "pinned", "literal", "cut"}
      BY <1>1 DEF Good, Typed
    <2> QED BY <1>1, <1>3, <2>2, <2>3, <2>4 DEF Good, Typed
  <1>6. Ranked(author, rank)' /\ Nested'
    BY <1>1, <1>4 DEF Good, Ranked, Nested
  <1>7. Following'
    <2>1. Eof(line', calls', author')
      BY <1>1, <1>2, <1>3 DEF Eof
    <2> QED BY <1>3, <2>1 DEF Following, Fits
  <1>8. Lexing'
    BY <1>3 DEF Lexing
  <1>9. Slipping'
    BY <1>1, <1>2, <1>3 DEF Slipping
  <1>10. Agreeing'
    BY <1>1, <1>2, <1>3, <1>4 DEF Agreeing
  <1>11. RejectedExactly'
    BY <1>1 DEF RejectedExactly
  <1> QED BY <1>5, <1>6, <1>7, <1>8, <1>9, <1>10, <1>11 DEF Good

(* The rank after section w of definition e. *)
RankAfter(w, e) == CASE w = "BEHAVIOR" -> 0 [] w = "NATIVE" /\ Len(e) > 1 -> 3 [] OTHER -> Rank[Head(e)][w]

(* Where section w of a definition leads. *)
LEMMA AfterSectionIs ==
    ASSUME NEW e, Shaped(e), e # <<>>, Head(e) \in Definitions, NEW w \in DOMAIN Rank[Head(e)],
           NEW platform \in BOOLEAN, platform => w = "IMPLEMENTATION"
    PROVE  /\ Shaped(AfterSection(w, platform, e))
           /\ Ranked(AfterSection(w, platform, e), RankAfter(w, e)) /\ RankAfter(w, e) \in 0 .. 5
           /\ AfterSection(w, platform, e) # <<>> =>
                AfterSection(w, platform, e)[Len(AfterSection(w, platform, e))] = e[Len(e)]
           /\ AfterSection(w, platform, e) # <<>> /\ Head(AfterSection(w, platform, e)) = "description" <=> w = "DESCRIPTION"
           /\ w = "DESCRIPTION" => Len(AfterSection(w, platform, e)) = Len(e) + 1
  <1> DEFINE a == AfterSection(w, platform, e)
             r == RankAfter(w, e)
             c == IF platform THEN "platform" ELSE Opens[w]
  <1>1. e \in Seq(Constructs) /\ Len(e) \in Nat /\ Len(e) >= 1
    BY TailFacts DEF Shaped
  <1>2. Rank[Head(e)][w] \in 0 .. 5
    BY DEF Rank, Definitions
  <1>3. r \in 0 .. 5
    BY <1>2 DEF RankAfter
  <1>4. CASE w \in {"END_PATTERN", "END_EXECUTABLE", "NATIVE"}
    <2>1. a = Tail(e)
      BY <1>4 DEF AfterSection
    <2>2. Shaped(a) /\ (a # <<>> => Head(a) \in Under[Head(e)])
      BY <2>1, ShapedTail
    <2>3. a # <<>> => Head(a) \in Definitions
      BY <2>2 DEF Under, Definitions
    <2>4. a # <<>> => a[Len(a)] = e[Len(e)]
      BY <1>1, <2>1, TailFacts
    <2> HIDE DEF a, r
    <2>5. Ranked(a, r)
      BY <2>2, <2>3, RankedDefinitions
    <2>6. (a # <<>> /\ Head(a) = "description" <=> w = "DESCRIPTION") /\ w # "DESCRIPTION"
      BY <1>4, <2>3 DEF Definitions
    <2>7. Shaped(a) /\ Ranked(a, r) /\ r \in 0 .. 5
      BY <1>3, <2>2, <2>5
    <2> QED BY <2>4, <2>6, <2>7 DEF a, r
  <1>5. CASE w \in {"HASH", "USES"}
    <2>1. a = e
      BY <1>5 DEF AfterSection
    <2> HIDE DEF a, r
    <2>2. Ranked(a, r)
      BY <2>1, RankedDefinitions
    <2>3. (a # <<>> /\ Head(a) = "description" <=> w = "DESCRIPTION") /\ w # "DESCRIPTION"
      BY <1>5, <2>1 DEF Definitions
    <2>4. Shaped(a) /\ a[Len(a)] = e[Len(e)]
      BY <2>1
    <2> QED BY <1>3, <2>2, <2>3, <2>4 DEF a, r
  <1>6. CASE w \notin {"END_PATTERN", "END_EXECUTABLE", "NATIVE", "HASH", "USES"}
    <2>1. a = <<c>> \o e
      BY <1>6 DEF AfterSection
    <2>2. w \in DOMAIN Opens /\ c \in Constructs /\ Head(e) \in Under[c] /\ (c = "description" <=> w = "DESCRIPTION")
      <3>1. CASE Head(e) = "behavior"
        <4>1. w \in {"DESCRIPTION", "CONTRACT", "IMPLEMENTATION", "COMPOSITION"}
          BY <1>6, <3>1 DEF Rank
        <4> QED BY <3>1, <4>1 DEF Opens, Constructs, OpenEnded, Definitions, Under
      <3>2. CASE Head(e) = "pattern"
        <4>1. w \in {"MEMORY", "ON_CREATE", "BEHAVIOR", "ON_DESTROY"}
          BY <1>6, <3>2 DEF Rank
        <4> QED BY <3>2, <4>1 DEF Opens, Constructs, OpenEnded, Definitions, Under
      <3>3. CASE Head(e) = "executable"
        <4>1. w \in {"DESCRIPTION", "ENTRY"}
          BY <1>6, <3>3 DEF Rank
        <4> QED BY <3>3, <4>1 DEF Opens, Constructs, OpenEnded, Definitions, Under
      <3> QED BY <3>1, <3>2, <3>3 DEF Definitions
    <2>3. c \notin Definitions \cup {"scope"} => r = RankIn[c]
      <3>1. CASE Head(e) = "behavior"
        <4>1. w \in {"DESCRIPTION", "CONTRACT", "IMPLEMENTATION", "COMPOSITION"}
          BY <1>6, <3>1 DEF Rank
        <4> QED BY <3>1, <4>1 DEF Opens, Rank, RankIn, RankAfter
      <3>2. CASE Head(e) = "pattern"
        <4>1. w \in {"MEMORY", "ON_CREATE", "BEHAVIOR", "ON_DESTROY"}
          BY <1>6, <3>2 DEF Rank
        <4> QED BY <3>2, <4>1 DEF Opens, Rank, RankIn, RankAfter, Definitions
      <3>3. CASE Head(e) = "executable"
        <4>1. w \in {"DESCRIPTION", "ENTRY"}
          BY <1>6, <3>3 DEF Rank
        <4> QED BY <3>3, <4>1 DEF Opens, Rank, RankIn, RankAfter
      <3> QED BY <3>1, <3>2, <3>3 DEF Definitions
    <2> HIDE DEF a, r, c
    <2>4. Ranked(e, r)
      BY RankedDefinitions
    <2>5. Shaped(a) /\ Ranked(a, r)
      BY <1>1, <2>1, <2>2, <2>3, <2>4, ShapedPush, RankedPush
    <2>6. a # <<>> /\ Head(a) = c /\ Len(a) = Len(e) + 1
      BY <1>1, <2>1, <2>2, PushFacts
    <2>7. a[Len(a)] = e[Len(e)]
      BY <1>1, <2>1, <2>2, PushFacts
    <2> QED BY <1>3, <2>2, <2>5, <2>6, <2>7 DEF a, r
  <1> QED BY <1>4, <1>5, <1>6

(* A section that may follow ends the open-ended construct on top. *)
LEMMA SectionEnds ==
    ASSUME NEW s, Shaped(s), NEW r, Ranked(s, r), s # <<>>, Head(s) \in OpenEnded,
           NEW w \in DOMAIN Rank[Head(Skip(s, OpenEnded))], NEW platform \in BOOLEAN, platform => w = "IMPLEMENTATION",
           Rank[Head(Skip(s, OpenEnded))][w] > r \/ (Rank[Head(Skip(s, OpenEnded))][w] = r /\ (w = "BEHAVIOR" \/ platform))
    PROVE  /\ Leaves(w, Head(s)) /\ (Head(s) = "requires" => Leaves(w, "contract"))
           /\ Head(s) = "description" => w \in SectionWords /\ w # "DESCRIPTION" /\ Head(Skip(s, OpenEnded)) # "pattern"
           /\ Head(s) \in {"contract", "requires"} => w # "CONTRACT"
  <1> DEFINE e == Skip(s, OpenEnded)
             d == Head(e)
  <1>1. r = RankIn[Head(s)]
    <2>1. s \in Seq(Constructs) /\ 1 \in DOMAIN s /\ Head(s) = s[1]
      BY DEF Shaped
    <2> QED BY <2>1 DEF Ranked, OpenEnded, Definitions
  <1>2. /\ Head(s) = "requires" => d = "behavior"
        /\ Head(s) # "requires" => d \in Under[Head(s)]
        /\ w \in DOMAIN Rank[d] /\ (Rank[d][w] > r \/ (Rank[d][w] = r /\ (w = "BEHAVIOR" \/ platform)))
    BY OpenOnTop
  <1> HIDE DEF d
  <1>3. CASE Head(s) = "description"
    <2>1. d \in {"behavior", "executable"} /\ r = 1
      BY <1>1, <1>2, <1>3 DEF Under, RankIn
    <2>2. w \in {"CONTRACT", "HASH", "IMPLEMENTATION", "COMPOSITION", "NATIVE", "USES", "ENTRY", "END_EXECUTABLE"}
      BY <1>2, <2>1 DEF Rank
    <2> QED BY <1>3, <2>1, <2>2 DEF Leaves, SectionWords, PatternEnd, d
  <1>4. CASE Head(s) \in {"contract", "requires"}
    <2>1. d = "behavior" /\ r = 2
      BY <1>1, <1>2, <1>4 DEF Under, RankIn
    <2>2. w \in {"HASH", "IMPLEMENTATION", "COMPOSITION", "NATIVE"}
      BY <1>2, <2>1 DEF Rank
    <2> QED BY <1>4, <2>2 DEF Leaves, Clauses, PatternEnd
  <1>5. CASE Head(s) \in {"memory", "on_create", "on_destroy"}
    <2>1. d = "pattern" /\ r = RankIn[Head(s)]
      BY <1>1, <1>2, <1>5 DEF Under
    <2>2. w \in {"MEMORY", "ON_CREATE", "BEHAVIOR", "ON_DESTROY", "END_PATTERN"}
      BY <1>2, <2>1 DEF Rank
    <2>3. Head(s) = "on_create" => w \in {"BEHAVIOR", "ON_DESTROY", "END_PATTERN"}
      BY <1>2, <2>1, <2>2 DEF Rank, RankIn
    <2>4. Head(s) = "on_destroy" => w = "END_PATTERN"
      BY <1>2, <2>1, <2>2 DEF Rank, RankIn
    <2> QED BY <1>5, <2>2, <2>3, <2>4 DEF Leaves, PatternEnd
  <1>6. CASE Head(s) = "entry"
    <2>1. d = "executable" /\ r = 3
      BY <1>1, <1>2, <1>6 DEF Under, RankIn
    <2>2. w = "END_EXECUTABLE"
      BY <1>2, <2>1 DEF Rank
    <2> QED BY <1>6, <2>2 DEF Leaves, PatternEnd
  <1> QED BY <1>3, <1>4, <1>5, <1>6 DEF OpenEnded

(* A section leads the parser out of what is open and into the section. *)
LEMMA SectionKeeps ==
    ASSUME Good, WriteSection, "word" \notin slips'
    PROVE  Good'
  <1> DEFINE e == Enclosing
             own == Rank[Head(e)]
  <1>1. MayWrite /\ e # <<>> /\ Head(e) \in Definitions
    BY DEF WriteSection, Rank, Definitions
  <1>2. status = "reading" /\ line = NoLine
    BY <1>1 DEF MayWrite
  <1>3. /\ Shaped(author) /\ author \in Seq(Constructs)
        /\ inDesc <=> (Inside = "description" \/ "indented" \in slips)
        /\ Inside \notin {"contract", "requires"} => slips \cap {"again", "pin"} = {}
    BY <1>2, RestFacts
  <1>4. PICK w \in DOMAIN own : \E tail \in {"none"} \cup (IF w = "DESCRIPTION" THEN SectionWords ELSE {}),
                                   platform \in {FALSE, w = "IMPLEMENTATION"} :
             /\ own[w] > rank \/ (own[w] = rank /\ (w = "BEHAVIOR" \/ platform))
             /\ LET extra == IF platform THEN "platform" ELSE "none"
                    rest  == CASE w = "HASH" -> "pin" [] w = "USES" -> "path" [] OTHER -> tail
                IN  /\ Write(Line(w, rest, extra, <<>>, Indented), AfterSection(w, platform, e),
                             (IF tail # "none" THEN {"word"} ELSE {})
                               \cup (IF w = "DESCRIPTION" /\ Indented THEN {"indented"} ELSE {}))
                    /\ rank' = CASE w = "BEHAVIOR" -> 0 [] w = "NATIVE" /\ Len(e) > 1 -> 3 [] OTHER -> own[w]
                    /\ wrote' = NoContract
    BY DEF WriteSection
  <1>5. PICK platform \in BOOLEAN :
          /\ platform => w = "IMPLEMENTATION"
          /\ own[w] > rank \/ (own[w] = rank /\ (w = "BEHAVIOR" \/ platform))
          /\ Write(Line(w, CASE w = "HASH" -> "pin" [] w = "USES" -> "path" [] OTHER -> "none",
                        IF platform THEN "platform" ELSE "none", <<>>, Indented), AfterSection(w, platform, e),
                   IF w = "DESCRIPTION" /\ Indented THEN {"indented"} ELSE {})
          /\ rank' = CASE w = "BEHAVIOR" -> 0 [] w = "NATIVE" /\ Len(e) > 1 -> 3 [] OTHER -> own[w]
          /\ wrote' = NoContract
    <2>1. PICK tail \in {"none"} \cup (IF w = "DESCRIPTION" THEN SectionWords ELSE {}), platform \in {FALSE, w = "IMPLEMENTATION"} :
            /\ own[w] > rank \/ (own[w] = rank /\ (w = "BEHAVIOR" \/ platform))
            /\ Write(Line(w, CASE w = "HASH" -> "pin" [] w = "USES" -> "path" [] OTHER -> tail,
                          IF platform THEN "platform" ELSE "none", <<>>, Indented), AfterSection(w, platform, e),
                     (IF tail # "none" THEN {"word"} ELSE {}) \cup (IF w = "DESCRIPTION" /\ Indented THEN {"indented"} ELSE {}))
            /\ rank' = CASE w = "BEHAVIOR" -> 0 [] w = "NATIVE" /\ Len(e) > 1 -> 3 [] OTHER -> own[w]
            /\ wrote' = NoContract
      BY <1>4
    <2>2. tail = "none"
      <3>1. (IF tail # "none" THEN {"word"} ELSE {}) \subseteq slips'
        BY <2>1 DEF Write
      <3> QED BY <3>1
    <2>3. (IF tail # "none" THEN {"word"} ELSE {}) \cup (IF w = "DESCRIPTION" /\ Indented THEN {"indented"} ELSE {})
          = IF w = "DESCRIPTION" /\ Indented THEN {"indented"} ELSE {}
      BY <2>2
    <2>4. platform \in BOOLEAN /\ (platform => w = "IMPLEMENTATION")
      BY <2>1
    <2> QED BY <2>1, <2>2, <2>3, <2>4
  <1> DEFINE slip == IF w = "DESCRIPTION" /\ Indented THEN {"indented"} ELSE {}
             extra == IF platform THEN "platform" ELSE "none"
             rest == CASE w = "HASH" -> "pin" [] w = "USES" -> "path" [] OTHER -> "none"
             l == Line(w, rest, extra, <<>>, Indented)
             a == AfterSection(w, platform, e)
  <1>7. Write(l, a, slip)
    BY <1>5
  <1>8. platform \in BOOLEAN /\ (platform => w = "IMPLEMENTATION")
    BY <1>5
  <1>9. nested \in BOOLEAN /\ Indented \in BOOLEAN /\ (Indented <=> nested /\ Len(e) > 1)
    BY DEF Good, Typed, Indented
  <1>10. /\ l = Line(l.word, l.tail, l.extra, l.items, l.indent) /\ l.indent \in BOOLEAN /\ l.indent = Indented
         /\ l.word = w /\ l.tail = rest /\ l.extra \in {"none", "platform"} /\ (l.extra = "platform") = platform
    BY <1>8, <1>9 DEF Line
  <1>11. w \notin {"none", "EOF", "stmt", "REQUIRES", "ref"}
    BY <1>1, <1>4 DEF Rank, Definitions
  <1>12. slip \subseteq {"indented"} /\ ("indented" \in slip <=> w = "DESCRIPTION" /\ Indented)
    OBVIOUS
  <1>13. /\ Shaped(e) /\ author # <<>> /\ e[Len(e)] = author[Len(author)] /\ Len(e) \in Nat
    BY <1>1, <1>3, ShapedSkip DEF Enclosing, Shaped
  <1>14. /\ Shaped(a) /\ Ranked(a, rank') /\ rank' \in 0 .. 5
         /\ a # <<>> => a[Len(a)] = e[Len(e)]
         /\ a # <<>> /\ Head(a) = "description" <=> w = "DESCRIPTION"
         /\ w = "DESCRIPTION" => Len(a) = Len(e) + 1
    <2>1. rank' = RankAfter(w, e)
      BY <1>5 DEF RankAfter
    <2>2. w \in DOMAIN Rank[Head(e)] /\ a = AfterSection(w, platform, e)
      BY <1>4
    <2> HIDE DEF e, a, own, slip, extra, rest, l
    <2> QED BY <1>1, <1>8, <1>13, <2>1, <2>2, AfterSectionIs
  <1>15. Head(author) \in OpenEnded =>
           /\ Leaves(w, Head(author)) /\ (Head(author) = "requires" => Leaves(w, "contract"))
           /\ Head(author) = "description" => w \in SectionWords /\ w # "DESCRIPTION" /\ Head(e) # "pattern"
           /\ Head(author) \in {"contract", "requires"} => w # "CONTRACT"
    <2>1. Ranked(author, rank)
      BY DEF Good
    <2> QED BY <1>3, <1>4, <1>5, <1>8, <1>13, <2>1, SectionEnds DEF Enclosing
  <1>16. a = AfterSection(w, platform, e) /\ rest = CASE w = "HASH" -> "pin" [] w = "USES" -> "path" [] OTHER -> "none"
    OBVIOUS
  <1> HIDE DEF l, a, slip, extra, rest
  <1>17. Section(l, author, a)
    <2>1. l.word \in DOMAIN Rank[Head(e)] /\ (l.extra = "platform" => l.word = "IMPLEMENTATION")
      BY <1>4, <1>8, <1>10
    <2>2. a = AfterSection(l.word, l.extra = "platform", e)
      BY <1>10, <1>16
    <2>3. l.tail = CASE l.word = "HASH" -> "pin" [] l.word = "USES" -> "path" [] OTHER -> "none"
      BY <1>10, <1>16
    <2>4. Head(author) \in OpenEnded => Leaves(l.word, Head(author)) /\ (Head(author) = "requires" => Leaves(l.word, "contract"))
      BY <1>10, <1>15
    <2> QED BY <1>1, <1>10, <2>1, <2>2, <2>3, <2>4 DEF Section, Enclosing
  <1>18. /\ author' = a /\ line' = l /\ lexed' = FALSE /\ UNCHANGED <<nested, inDesc, status>>
         /\ "indented" \in slips' <=> "indented" \in slips \/ (w = "DESCRIPTION" /\ Indented)
    BY <1>7, <1>12 DEF Write
  <1>19. Inside' = "description" <=> w = "DESCRIPTION"
    BY <1>14, <1>18 DEF Inside
  <1>20. "indented" \in slips => nested /\ e[Len(e)] = "pattern"
    BY <1>13 DEF Good, Nested
  <1>21. Indented => e[Len(e)] = "pattern"
    BY <1>1, <1>9, <1>13, DefinitionsOnly
  <1>22. Nested'
    <2>1. "indented" \in slips' => nested' /\ (author' # <<>> => author'[Len(author')] = "pattern")
      BY <1>9, <1>14, <1>18, <1>20, <1>21
    <2>2. Inside' = "description" /\ nested' /\ Len(author') > 2 => "indented" \in slips'
      BY <1>9, <1>13, <1>14, <1>18, <1>19
    <2> QED BY <2>1, <2>2 DEF Nested
  <1>23. Lexing'
    <2>1. l # NoLine
      BY <1>10, <1>11 DEF NoLine
    <2>2. Described' <=> w = "DESCRIPTION" \/ (inDesc /\ ~(w \in SectionWords /\ ~Indented))
      BY <1>10, <1>18, <2>1 DEF Described
    <2>3. CASE w = "DESCRIPTION"
      BY <1>18, <1>19, <2>2, <2>3 DEF Lexing
    <2>4. CASE w # "DESCRIPTION"
      <3>1. Inside' # "description" /\ ("indented" \in slips' <=> "indented" \in slips)
        BY <1>18, <1>19, <2>4
      <3>2. CASE Len(e) > 1
        <4>1. nested => Indented
          BY <1>9, <3>2
        <4>2. Inside = "description" => w \in SectionWords /\ (nested => "indented" \in slips)
          <5>1. SUFFICES ASSUME Inside = "description"
                         PROVE  w \in SectionWords /\ (nested => "indented" \in slips)
            OBVIOUS
          <5>2. Head(author) = "description"
            BY <1>13, <5>1 DEF Inside
          <5>3. e = Tail(author)
            BY <1>3, <1>13, <5>2, OpenOnTop DEF Enclosing, OpenEnded
          <5>4. Len(author) > 2
            BY <1>3, <1>13, <3>2, <5>3, TailFacts
          <5> QED BY <1>15, <5>1, <5>2, <5>4 DEF Good, Nested, OpenEnded
        <4>3. Indented => nested
          BY <1>9
        <4> QED BY <1>3, <1>20, <2>2, <2>4, <3>1, <4>1, <4>2, <4>3, <1>18 DEF Lexing
      <3>3. CASE ~(Len(e) > 1)
        <4>1. ~Indented
          BY <1>9, <3>3
        <4>2. Head(e) = e[Len(e)]
          <5>1. e \in Seq(Constructs) /\ Len(e) \in Nat /\ Len(e) >= 1 /\ Head(e) = e[1]
            BY <1>1, <1>13, TailFacts DEF Shaped
          <5>2. Len(e) = 1
            <6> DEFINE n == Len(e)
            <6>1. n \in Nat /\ n >= 1 /\ ~(n > 1)
              BY <3>3, <5>1
            <6> HIDE DEF n
            <6>2. n = 1
              BY <6>1
            <6> QED BY <6>2 DEF n
          <5> QED BY <5>1, <5>2
        <4>3. "indented" \in slips => Head(e) = "pattern" /\ w \notin SectionWords
          <5>1. "indented" \in slips => Head(e) = "pattern"
            BY <1>20, <4>2
          <5>2. Head(e) = "pattern" => w \notin SectionWords
            BY <1>4 DEF Rank, SectionWords
          <5> QED BY <5>1, <5>2
        <4>4. Inside = "description" => w \in SectionWords /\ "indented" \notin slips
          <5>1. Inside = "description" => Head(author) = "description"
            BY <1>13 DEF Inside
          <5> QED BY <1>15, <4>3, <5>1 DEF OpenEnded
        <4> QED BY <1>3, <1>18, <2>2, <2>4, <3>1, <4>1, <4>3, <4>4 DEF Lexing
      <3> QED BY <3>2, <3>3
    <2> QED BY <2>3, <2>4
  <1>24. Agreeing'
    <2>1. CASE a # <<>> /\ Head(a) \in {"contract", "requires"}
      <3>1. w = "CONTRACT"
        BY <1>3, <1>10, <1>17, <2>1, SectionInside
      <3>2. Inside \notin {"contract", "requires"}
        BY <1>13, <1>15, <3>1 DEF Inside, OpenEnded
      <3>3. slips' \cap {"again", "pin"} = {}
        BY <1>3, <1>7, <1>12, <3>2 DEF Write
      <3>4. ParsedAfter(line, parsed)' = NoContract
        BY <1>10, <1>18, <3>1 DEF ParsedAfter
      <3>5. Agree(NoContract, NoContract, FALSE)
        BY DEF Agree, NoContract
      <3>6. Inside' \in {"contract", "requires"}
        BY <1>18, <2>1 DEF Inside
      <3> QED BY <1>5, <3>3, <3>4, <3>5, <3>6 DEF Agreeing
    <2>2. CASE a = <<>> \/ Head(a) \notin {"contract", "requires"}
      BY <1>1, <1>7, <1>12, <1>14, <2>2, NoContractTouched
    <2> QED BY <2>1, <2>2
  <1>25. IsContract(wrote') /\ wrote'.behaviors \in Seq(PinnedRef)
    BY <1>5, NoContractIs DEF NoContract
  <1>26. Fits(l, author, a)
    BY <1>17 DEF Fits
  <1>27. /\ "number" \in slip <=> l.extra = "number"
         /\ "pinned" \in slip <=> l.word \in {"REQUIRES", "ref"} /\ BehaviorRefs(l.items).stuck
         /\ "literal" \in slip <=> l.word = "stmt" /\ l.extra = "string" /\ "indented" \in slips \cup slip
         /\ slip \subseteq {"indented", "number", "again", "pin", "pinned", "literal"} /\ l.word \notin {"none", "EOF"}
    BY <1>10, <1>11, <1>12
  <1> QED BY <1>1, <1>7, <1>10, <1>14, <1>22, <1>23, <1>24, <1>25, <1>26, <1>27, WriteStep

-----------------------------------------------------------------------------
(* The theorems *)

(* Every file starts with nothing read. *)
LEMMA InitInv == FrontInit => IInv
  <1> SUFFICES ASSUME FrontInit PROVE Good
    BY DEF IInv
  <1>1. PICK kind \in Definitions : author = <<kind>> /\ calls = <<kind>>
    BY DEF FrontInit, Definitions
  <1>2. Shaped(<<kind>>) /\ <<kind>> # <<>> /\ Head(<<kind>>) = kind /\ Len(<<kind>>) = 1
    BY DEF Shaped, Constructs
  <1>3. /\ rank = 0 /\ nested \in BOOLEAN /\ line = NoLine /\ lexed = FALSE /\ inDesc = FALSE /\ status = "reading"
        /\ wrote = NoContract /\ parsed = NoContract /\ slips = {}
    BY DEF FrontInit
  <1>4. /\ NoLine = Line(NoLine.word, NoLine.tail, NoLine.extra, NoLine.items, NoLine.indent) /\ NoLine.indent \in BOOLEAN
        /\ NoLine.word = "none" /\ NoLine.extra = "none"
    BY DEF NoLine, Line
  <1>5. Inside = kind
    BY <1>1, <1>2 DEF Inside
  <1>6. Typed
    <2>1. NoContract.behaviors \in Seq(PinnedRef)
      BY DEF NoContract
    <2>2. Shaped(author) /\ Shaped(calls)
      BY <1>1, <1>2
    <2>3. IsContract(wrote) /\ IsContract(parsed) /\ wrote.behaviors \in Seq(PinnedRef)
      <3>1. wrote = NoContract /\ parsed = NoContract
        BY <1>3
      <3> QED BY <2>1, <3>1, NoContractIs
    <2>4. nested \in BOOLEAN /\ lexed \in BOOLEAN /\ inDesc \in BOOLEAN
      BY <1>3
    <2>5. /\ rank \in 0 .. 5 /\ status \in {"reading", "accepted", "rejected"}
          /\ slips \subseteq {"word", "indented", "number", "again", "pin", "pinned", "literal", "cut"}
      BY <1>3
    <2>6. line = Line(line.word, line.tail, line.extra, line.items, line.indent) /\ line.indent \in BOOLEAN
      BY <1>3, <1>4
    <2> QED BY <2>2, <2>3, <2>4, <2>5, <2>6 DEF Typed
  <1>7. Ranked(author, rank)
    BY <1>1, <1>2, RankedDefinitions
  <1>8. Nested
    BY <1>3, <1>5 DEF Nested, Definitions
  <1>9. Following
    BY <1>1, <1>3 DEF Following
  <1>10. Lexing
    BY <1>3, <1>5 DEF Lexing, Described, Definitions
  <1>11. Slipping
    BY <1>3, <1>4 DEF Slipping
  <1>12. Agreeing
    BY <1>3, <1>5 DEF Agreeing, Definitions
  <1>13. RejectedExactly
    BY <1>3 DEF RejectedExactly
  <1> QED BY <1>6, <1>7, <1>8, <1>9, <1>10, <1>11, <1>12, <1>13 DEF Good

(* Only the author slips. *)
LEMMA SlipsStay ==
    ASSUME Lex \/ Parser
    PROVE  slips' = slips
  <1> USE DEF avars, Read, Keep, Reject
  <1>1. ParseNode => slips' = slips
    BY DEF ParseNode
  <1>2. Lex \/ Ignore => slips' = slips
    BY DEF Lex, Ignore
  <1>3. ParseBehavior => slips' = slips
    BY DEF ParseBehavior
  <1>4. ParseDescription => slips' = slips
    BY DEF ParseDescription
  <1>5. ParseContract => slips' = slips
    BY DEF ParseContract
  <1>6. ParseRequires => slips' = slips
    BY DEF ParseRequires
  <1>7. ParseScope => slips' = slips
    BY <1>1 DEF ParseScope
  <1>8. ParseImplementation => slips' = slips
    BY <1>1 DEF ParseImplementation
  <1>9. ParseStatements => slips' = slips
    BY <1>1 DEF ParseStatements
  <1>10. ParseMemory => slips' = slips
    BY DEF ParseMemory
  <1>11. ParsePattern => slips' = slips
    BY DEF ParsePattern
  <1>12. ParseExecutable => slips' = slips
    BY DEF ParseExecutable
  <1> QED BY <1>2, <1>3, <1>4, <1>5, <1>6, <1>7, <1>8, <1>9, <1>10, <1>11, <1>12 DEF Parser

(* Once a line of a description has begun with a section word, it has. *)
LEMMA WordStays ==
    ASSUME Author, "word" \in slips
    PROVE  "word" \in slips'
  <1>1. ASSUME NEW l, NEW a, NEW slip, Write(l, a, slip) PROVE "word" \in slips'
    BY <1>1 DEF Write
  <1>2. WriteSection => "word" \in slips'
    BY <1>1 DEF WriteSection
  <1>3. WriteText \/ WriteClause => "word" \in slips'
    BY <1>1 DEF WriteText, WriteClause
  <1>4. WriteDeclaration \/ WriteStatement \/ WriteEnd => "word" \in slips'
    BY <1>1 DEF WriteDeclaration, WriteStatement, WriteEnd
  <1>5. WriteEof => "word" \in slips'
    BY DEF WriteEof
  <1> QED BY <1>2, <1>3, <1>4, <1>5 DEF Author

(* Every line and every step of the lexer and of the parser keeps the      *)
(* invariant.                                                              *)
LEMMA StepInv == IInv /\ [FrontNext]_frontVars => IInv'
  <1> SUFFICES ASSUME IInv, [FrontNext]_frontVars, "word" \notin slips' PROVE Good'
    BY DEF IInv
  <1>1. CASE Author
    <2>1. Good
      BY <1>1, WordStays DEF IInv
    <2> QED BY <1>1, <2>1, SectionKeeps, TextKeeps, ClauseKeeps, DeclarationKeeps, StatementKeeps, EndKeeps, EofKeeps DEF Author
  <1>2. CASE Lex \/ Parser
    <2>1. Good
      BY <1>2, SlipsStay DEF IInv
    <2> QED BY <1>2, <2>1, LexKeeps, BehaviorKeeps, DescriptionKeeps, ContractKeeps, RequiresKeeps, ScopeKeeps,
               ImplementationKeeps, StatementsKeep, MemoryKeeps, PatternKeeps, ExecutableKeeps, IgnoreKeeps DEF Parser
  <1>3. CASE UNCHANGED frontVars
    <2>1. Good
      BY <1>3 DEF IInv, frontVars
    <2>2. Typed' /\ Ranked(author, rank)' /\ Nested'
      BY <1>3, <2>1 DEF Good, Typed, Nested, Inside, Ranked, IsContract, frontVars
    <2>3. Following' /\ Lexing' /\ Slipping'
      BY <1>3, <2>1 DEF Good, Following, Lexing, Described, Inside, Slipping, frontVars
    <2>4. Agreeing'
      <3>1. Inside' = Inside /\ ParsedAfter(line, parsed)' = ParsedAfter(line, parsed)
        BY <1>3 DEF Inside, ParsedAfter, frontVars
      <3> QED BY <1>3, <2>1, <3>1 DEF Good, Agreeing, frontVars
    <2>5. RejectedExactly'
      BY <1>3, <2>1 DEF Good, RejectedExactly, frontVars
    <2> QED BY <2>2, <2>3, <2>4, <2>5 DEF Good
  <1> QED BY <1>1, <1>2, <1>3 DEF FrontNext

(* The invariant holds for files of any length. *)
THEOREM Invariance == FrontSpec => []IInv
  BY InitInv, StepInv, PTL DEF FrontSpec

(* The parser is in the construct that the author is in, between any two   *)
(* lines of a file whose descriptions have no line with a section word,    *)
(* and the lexer takes for a description what is one or follows one in an  *)
(* indented behavior (next_token, in_description).                         *)
THEOREM ParserInStep == FrontSpec => []InStep
  <1>1. IInv => InStep
    <2> SUFFICES ASSUME IInv, AtRest, "word" \notin slips
                 PROVE  calls = author /\ (inDesc <=> (Inside = "description" \/ "indented" \in slips))
      BY DEF InStep
    <2>1. Good /\ status = "reading" /\ line = NoLine
      BY DEF IInv, AtRest
    <2> QED BY <2>1, RestFacts
  <1> QED BY <1>1, Invariance, PTL

(* Such a file is rejected exactly for a malformed number in a             *)
(* description, a string literal after the description of an indented      *)
(* behavior, a name with a hash that parse_behavior_refs took for part of  *)
(* a hash, or an end within a behavior.                                    *)
THEOREM RejectedForAReason == FrontSpec => []RejectedExactly
  <1>1. IInv => RejectedExactly
    <2>1. CASE "word" \in slips
      BY <2>1 DEF RejectedExactly
    <2>2. CASE "word" \notin slips
      BY <2>2 DEF IInv, Good
    <2> QED BY <2>1, <2>2
  <1> QED BY <1>1, Invariance, PTL

(* What parse_contract has of a contract is what was written, exactly if   *)
(* no clause was given again and no hash swallowed a name.                 *)
THEOREM ContractsKept == FrontSpec => []ContractKept
  <1>1. IInv => ContractKept
    <2> SUFFICES ASSUME IInv, AtRest, "word" \notin slips, Inside \in {"contract", "requires"}
                 PROVE  (parsed = wrote) <=> slips \cap {"again", "pin"} = {}
      BY DEF ContractKept
    <2>1. Good /\ status = "reading" /\ line = NoLine
      BY DEF IInv, AtRest
    <2>2. Agree(parsed, wrote, slips \cap {"again", "pin"} # {})
      BY <2>1, RestFacts
    <2>3. /\ Len(wrote.behaviors) \in Nat /\ wrote.memory \in Seq(Named) /\ wrote.guarantees \in Seq(Named)
      BY <2>1 DEF Good, Typed, IsContract
    <2>4. Len(wrote.behaviors) \in Nat /\ Len(wrote.memory) \in Nat /\ Len(wrote.guarantees) \in Nat
      BY <2>3
    <2> QED BY <2>2, <2>4 DEF Agree
  <1> QED BY <1>1, Invariance, PTL
=============================================================================
