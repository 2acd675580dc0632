---------------------------- MODULE Composition ----------------------------
(***************************************************************************)
(* A COMPOSITION: the checks that it only wires (check_composite_purity),  *)
(* that every output of a CALL is consumed (check_outputs_consumed), and   *)
(* the code generated for its CALLs, in which a field r.f is resolved at   *)
(* compile time through the table call_outputs.                            *)
(*                                                                         *)
(* A composition is read node by node; each node is analysed, compiled and *)
(* (for the calls) executed in text order, as the code does in three       *)
(* passes over the same list.  BRANCH is kept as a reader of its           *)
(* condition; the labels do not affect the checks or the resolution of     *)
(* names, which follow the text.  All values are 8-byte ints.              *)
(***************************************************************************)
EXTENDS Integers, Sequences, FiniteSets

LOCAL INSTANCE SequencesExt

CONSTANTS BodyLocals,      \* the names a composition binds
          Callees,   \* the behaviors it REQUIRES
          Outputs,     \* Outputs[b]: the sequence of output names of b
          Inputs,      \* Inputs[b]: the number of inputs of b
          MaxBody     \* bound: nodes in the composition

(* The composition has one INPUT and one OUTPUT. *)
InParam == "in"
OutParam == "out"
BodyNames == BodyLocals \cup {InParam, OutParam}
Fields == UNION {ToSet(Outputs[b]) : b \in Callees}

ASSUME CompositionAssumption ==
    /\ IsFiniteSet(BodyLocals) /\ IsFiniteSet(Callees) /\ {InParam, OutParam} \cap BodyLocals = {}
    /\ "" \notin Fields
    /\ \A b \in Callees : IsInjective(Outputs[b]) /\ Inputs[b] \in Nat
    /\ MaxBody \in Nat

VARIABLES len,       \* nodes read so far
          an,        \* the analysis: defined, live, edges, obliged, errors
          gen,        \* code generation: vars, outs, pending, failed
          buf,       \* buf[k]: the tokens in the output buffer of call k
          ex,        \* history: what was produced, consumed, misread; loose uses
          meaning,   \* history: what each name means to the author
          verdict    \* "", "accepted" or "rejected"

compositionVars == <<len, an, gen, buf, ex, meaning, verdict>>

(* A token <<k, f>> is the value that call k produced for output f.  Only  *)
(* the calls that have outputs are numbered.                               *)
Tokens == (1 .. 2 * MaxBody) \X Fields

(* The outputs a name's fields are resolved with: a call and its slots. *)
NoOuts == [call |-> 0, slots |-> <<>>]

(* What a name is bound to by the generated code: an immediate that        *)
(* carries tokens, the buffer of a call, one slot of it, a buffer of the   *)
(* caller, or nothing.                                                     *)
CgValue(kind, k, i, T) == [kind |-> kind, call |-> k, slot |-> i, tokens |-> T]
Imm(T) == CgValue("imm", 0, 0, T)
Buf(k) == CgValue("buf", k, 0, {})
OutSlot(k, i) == CgValue("slot", k, i, {})
Unbound == CgValue("none", 0, 0, {})
Param == CgValue("param", 0, 0, {})

(* Uses that the analysis, which goes by names, does not follow: a name    *)
(* bound twice, a CALL nested in a SET, a `->` list that names fewer       *)
(* outputs than there are, a whole result used or copied, a DISCARD of a   *)
(* field that does not exist.                                              *)
LooseUses == {"rebound", "nested", "partial", "whole", "nofield"}

CompositionTypeOK ==
    /\ len \in 0 .. MaxBody
    /\ an.defined \subseteq BodyNames /\ an.live \subseteq BodyNames \X (Fields \cup {""})
    /\ an.errors \subseteq {"CompositeComputes", "UndefinedVariable", "UnconsumedOutput", "CallArgCount"}
    /\ DOMAIN gen.vars = BodyNames /\ DOMAIN gen.outs = BodyLocals
    /\ \A n \in BodyNames : gen.vars[n].kind \in {"buf", "slot"} => gen.vars[n].call \in DOMAIN buf
    /\ \A k \in DOMAIN buf : buf[k] \in Seq(Tokens)
    /\ ex.consumed \subseteq Tokens /\ ex.produced \subseteq Tokens
    /\ ex.loose \subseteq LooseUses
    /\ verdict \in {"", "accepted", "rejected"}

CompositionInit ==
    /\ len = 0
    /\ an = [defined |-> {InParam, OutParam}, live |-> {}, edges |-> {}, obliged |-> {}, errors |-> {}]
    /\ gen = [vars |-> [n \in BodyNames |-> IF n \in BodyLocals THEN Unbound ELSE Param],
             outs |-> [n \in BodyLocals |-> NoOuts], pending |-> NoOuts, failed |-> FALSE]
    /\ buf = <<>>
    /\ ex = [produced |-> {}, consumed |-> {}, loose |-> {}, misread |-> {}, computes |-> {}]
    /\ meaning = [n \in BodyLocals |-> Unbound]
    /\ verdict = ""

-----------------------------------------------------------------------------
(* Expressions: <<"var", x>>, <<"field", x, f>>, <<"lit">>, <<"compute">>  *)
(* (ALLOC, LOAD, arithmetic, comparison, bitwise, atomic or conversion),   *)
(* <<"call", b, args>>, <<"spawn", args>> and <<"channel", capacity>>,     *)
(* where args is a sequence of the simple ones.                            *)

Args(e) == IF e[1] = "call" THEN e[3] ELSE IF e[1] = "spawn" THEN e[2] ELSE <<>>

(* Where an expression really computes. *)
Computes(e) ==
    (IF e[1] = "compute" \/ \E i \in DOMAIN Args(e) : Args(e)[i][1] = "compute" THEN {"value"} ELSE {})
        \cup (IF e[1] = "channel" /\ e[2][1] = "compute" THEN {"capacity"} ELSE {})

(* Mutation: the operand of a CALL or SPAWN is not scanned. *)
ForbiddenAtTop(e) == e[1] = "compute"

(* The capacity of a CHANNEL is not scanned. *)
Forbidden(e) == e[1] = "compute" \/ \E i \in DOMAIN Args(e) : Args(e)[i][1] = "compute"

SimplePlaces(e) == IF e[1] = "var" THEN {<<e[2], "">>} ELSE IF e[1] = "field" THEN {<<e[2], e[3]>>} ELSE {}

Places(e) == SimplePlaces(e) \cup UNION {SimplePlaces(Args(e)[i]) : i \in DOMAIN Args(e)}

UndefinedIn(e) == {p \in Places(e) : p[1] \notin an.defined}

BadCount(e) == e[1] = "call" /\ Len(e[3]) # Inputs[e[2]]

OperandErrors(e) ==
    (IF Forbidden(e) THEN {"CompositeComputes"} ELSE {})
        \cup (IF UndefinedIn(e) # {} THEN {"UndefinedVariable"} ELSE {})
        \cup (IF BadCount(e) THEN {"CallArgCount"} ELSE {})

-----------------------------------------------------------------------------
(* Code generation.  The operators thread a world: the code generator's    *)
(* tables, the output buffers and the history.                             *)

World == [cg |-> gen, buf |-> buf, ex |-> ex]

IndexOf(f, slots) == CHOOSE i \in DOMAIN slots : slots[i] = f

(* A literal, a name, or a field, which is resolved with call_outputs. *)
Resolves(w, e) ==
    CASE e[1] = "var"   -> w.cg.vars[e[2]].kind # "none"
      [] e[1] = "field" -> e[2] \in BodyLocals /\ e[3] \in ToSet(w.cg.outs[e[2]].slots)
      [] OTHER          -> TRUE

Eval(w, e) ==
    CASE e[1] = "var"   -> w.cg.vars[e[2]]
      [] e[1] = "field" -> OutSlot(w.cg.outs[e[2]].call, IndexOf(e[3], w.cg.outs[e[2]].slots))
      [] OTHER          -> Imm({})

(* The tokens behind a value; a read of 8 bytes sees a buffer's first. *)
Behind(w, v) ==
    CASE v.kind = "imm"  -> v.tokens
      [] v.kind = "slot" -> {w.buf[v.call][v.slot]}
      [] v.kind = "buf"  -> ToSet(w.buf[v.call])
      [] OTHER           -> {}

Read8(w, v) == IF v.kind = "buf" THEN {Head(w.buf[v.call])} ELSE Behind(w, v)

(* What the author means by a place: the outputs of the call last bound to *)
(* the name.                                                               *)
Meant(e) ==
    CASE e[1] = "var" /\ e[2] \in BodyLocals -> meaning[e[2]]
      [] e[1] = "field" /\ e[2] \in BodyLocals ->
           IF meaning[e[2]].kind = "buf" /\ <<meaning[e[2]].call, e[3]>> \in ex.produced
           THEN Imm({<<meaning[e[2]].call, e[3]>>}) ELSE Unbound
      [] OTHER -> Imm({})

MeantTokens(e) ==
    IF Meant(e).kind = "buf" THEN {t \in ex.produced : t[1] = Meant(e).call} ELSE Meant(e).tokens

(* A node uses the value of a simple expression: all of it, or 8 bytes. *)
Use(w, e, whole) ==
    IF ~Resolves(w, e) THEN [w EXCEPT !.cg.failed = TRUE]
    ELSE LET v == Eval(w, e)
             T == IF whole THEN Behind(w, v) ELSE Read8(w, v)
         IN  [w EXCEPT !.ex.consumed = @ \cup T,
                       !.ex.misread = @ \cup (IF T \subseteq MeantTokens(e) THEN {} ELSE {e}),
                       !.ex.loose = @ \cup (IF T # Behind(w, v) THEN {"whole"} ELSE {})]

UseAll(w, args, whole) == FoldLeft(LAMBDA u, e : Use(u, e, whole), w, args)

(* compile_call: the outputs go to a new buffer, which stays pending until *)
(* a node takes it.  A call without outputs leaves what was pending.       *)
CallNode(w, b, args) ==
    LET u == UseAll(w, args, FALSE)
        k == Len(u.buf) + 1
        new == [i \in DOMAIN Outputs[b] |-> <<k, Outputs[b][i]>>]
    IN  IF Outputs[b] = <<>> THEN u
        ELSE [u EXCEPT !.buf = Append(@, new), !.ex.produced = @ \cup ToSet(new),
                       !.cg.pending = [call |-> k, slots |-> Outputs[b]]]

CallValue(w, b) == IF Outputs[b] = <<>> THEN Imm({}) ELSE Buf(Len(w.buf))

(* Mutation: the outputs of the call stay pending. *)
TakeOutsKeep(w, x) ==
    IF w.cg.pending = NoOuts THEN w
    ELSE [w EXCEPT !.cg.outs[x] = w.cg.pending]

(* x = CALL ...: the pending outputs become those of x. *)
TakeOuts(w, x) ==
    IF w.cg.pending = NoOuts THEN w
    ELSE [w EXCEPT !.cg.outs[x] = w.cg.pending, !.cg.pending = NoOuts]

(* CALL ... -> o: the slot is copied into the buffer o denotes, or its     *)
(* value is bound to o.                                                    *)
Redirect(w, o, t) ==
    LET d == w.cg.vars[o]
    IN  CASE d.kind = "param" -> [w EXCEPT !.ex.consumed = @ \cup {t}]
          [] d.kind = "buf"   -> [w EXCEPT !.buf[d.call][1] = t]
          [] d.kind = "slot"  -> [w EXCEPT !.buf[d.call][d.slot] = t]
          [] OTHER            -> [w EXCEPT !.cg.vars[o] = Imm({t})]

RedirectAll(w, outs) ==
    LET n == IF Len(outs) < Len(w.cg.pending.slots) THEN Len(outs) ELSE Len(w.cg.pending.slots)
        u == FoldLeft(LAMBDA v, i : Redirect(v, outs[i], w.buf[w.cg.pending.call][i]),
                      w, [i \in 1 .. n |-> i])
    IN  [u EXCEPT !.cg.pending = NoOuts]

-----------------------------------------------------------------------------
(* Nodes. *)

NextNode == verdict = "" /\ len < MaxBody /\ an.errors = {} /\ ~gen.failed

Done(w, a) ==
    /\ len' = len + 1
    /\ gen' = w.cg /\ buf' = w.buf /\ ex' = w.ex
    /\ an' = a
    /\ UNCHANGED verdict

Loosened(w, what) == [w EXCEPT !.ex.loose = @ \cup what]

Bound(x) == IF meaning[x] # Unbound THEN {"rebound"} ELSE {}

Computing(w, e) == [w EXCEPT !.ex.computes = @ \cup Computes(e)]

(* x = e.  A scalar local that is assigned twice lives in memory; that     *)
(* case is not considered here.                                            *)
WireAssign(x, e) ==
    /\ NextNode
    /\ gen.vars[x].kind # "imm"
    /\ LET w == CASE e[1] = "call"  -> CallNode(World, e[2], e[3])
                  [] e[1] = "spawn" -> UseAll(World, e[2], TRUE)
                  [] OTHER          -> IF Resolves(World, e) THEN World
                                       ELSE [World EXCEPT !.cg.failed = TRUE]
           v == CASE e[1] = "call" -> CallValue(w, e[2])
                  [] e[1] \in {"var", "field"} -> IF w.cg.failed THEN Unbound ELSE Eval(w, e)
                  [] OTHER -> Imm({})
           bound == [w EXCEPT !.cg.vars[x] = v]
       IN  /\ Done(Loosened(Computing(IF e[1] = "call" THEN TakeOuts(bound, x) ELSE bound, e),
                        Bound(x) \cup (IF e[1] = "var" /\ v.kind = "buf" THEN {"whole"} ELSE {})),
                   [an EXCEPT
                      !.defined = @ \cup {x},
                      !.errors = @ \cup OperandErrors(e),
                      !.live = @ \cup (IF e[1] \in {"call", "spawn"} THEN Places(e) ELSE {}),
                      !.edges = @ \cup (IF e[1] \in {"call", "spawn"} THEN {} ELSE {<<x, Places(e)>>}),
                      !.obliged = @ \cup (IF e[1] = "call" THEN {<<x, f>> : f \in ToSet(Outputs[e[2]])} ELSE {})])
           /\ meaning' = [meaning EXCEPT ![x] =
                            CASE e[1] = "call" -> CallValue(w, e[2])
                              [] e[1] \in {"var", "field"} -> Meant(e)
                              [] OTHER -> Imm({})]

(* CALL b args, or CALL b args -> outs.  The names in outs are neither     *)
(* checked nor defined by the analysis.                                    *)
ReadCall(b, args, outs) ==
    /\ NextNode
    /\ LET e == <<"call", b, args>>
           w == CallNode(World, b, args)
           k == Len(w.buf)
           n == Len(Outputs[b])
       IN  /\ Done(Loosened(Computing(IF outs # <<>> THEN RedirectAll(w, outs) ELSE w, e),
                        UNION {Bound(o) : o \in ToSet(outs) \ {OutParam}}
                            \cup (IF Len(outs) < n THEN {"partial"} ELSE {})),
                   [an EXCEPT
                      !.errors = @ \cup OperandErrors(e)
                                   \cup (IF outs = <<>> /\ n > 0 THEN {"UnconsumedOutput"} ELSE {}),
                      !.live = @ \cup Places(e),
                      !.obliged = @ \cup {<<o, "">> : o \in ToSet(outs) \ {OutParam}}])
           /\ meaning' = [x \in BodyLocals |->
                            IF x \in ToSet(outs) /\ IndexOf(x, outs) <= n
                            THEN Imm({<<k, Outputs[b][IndexOf(x, outs)]>>}) ELSE meaning[x]]

Sink(e) == [an EXCEPT !.errors = @ \cup OperandErrors(e), !.live = @ \cup Places(e)]

(* SET out e: a handle is loaded, 8 bytes, and stored. *)
WireSet(e) ==
    /\ NextNode
    /\ LET w == IF e[1] = "call" THEN Loosened(CallNode(World, e[2], e[3]), {"nested"}) ELSE Use(World, e, FALSE)
       IN  Done(Computing(w, e), Sink(e))
    /\ UNCHANGED meaning

ReadBranch(e) == NextNode /\ Done(Computing(Use(World, e, FALSE), e), Sink(e)) /\ UNCHANGED meaning

(* DISCARD e: nothing is generated; the value counts as consumed.  Nobody  *)
(* checks that the field exists.                                           *)
ReadDiscard(e) ==
    /\ NextNode
    /\ Done([World EXCEPT !.ex.consumed = @ \cup MeantTokens(e),
                          !.ex.loose = @ \cup (IF Meant(e) = Unbound THEN {"nofield"} ELSE {})],
            Sink(e))
    /\ UNCHANGED meaning

(* CHANNEL_SEND x e: x must be bound to an int, a handle is sent as its address. *)
ReadSend(x, e) ==
    /\ NextNode
    /\ LET w == Computing(Use(World, e, TRUE), e)
       IN  Done([w EXCEPT !.cg.failed = @ \/ gen.vars[x].kind # "imm"],
                IF x \in an.defined THEN Sink(e) ELSE [an EXCEPT !.errors = @ \cup {"UndefinedVariable"}])
    /\ UNCHANGED meaning

(* STORE, FREE or SCOPE. *)
ReadMemory ==
    /\ NextNode
    /\ Done([World EXCEPT !.ex.computes = @ \cup {"memory"}], [an EXCEPT !.errors = @ \cup {"CompositeComputes"}])
    /\ UNCHANGED meaning

(* Mutation: an assigned value counts as consumed, used or not. *)
ConsumedByAssignment == an.live \cup UNION {e[2] : e \in an.edges}

(* The consumed places: what a live target was assigned from is live. *)
Consumed ==
    LET L[i \in 0 .. Cardinality(an.edges)] ==
          IF i = 0 THEN an.live
          ELSE L[i - 1] \cup UNION {e[2] : e \in {d \in an.edges : \E p \in L[i - 1] : p[1] = d[1]}}
    IN  L[Cardinality(an.edges)]

Unconsumed == {p \in an.obliged : p \notin Consumed /\ ~(p[2] # "" /\ <<p[1], "">> \in Consumed)}

EndBody ==
    /\ verdict = ""
    /\ an' = [an EXCEPT !.errors = @ \cup (IF Unconsumed # {} THEN {"UnconsumedOutput"} ELSE {})]
    /\ verdict' = IF an'.errors = {} /\ ~gen.failed THEN "accepted" ELSE "rejected"
    /\ UNCHANGED <<len, gen, buf, ex, meaning>>

-----------------------------------------------------------------------------
Field == {<<"field", x, f>> : x \in BodyLocals, f \in Fields}
Readable == Field \cup {<<"var", x>> : x \in BodyLocals}
Simple == Readable \cup {<<"var", InParam>>, <<"lit">>, <<"compute">>}
ArgLists == {<<>>, <<<<"var", InParam>>>>, <<<<"compute">>>>} \cup {<<e>> : e \in Field}
Calls == {<<"call", b, args>> : b \in Callees, args \in ArgLists}
OutLists == {<<>>, <<OutParam>>} \cup {<<o>> : o \in BodyLocals} \cup {<<OutParam, o>> : o \in BodyLocals}

CompositionNext ==
    \/ \E x \in BodyLocals : \E e \in Simple \cup Calls : WireAssign(x, e)
    \/ \E x \in BodyLocals, args \in ArgLists : WireAssign(x, <<"spawn", args>>)
    \/ \E x \in BodyLocals, e \in {<<"lit">>, <<"compute">>} : WireAssign(x, <<"channel", e>>)
    \/ \E b \in Callees, args \in ArgLists, outs \in OutLists : ReadCall(b, args, outs)
    \/ \E e \in Simple \cup Calls : WireSet(e)
    \/ \E e \in Simple : ReadBranch(e)
    \/ \E e \in Readable : ReadDiscard(e)
    \/ \E x \in BodyLocals, e \in Readable : ReadSend(x, e)
    \/ ReadMemory
    \/ EndBody

CompositionSpec == CompositionInit /\ [][CompositionNext]_compositionVars

-----------------------------------------------------------------------------
(* Properties. *)

(* In an accepted composition every output a CALL produces reaches a sink: *)
(* another call or spawn, a BRANCH, an OUTPUT, a channel or a DISCARD.     *)
(* This needs a body without the LooseUses (check_outputs_consumed).       *)
ProducedIsConsumed ==
    verdict = "accepted" /\ ex.loose = {} => ex.produced \subseteq ex.consumed

(* When each name is bound once and no CALL is nested, every field and     *)
(* name the generated code reads holds what the call bound to that name    *)
(* produced.  (call_outputs is not cleared when a name is rebound, and the *)
(* outputs of a nested CALL stay pending for the next assignment.)         *)
FieldsDenoteTheirCall ==
    /\ CompositionTypeOK
    /\ ex.loose \cap {"rebound", "nested"} = {} /\ ~gen.failed /\ an.errors = {} => ex.misread = {}

(* An accepted composition computes nothing and touches no memory, in no   *)
(* node and no operand, except in the capacity of a CHANNEL, the one place *)
(* that check_composite_purity does not scan.                              *)
WiresOnly == verdict = "accepted" => ex.computes \subseteq {"capacity"}

=============================================================================
