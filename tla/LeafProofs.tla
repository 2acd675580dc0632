----------------------------- MODULE LeafProofs -----------------------------
(***************************************************************************)
(* Proofs about the bodies of leaf behaviors: bodies of any length over    *)
(* any names, sizes and offsets.                                           *)
(***************************************************************************)
EXTENDS LeafBody, TLAPS

(* The types of the state. *)
Val == {NoValue} \cup [kind : {"int", "float", "handle"}, id : Nat, size : Nat, typ : {"Bytes", "Int", "Float"}]
InfoRec == [typ : {"", "Bytes", "Int", "Float"},
            origin : {"", "Input", "Output", "Alloc", "Computed", "LoadResult"}, size : Int,
            state : {"Owned", "Borrowed", "NotAHandle", ""}, shared : BOOLEAN]
BlockRec == [size : Nat, live : BOOLEAN, init : BOOLEAN]
Hist == [len : Nat, meaning : [Names -> Val], bad : BOOLEAN, misread : BOOLEAN, dangling : BOOLEAN,
         loose : SUBSET Loose]

Typed ==
    /\ info \in [Names -> InfoRec]
    /\ \A n \in Names : info[n].state = "" => info[n] = Undefined
    /\ path \in [freed : SUBSET Names, stored : SUBSET Names, allocs : SUBSET Names]
    /\ borrows \subseteq Names \X Names
    /\ scope \in [open : BOOLEAN, saved : [Names -> Val] \cup {<<>>}, allocs : SUBSET Locals,
                  frees : SUBSET Names, blocks : SUBSET Nat]
    /\ scope.open => scope.saved \in [Names -> Val]
    /\ reassigned \subseteq Locals
    /\ cg \in [vars : [Names -> Val], slot : [Names -> Val]]
    /\ mem \in Seq(BlockRec)
    /\ tasks \subseteq [id : Nat, block : SUBSET Nat]
    /\ hist \in Hist

Handle(v) == v.kind = "handle"

(* The parameters keep their names to themselves, a mutable slot holds a   *)
(* number, every handle and every task's block was allocated, and a name   *)
(* has a value only after it was given one.                                *)
Static ==
    /\ cg.vars[In] = Value("handle", 1, InSize, "Bytes") /\ cg.vars[Out] = Value("handle", 2, OutSize, "Int")
    /\ info[In].state = "Borrowed" /\ info[Out].state = "Borrowed"
    /\ \A n \in Names : cg.slot[n] # NoValue => n \in reassigned /\ IsScalar(cg.slot[n])
    /\ Len(mem) >= 2
    /\ \A n \in Names : Handle(cg.vars[n]) => cg.vars[n].id \in 1 .. Len(mem)
    /\ scope.blocks \subseteq 3 .. Len(mem)
    /\ \A t \in tasks : t.block \subseteq 1 .. Len(mem)
    /\ scope.open => /\ scope.saved[In] = cg.vars[In] /\ scope.saved[Out] = cg.vars[Out]
                     /\ \A n \in Names : Handle(scope.saved[n]) => scope.saved[n].id \in 1 .. Len(mem)
    /\ ~scope.open => scope.blocks = {}
    /\ \A n \in Names : hist.meaning[n] = NoValue =>
         cg.vars[n] = NoValue /\ (scope.open => scope.saved[n] = NoValue)

Clean(S) == hist.loose \cap S = {}

(* Without SET of a local or a name shadowed in a SCOPE: what had a value  *)
(* before the SCOPE still has it, and a name of `reassigned` keeps only    *)
(* handles in `variables`.                                                 *)
Unshadowed ==
    Clean({"set", "shadowed"}) =>
        /\ scope.open => \A n \in Names : scope.saved[n] # NoValue => cg.vars[n] = scope.saved[n]
        /\ scope.open => \A n \in scope.allocs : scope.saved[n] = NoValue
        /\ \A n \in reassigned : cg.vars[n].kind \in {"none", "handle"}

(* A name that can be read denotes the value last assigned to it. *)
Latest ==
    Clean({"set", "mixed", "shadowed"}) =>
        /\ ~hist.misread
        /\ \A n \in Names : GetVar(n) # NoValue => GetVar(n) = hist.meaning[n]

(* A block has one name at most.  A name that has not been freed denotes a *)
(* live block, an own one if it is not a parameter, which belongs to the   *)
(* open SCOPE unless the name had it before.                               *)
OneName ==
    Clean({"set", "shadowed", "copied"}) =>
        /\ \A m, n \in Names : Handle(cg.vars[m]) /\ Handle(cg.vars[n]) /\ cg.vars[m].id = cg.vars[n].id => m = n
        /\ \A n \in Locals : Handle(cg.vars[n]) => cg.vars[n].id >= 3 /\ n \in path.allocs
        /\ scope.open => \A n \in Names : Handle(cg.vars[n]) =>
             (scope.saved[n] = NoValue <=> cg.vars[n].id \in scope.blocks)
        /\ \A n \in Names \ path.freed : Handle(GetVar(n)) => mem[GetVar(n).id].live

LooseBounds == {"short", "folded", "negative", "empty", "float", "atomic", "number", "copied", "set", "stale",
                "unscanned", "shadowed"}

(* The analysis, the code generator and the memory agree on sizes, and a   *)
(* name counts as stored to only if its block was.                         *)
Sized ==
    Clean(LooseBounds) =>
        /\ ~hist.bad
        /\ \A n \in Names : Handle(GetVar(n)) =>
             /\ info[n].size = GetVar(n).size /\ mem[GetVar(n).id].size = GetVar(n).size
             /\ n \in path.stored => mem[GetVar(n).id].init

LooseBorrows == {"copied", "scoped", "shadowed", "unscanned", "set"}

(* A task's block is a parameter's, or lent by a name y that has not been  *)
(* freed, for the spawn handle x: only a WAIT for x can end the borrow.    *)
Lent(t, b, y, x) ==
    /\ <<y, x>> \in borrows
    /\ y \in path.allocs /\ y \notin path.freed
    /\ cg.vars[y] # NoValue /\ (scope.open => scope.saved[y] # NoValue)
    /\ \A n \in Names : Handle(cg.vars[n]) /\ cg.vars[n].id = b => n = y
    /\ x \notin reassigned =>
         /\ hist.meaning[x] # NoValue
         /\ cg.vars[x].kind = "int" => cg.vars[x].id = t.id
         /\ scope.open /\ scope.saved[x].kind = "int" => scope.saved[x].id = t.id

Borrowed ==
    Clean(LooseBorrows) =>
        /\ ~hist.dangling
        /\ \A t \in tasks : t.block \cap scope.blocks = {}
        /\ \A t \in tasks : \A b \in t.block : b >= 3 => \E y \in Locals, x \in Names : Lent(t, b, y, x)

IInv == Typed /\ Static /\ Unshadowed /\ Latest /\ OneName /\ Sized /\ Borrowed

-----------------------------------------------------------------------------
(* Values and names *)

(* The parameters are two names that are not locals. *)
LEMMA NameFacts ==
    /\ In \in Names /\ Out \in Names /\ In # Out /\ In \notin Locals /\ Out \notin Locals
    /\ Locals \subseteq Names /\ Names = Locals \cup {In, Out}
    /\ InSize \in Nat /\ OutSize \in Nat /\ DefaultSize \in Nat /\ WordSize \in Nat
    /\ Offsets \subseteq 0 .. WordSize - 1
    /\ \A s \in Statements : IsStatement(s)
    /\ NoValue \in Val /\ NoValue.kind = "none"
    /\ \A v \in Val : /\ v.kind \in {"none", "int", "float", "handle"} /\ v.id \in Nat /\ v.size \in Nat
                      /\ v.kind = "none" => v = NoValue
<1>1. /\ In \in Names /\ Out \in Names /\ In # Out /\ In \notin Locals /\ Out \notin Locals
      /\ Locals \subseteq Names /\ Names = Locals \cup {In, Out}
  BY LeafAssumption DEF Names, In, Out
<1>2. /\ InSize \in Nat /\ OutSize \in Nat /\ DefaultSize \in Nat /\ WordSize \in Nat
      /\ Offsets \subseteq 0 .. WordSize - 1
  BY LeafAssumption
<1>3. \A s \in Statements : IsStatement(s)
  BY LeafAssumption
<1>4. /\ NoValue \in Val /\ NoValue.kind = "none"
      /\ \A v \in Val : /\ v.kind \in {"none", "int", "float", "handle"} /\ v.id \in Nat /\ v.size \in Nat
                        /\ v.kind = "none" => v = NoValue
  <2>1. NoValue = [kind |-> "none", id |-> 0, size |-> 0, typ |-> ""]
    BY DEF NoValue, Value
  <2>2. \A v \in [kind : {"int", "float", "handle"}, id : Nat, size : Nat, typ : {"Bytes", "Int", "Float"}] :
           v.kind \in {"int", "float", "handle"} /\ v.id \in Nat /\ v.size \in Nat
    OBVIOUS
  <2>3. NoValue.kind = "none" /\ NoValue.id = 0 /\ NoValue.size = 0
    BY <2>1
  <2> HIDE DEF NoValue
  <2> QED
    BY <2>2, <2>3 DEF Val
<1> QED
  BY <1>1, <1>2, <1>3, <1>4

(* get_var prefers the slot, which holds a number: a handle is always in   *)
(* `variables`.                                                            *)
LEMMA GetVarFacts ==
    ASSUME Typed, Static, NEW n \in Names
    PROVE  /\ GetVar(n) \in Val /\ cg.vars[n] \in Val /\ cg.slot[n] \in Val
           /\ cg.slot[n] = NoValue => GetVar(n) = cg.vars[n]
           /\ cg.slot[n] # NoValue => GetVar(n) = cg.slot[n] /\ IsScalar(GetVar(n))
           /\ Handle(GetVar(n)) => cg.slot[n] = NoValue /\ GetVar(n) = cg.vars[n]
                                   /\ cg.vars[n].id \in 1 .. Len(mem)
<1>1. cg.vars[n] \in Val /\ cg.slot[n] \in Val
  BY DEF Typed
<1>2. cg.slot[n] # NoValue => IsScalar(cg.slot[n])
  BY DEF Static
<1>3. GetVar(n) = IF cg.slot[n] # NoValue THEN cg.slot[n] ELSE cg.vars[n]
  BY DEF GetVar
<1>4. \A v : IsScalar(v) => ~Handle(v)
  BY DEF IsScalar, Handle
<1>5. Handle(cg.vars[n]) => cg.vars[n].id \in 1 .. Len(mem)
  BY DEF Static
<1> QED
  BY <1>1, <1>2, <1>3, <1>4, <1>5

(* An assignment changes the slot or the variable of its name. *)
LEMMA BindFacts ==
    ASSUME Typed, Static, NEW x \in Locals, NEW v \in Val, v.kind # "none", cg' = Bind(x, v)
    PROVE  /\ cg' \in [vars : [Names -> Val], slot : [Names -> Val]]
           /\ \A n \in Names : n # x => cg'.vars[n] = cg.vars[n] /\ cg'.slot[n] = cg.slot[n]
           /\ x \in reassigned /\ IsScalar(v) =>
                /\ cg'.vars[x] = cg.vars[x] /\ cg'.slot[x] # NoValue /\ IsScalar(cg'.slot[x])
                /\ cg.slot[x] = NoValue \/ cg.slot[x].kind = v.kind => cg'.slot[x] = v
           /\ ~(x \in reassigned /\ IsScalar(v)) => cg'.vars[x] = v /\ cg'.slot[x] = cg.slot[x]
<1>1. x \in Names /\ cg \in [vars : [Names -> Val], slot : [Names -> Val]]
  BY NameFacts DEF Typed
<1>2. CASE x \in reassigned /\ IsScalar(v)
  <2>1. PICK w : w = IF cg.slot[x] = NoValue THEN v ELSE [v EXCEPT !.kind = cg.slot[x].kind]
    OBVIOUS
  <2>2. cg' = [cg EXCEPT !.slot[x] = w]
    BY <1>2, <2>1 DEF Bind
  <2>3. w \in Val /\ w.kind \in {"int", "float"}
    <3>1. cg.slot[x] # NoValue => cg.slot[x].kind \in {"int", "float"}
      BY <1>1 DEF Static, IsScalar
    <3> QED
      BY <1>2, <2>1, <3>1, NameFacts DEF Val, IsScalar
  <2>4. cg.slot[x] = NoValue \/ cg.slot[x].kind = v.kind => w = v
    BY <2>1, NameFacts DEF Val
  <2>5. w # NoValue
    BY <2>3, NameFacts
  <2> QED
    BY <1>1, <1>2, <2>2, <2>3, <2>4, <2>5 DEF IsScalar
<1>3. CASE ~(x \in reassigned /\ IsScalar(v))
  <2>1. cg' = [cg EXCEPT !.vars[x] = v]
    BY <1>3 DEF Bind
  <2> QED
    BY <1>1, <1>3, <2>1
<1> QED
  BY <1>2, <1>3

(* What a statement adds to the history: it keeps what names mean, and is *)
(* to blame only for its own accesses and for the names it read.          *)
Noted(H, read, bad, loose) ==
    /\ H \in Hist /\ H.len = Here /\ H.meaning = hist.meaning
    /\ (H.bad => hist.bad \/ bad) /\ (H.misread => hist.misread \/ Misread(read))
    /\ H.dangling = hist.dangling /\ \A u : u \in hist.loose \/ u \in loose => u \in H.loose

(* Note, which every statement read by the analysis applies, is such a step. *)
LEMMA NoteFacts ==
    ASSUME Typed, NEW read, NEW bad \in BOOLEAN, NEW loose \in SUBSET Loose,
           NEW H, H = Note(read, bad, loose)
    PROVE  Noted(H, read, bad, loose)
<1>1. hist \in Hist
  BY DEF Typed
<1>2. Misread(read) \in BOOLEAN
  BY Zenon DEF Misread
<1>3. PICK m \in BOOLEAN : m = (hist.misread \/ Misread(read))
  BY <1>2, Zenon
<1>4. PICK b \in BOOLEAN : b = (hist.bad \/ bad)
  BY Zenon
<1>5. H = [hist EXCEPT !.len = Here, !.misread = m, !.bad = b, !.loose = @ \cup loose]
  BY <1>1, <1>3, <1>4, Zenon DEF Note
<1>6. Here \in Nat
  BY <1>1 DEF Here, Hist
<1>7. /\ H \in Hist /\ H.len = Here /\ H.meaning = hist.meaning /\ H.bad = b /\ H.misread = m
      /\ H.dangling = hist.dangling /\ H.loose = hist.loose \cup loose
  BY <1>1, <1>5, <1>6 DEF Hist
<1> QED
  BY <1>3, <1>4, <1>7 DEF Noted

(* The numbers that statements compute. *)
LEMMA ValueFacts ==
    ASSUME Typed
    PROVE  /\ Here \in Nat /\ Word \in Val /\ Word.kind = "int" /\ Word.id = Here
           /\ Float(8) \in Val /\ Float(8).kind = "float"
           /\ \A h \in Val, size \in Nat : Loaded(h, size) \in Val /\ IsScalar(Loaded(h, size))
<1>1. Here \in Nat
  <2>1. hist \in Hist
    BY DEF Typed
  <2>2. hist.len \in Nat
    BY <2>1 DEF Hist
  <2> QED
    BY <2>2 DEF Here
<1>2. Word \in Val /\ Word.kind = "int" /\ Word.id = Here
  BY <1>1 DEF Word, Value, Val
<1>3. \A w \in Nat : Float(w) \in Val /\ Float(w).kind = "float"
  BY <1>1 DEF Float, Value, Val
<1>4. \A h \in Val, size \in Nat : LoadWidth(h, size) \in Nat
  BY DEF LoadWidth
<1>5. \A size \in Nat : Value("int", Here, size, "Int") \in Val /\ Value("int", Here, size, "Int").kind = "int"
  BY <1>1 DEF Value, Val
<1>6. ASSUME NEW h \in Val, NEW size \in Nat
      PROVE  Loaded(h, size) \in Val /\ IsScalar(Loaded(h, size))
  BY <1>3, <1>4, <1>5 DEF Loaded, IsScalar
<1> QED
  BY <1>1, <1>2, <1>3, <1>6

(* An operand that compiles has a value; only a name can have a handle. *)
LEMMA CompiledFacts ==
    ASSUME Typed, Static, NEW e \in Operands \cup ({"load"} \X Names), Compiles(e)
    PROVE  /\ Compiled(e) \in Val /\ Compiled(e).kind # "none"
           /\ ReadNames(e) \subseteq Names /\ \A n \in ReadNames(e) : GetVar(n) # NoValue
           /\ Infer(e) \in InfoRec /\ (ExprErrors(e) = {} => Infer(e).state # "")
           /\ Handle(Compiled(e)) => /\ e[1] = "var" /\ e[2] \in Names /\ Compiled(e) = GetVar(e[2])
                                     /\ Compiled(e).id \in 1 .. Len(mem)
           /\ e[1] = "load" => e[2] \in Names /\ Accessible(GetVar(e[2]))
<1>1. CASE e = <<"int">>
  <2>1. Compiled(e) = Word /\ ReadNames(e) = {} /\ Infer(e) = Number("Int") /\ e[1] # "load"
    BY <1>1 DEF Compiled, ReadNames, Infer
  <2>2. Infer(e) \in InfoRec /\ Infer(e).state # ""
    BY <2>1 DEF Number, Info, InfoRec, Unknown
  <2> QED
    BY <2>1, <2>2, ValueFacts DEF Handle
<1>2. CASE e = <<"float">>
  <2>1. Compiled(e) = Float(8) /\ ReadNames(e) = {} /\ Infer(e) = Number("Float") /\ e[1] # "load"
    BY <1>2 DEF Compiled, ReadNames, Infer
  <2>2. Infer(e) \in InfoRec /\ Infer(e).state # ""
    BY <2>1 DEF Number, Info, InfoRec, Unknown
  <2> QED
    BY <2>1, <2>2, ValueFacts DEF Handle
<1>3. CASE e \in {"var"} \X Names
  <2>1. PICK y \in Names : e = <<"var", y>>
    BY <1>3
  <2>2. /\ Compiled(e) = GetVar(y) /\ ReadNames(e) = {y} /\ Infer(e) = info[y] /\ e[1] = "var" /\ e[2] = y
        /\ GetVar(y) # NoValue
    BY <2>1 DEF Compiled, ReadNames, Infer, Compiles
  <2>3. Infer(e) \in InfoRec /\ (ExprErrors(e) = {} => Infer(e).state # "")
    <3>1. info[y] \in InfoRec
      BY DEF Typed
    <3>2. info[y].state = "" => info[y] = Undefined
      BY DEF Typed
    <3>3. ExprErrors(e) = {} => info[y] # Undefined
      BY <2>2 DEF ExprErrors, UsesUndefined, Error, Exists
    <3> QED
      BY <2>2, <3>1, <3>2, <3>3
  <2>4. GetVar(y) \in Val /\ GetVar(y).kind # "none" /\ (Handle(GetVar(y)) => GetVar(y).id \in 1 .. Len(mem))
    BY <2>2, GetVarFacts, NameFacts
  <2> QED
    BY <2>2, <2>3, <2>4
<1>4. CASE e \in {"load"} \X Names
  <2>1. PICK y \in Names : e = <<"load", y>>
    BY <1>4
  <2>2. /\ Compiled(e) = Loaded(GetVar(y), 8) /\ ReadNames(e) = {y} /\ e[1] = "load" /\ e[2] = y
        /\ Infer(e) = Info("Int", "LoadResult", Unknown, "NotAHandle", FALSE) /\ Accessible(GetVar(y))
    BY <2>1 DEF Compiled, ReadNames, Infer, Compiles
  <2>3. Infer(e) \in InfoRec /\ Infer(e).state # ""
    BY <2>2 DEF Info, InfoRec, Unknown
  <2>4. GetVar(y) \in Val /\ GetVar(y) # NoValue
    BY <2>2, GetVarFacts, NameFacts DEF Accessible
  <2>5. Compiled(e) \in Val /\ IsScalar(Compiled(e))
    BY <2>2, <2>4, ValueFacts
  <2> QED
    BY <2>2, <2>3, <2>4, <2>5 DEF IsScalar, Handle
<1> QED
  BY <1>1, <1>2, <1>3, <1>4 DEF Operands

(* What a store and a release do to the blocks. *)
LEMMA WrittenFacts ==
    ASSUME Typed, NEW h \in Val, Handle(h) => h.id \in 1 .. Len(mem)
    PROVE  /\ Written(h) \in Seq(BlockRec) /\ Len(Written(h)) = Len(mem)
           /\ \A i \in 1 .. Len(mem) : /\ Written(h)[i].size = mem[i].size /\ Written(h)[i].live = mem[i].live
                                       /\ mem[i].init => Written(h)[i].init
           /\ Handle(h) => Written(h)[h.id].init
<1>1. mem \in Seq(BlockRec)
  BY DEF Typed
<1>2. CASE Handle(h)
  <2>1. PICK k \in 1 .. Len(mem) : k = h.id
    BY <1>2
  <2>2. Written(h) = [mem EXCEPT ![k].init = TRUE]
    BY <1>2, <2>1 DEF Written, Handle
  <2>3. mem[k] \in BlockRec
    BY <1>1
  <2>4. [mem[k] EXCEPT !.init = TRUE] \in BlockRec
    BY <2>3 DEF BlockRec
  <2>5. Written(h) = [mem EXCEPT ![k] = [mem[k] EXCEPT !.init = TRUE]]
    BY <1>1, <2>2
  <2>6. Written(h) \in Seq(BlockRec) /\ Len(Written(h)) = Len(mem)
    BY <1>1, <2>4, <2>5
  <2>7. Written(h)[k] = [mem[k] EXCEPT !.init = TRUE] /\ \A i \in 1 .. Len(mem) : i # k => Written(h)[i] = mem[i]
    <3>1. DOMAIN mem = 1 .. Len(mem) /\ k \in DOMAIN mem
      BY <1>1
    <3> QED
      BY <2>5, <3>1
  <2> QED
    BY <2>1, <2>3, <2>6, <2>7 DEF BlockRec
<1>3. CASE ~Handle(h)
  BY <1>1, <1>3 DEF Written, Handle
<1> QED
  BY <1>2, <1>3

(* A release changes only what is live: the sizes and contents are kept. *)
LEMMA ReleaseFacts ==
    ASSUME Typed, NEW blocks
    PROVE  /\ Release(blocks) \in Seq(BlockRec) /\ Len(Release(blocks)) = Len(mem)
           /\ \A i \in 1 .. Len(mem) : /\ Release(blocks)[i].size = mem[i].size
                                       /\ Release(blocks)[i].init = mem[i].init
                                       /\ i \notin blocks => Release(blocks)[i].live = mem[i].live
<1>0. mem \in Seq(BlockRec)
  BY DEF Typed
<1>1. mem \in Seq(BlockRec) /\ DOMAIN mem = 1 .. Len(mem) /\ Len(mem) \in Nat
  BY <1>0
<1>2. \A i \in 1 .. Len(mem) : mem[i] \in BlockRec
  BY <1>1
<1>3. \A i \in 1 .. Len(mem) :
        Release(blocks)[i] = IF i \in blocks THEN [mem[i] EXCEPT !.live = FALSE] ELSE mem[i]
  BY <1>1 DEF Release
<1>4. \A i \in 1 .. Len(mem) : [mem[i] EXCEPT !.live = FALSE] \in BlockRec
  BY <1>2 DEF BlockRec
<1>5. \A i \in 1 .. Len(mem) : Release(blocks)[i] \in BlockRec
  BY <1>2, <1>3, <1>4
<1>6. Release(blocks) \in [1 .. Len(mem) -> BlockRec]
  BY <1>1, <1>2, <1>4 DEF Release
<1>7. Release(blocks) \in Seq(BlockRec) /\ Len(Release(blocks)) = Len(mem)
  BY <1>1, <1>6
<1> QED
  BY <1>2, <1>3, <1>7 DEF BlockRec

-----------------------------------------------------------------------------
(* Assignments *)

(* Name x is given the value v, with what goes with every assignment. *)
Rebinds(x, v) ==
    /\ Assignable(x)
    /\ cg' = Bind(x, v)
    /\ hist'.meaning = [hist.meaning EXCEPT ![x] = v]
    /\ hist.loose \cup AssignUses(x, v) \subseteq hist'.loose
    /\ scope'.open = scope.open /\ scope'.saved = scope.saved
    /\ reassigned' = reassigned

(* Blocks are neither allocated nor released; a store may initialise one. *)
SameBlocks ==
    /\ Len(mem') = Len(mem)
    /\ \A i \in 1 .. Len(mem) : mem'[i].size = mem[i].size /\ mem'[i].live = mem[i].live
                                /\ (mem[i].init => mem'[i].init)

(* Name x is given the number v. *)
NumberTo(x, v) ==
    /\ Rebinds(x, v) /\ IsScalar(v)
    /\ path' = [path EXCEPT !.freed = @ \ {x}]
    /\ scope' = scope
    /\ \E i \in InfoRec : i.state # "" /\ info' = [info EXCEPT ![x] = i]
    /\ SameBlocks

(* A loose use once noted stays noted. *)
LEMMA CleanBefore ==
    ASSUME NEW S, hist.loose \subseteq hist'.loose, Clean(S)'
    PROVE  Clean(S)
  BY DEF Clean

(* Any assignment keeps the parameters, the slots and the ranges. *)
LEMMA RebindsStatic ==
    ASSUME Typed, Static, Typed', NEW x \in Locals, NEW v \in Val, v.kind # "none", Rebinds(x, v),
           \A n \in Names : n # x => info'[n] = info[n],
           Len(mem') >= Len(mem), Handle(v) => v.id \in 1 .. Len(mem'),
           scope'.blocks \subseteq 3 .. Len(mem'), ~scope.open => scope'.blocks = {},
           \A t \in tasks' : t.block \subseteq 1 .. Len(mem')
    PROVE  Static'
<1>1. /\ \A n \in Names : n # x => cg'.vars[n] = cg.vars[n] /\ cg'.slot[n] = cg.slot[n]
      /\ x \in reassigned /\ IsScalar(v) =>
           cg'.vars[x] = cg.vars[x] /\ cg'.slot[x] # NoValue /\ IsScalar(cg'.slot[x])
      /\ ~(x \in reassigned /\ IsScalar(v)) => cg'.vars[x] = v /\ cg'.slot[x] = cg.slot[x]
  BY BindFacts DEF Rebinds
<1>2. x \in Names /\ In \in Names /\ Out \in Names /\ x # In /\ x # Out
  BY NameFacts
<1>3. /\ cg'.vars[In] = cg.vars[In] /\ cg'.vars[Out] = cg.vars[Out]
      /\ info'[In] = info[In] /\ info'[Out] = info[Out]
  BY <1>1, <1>2
<1>4. \A n \in Names : cg'.slot[n] # NoValue => n \in reassigned' /\ IsScalar(cg'.slot[n])
  <2>1. TAKE n \in Names
  <2>2. CASE n = x
    BY <1>1, <1>2, <2>2 DEF Static, Rebinds
  <2>3. CASE n # x
    BY <1>1, <2>3 DEF Static, Rebinds
  <2> QED
    BY <2>2, <2>3
<1>5. \A n \in Names : Handle(cg'.vars[n]) => cg'.vars[n].id \in 1 .. Len(mem')
  <2>1. mem \in Seq(BlockRec) /\ mem' \in Seq(BlockRec)
    BY DEF Typed
  <2>2. \A n \in Names : Handle(cg.vars[n]) => cg.vars[n].id \in 1 .. Len(mem')
    BY <2>1 DEF Static
  <2> QED
    BY <1>1, <2>2
<1>6. scope.open => /\ scope.saved[In] = cg'.vars[In] /\ scope.saved[Out] = cg'.vars[Out]
                    /\ \A n \in Names : Handle(scope.saved[n]) => scope.saved[n].id \in 1 .. Len(mem')
  <2>1. mem \in Seq(BlockRec) /\ mem' \in Seq(BlockRec)
    BY DEF Typed
  <2> QED
    BY <1>3, <2>1 DEF Static
<1>7. \A n \in Names : hist'.meaning[n] = NoValue =>
        cg'.vars[n] = NoValue /\ (scope.open => scope.saved[n] = NoValue)
  <2>1. hist.meaning \in [Names -> Val]
    BY DEF Typed, Hist
  <2>2. hist'.meaning[x] = v /\ \A n \in Names : n # x => hist'.meaning[n] = hist.meaning[n]
    BY <1>2, <2>1 DEF Rebinds
  <2>3. v # NoValue
    BY NameFacts
  <2> QED
    BY <1>1, <2>2, <2>3 DEF Static
<1>8. Len(mem') >= 2
  <2>1. mem \in Seq(BlockRec) /\ mem' \in Seq(BlockRec)
    BY DEF Typed
  <2>2. Len(mem) >= 2
    BY DEF Static
  <2> QED
    BY <2>1, <2>2
<1> QED
  BY <1>3, <1>4, <1>5, <1>6, <1>7, <1>8 DEF Static, Rebinds

(* Any assignment leaves the names of the surrounding scope as they were,  *)
(* or is noted.                                                            *)
LEMMA RebindsUnshadowed ==
    ASSUME Typed, Static, Unshadowed, NEW x \in Locals, NEW v \in Val, v.kind # "none", Rebinds(x, v),
           scope'.allocs \subseteq scope.allocs \cup {x}, x \in scope'.allocs \ scope.allocs => Handle(v)
    PROVE  Unshadowed'
<1>1. SUFFICES ASSUME Clean({"set", "shadowed"})'
               PROVE  /\ scope.open => \A n \in Names : scope.saved[n] # NoValue => cg'.vars[n] = scope.saved[n]
                      /\ scope.open => \A n \in scope'.allocs : scope.saved[n] = NoValue
                      /\ \A n \in reassigned : cg'.vars[n].kind \in {"none", "handle"}
  BY DEF Unshadowed, Rebinds
<1>2. Clean({"set", "shadowed"})
  BY <1>1, CleanBefore DEF Rebinds
<1>3. scope.open /\ scope.saved[x] # NoValue => x \in reassigned /\ IsScalar(v)
  <2>1. "shadowed" \notin AssignUses(x, v)
    BY <1>1 DEF Rebinds, Clean
  <2> QED
    BY <2>1 DEF AssignUses, Uses
<1>4. /\ \A n \in Names : n # x => cg'.vars[n] = cg.vars[n]
      /\ x \in reassigned /\ IsScalar(v) => cg'.vars[x] = cg.vars[x]
      /\ ~(x \in reassigned /\ IsScalar(v)) => cg'.vars[x] = v
  BY BindFacts DEF Rebinds
<1>5. x \in Names /\ reassigned \subseteq Names /\ scope.allocs \subseteq Names
  BY NameFacts DEF Typed
<1>6. ASSUME scope.open, NEW n \in Names, scope.saved[n] # NoValue
      PROVE  cg'.vars[n] = scope.saved[n]
  BY <1>2, <1>3, <1>4, <1>6 DEF Unshadowed
<1>7. ASSUME scope.open, NEW n \in scope'.allocs
      PROVE  scope.saved[n] = NoValue
  <2>1. CASE n \in scope.allocs
    BY <1>2, <1>7, <2>1 DEF Unshadowed
  <2>2. CASE n \notin scope.allocs
    <3>1. n = x /\ Handle(v)
      BY <1>7, <2>2
    <3>2. ~IsScalar(v)
      BY <3>1 DEF Handle, IsScalar
    <3> QED
      BY <1>3, <1>7, <3>1, <3>2
  <2> QED
    BY <2>1, <2>2
<1>8. ASSUME NEW n \in reassigned
      PROVE  cg'.vars[n].kind \in {"none", "handle"}
  <2>1. cg.vars[n].kind \in {"none", "handle"}
    BY <1>2 DEF Unshadowed
  <2>2. n = x => IsScalar(v) \/ v.kind \in {"none", "handle"}
    BY NameFacts DEF IsScalar
  <2> QED
    BY <1>4, <1>5, <2>1, <2>2
<1> QED
  BY <1>6, <1>7, <1>8

(* Any assignment makes its name denote the new value, or is noted. *)
LEMMA RebindsLatest ==
    ASSUME Typed, Static, Latest, NEW x \in Locals, NEW v \in Val, v.kind # "none", Rebinds(x, v),
           NEW read \in SUBSET Names, \A n \in read : GetVar(n) # NoValue,
           hist'.misread => hist.misread \/ Misread(read)
    PROVE  Latest'
<1>1. SUFFICES ASSUME Clean({"set", "mixed", "shadowed"})'
               PROVE  /\ ~hist'.misread
                      /\ \A n \in Names : GetVar(n)' # NoValue => GetVar(n)' = hist'.meaning[n]
  BY DEF Latest
<1>2. Clean({"set", "mixed", "shadowed"})
  BY <1>1, CleanBefore DEF Rebinds
<1>3. ~hist'.misread
  BY <1>2 DEF Latest, Misread
<1>4. /\ \A n \in Names : n # x => cg'.vars[n] = cg.vars[n] /\ cg'.slot[n] = cg.slot[n]
      /\ x \in reassigned /\ IsScalar(v) =>
           /\ cg'.slot[x] # NoValue
           /\ cg.slot[x] = NoValue \/ cg.slot[x].kind = v.kind => cg'.slot[x] = v
      /\ ~(x \in reassigned /\ IsScalar(v)) => cg'.vars[x] = v /\ cg'.slot[x] = cg.slot[x]
  BY BindFacts DEF Rebinds
<1>5. hist'.meaning[x] = v /\ \A n \in Names : n # x => hist'.meaning[n] = hist.meaning[n]
  <2>1. hist.meaning \in [Names -> Val] /\ x \in Names
    BY NameFacts DEF Typed, Hist
  <2> QED
    BY <2>1 DEF Rebinds
<1>6. cg.slot[x] = NoValue \/ cg.slot[x].kind = v.kind
  <2>1. "mixed" \notin AssignUses(x, v)
    BY <1>1 DEF Rebinds, Clean
  <2> QED
    BY <2>1 DEF AssignUses, Uses
<1>7. GetVar(x)' = v
  <2>1. CASE x \in reassigned /\ IsScalar(v)
    BY <1>4, <1>6, <2>1 DEF GetVar
  <2>2. CASE ~(x \in reassigned /\ IsScalar(v))
    <3>1. cg.slot[x] = NoValue
      <4>1. SUFFICES ASSUME cg.slot[x] # NoValue
                     PROVE  FALSE
        OBVIOUS
      <4>2. x \in reassigned /\ IsScalar(cg.slot[x]) /\ cg.slot[x].kind = v.kind
        BY <1>6, <4>1, NameFacts DEF Static
      <4> QED
        BY <2>2, <4>2 DEF IsScalar
    <3> QED
      BY <1>4, <2>2, <3>1 DEF GetVar
  <2> QED
    BY <2>1, <2>2
<1>8. ASSUME NEW n \in Names, GetVar(n)' # NoValue
      PROVE  GetVar(n)' = hist'.meaning[n]
  <2>1. CASE n = x
    BY <1>5, <1>7, <2>1
  <2>2. CASE n # x
    <3>1. GetVar(n)' = GetVar(n)
      BY <1>4, <2>2 DEF GetVar
    <3> QED
      BY <1>2, <1>5, <1>8, <2>2, <3>1 DEF Latest
  <2> QED
    BY <2>1, <2>2
<1> QED
  BY <1>3, <1>8

(* A number given to a name adds no handle. *)
LEMMA NumberHandles ==
    ASSUME Typed, Static, NEW x \in Locals, NEW v \in Val, NumberTo(x, v)
    PROVE  /\ v.kind # "none" /\ x \in Names
           /\ \A n \in Names : Handle(cg'.vars[n]) => cg'.vars[n] = cg.vars[n]
           /\ \A n \in Names : Handle(GetVar(n)') => n # x /\ GetVar(n)' = GetVar(n) /\ GetVar(n) = cg.vars[n]
           /\ \A n \in Names : n # x => info'[n] = info[n]
           /\ path'.freed = path.freed \ {x} /\ path'.stored = path.stored /\ path'.allocs = path.allocs
<1>1. v.kind # "none" /\ ~Handle(v) /\ x \in Names
  BY NameFacts DEF NumberTo, IsScalar, Handle
<1>2. /\ \A n \in Names : n # x => cg'.vars[n] = cg.vars[n] /\ cg'.slot[n] = cg.slot[n]
      /\ x \in reassigned => cg'.vars[x] = cg.vars[x] /\ cg'.slot[x] # NoValue /\ IsScalar(cg'.slot[x])
      /\ x \notin reassigned => cg'.vars[x] = v /\ cg'.slot[x] = cg.slot[x]
  BY <1>1, BindFacts DEF NumberTo, Rebinds
<1>3. \A n \in Names : Handle(cg'.vars[n]) => cg'.vars[n] = cg.vars[n]
  BY <1>1, <1>2
<1>4. ~Handle(GetVar(x)')
  <2>1. CASE x \in reassigned
    BY <1>2, <2>1 DEF GetVar, IsScalar, Handle
  <2>2. CASE x \notin reassigned
    <3>1. cg.slot[x] = NoValue
      BY <1>1, <2>2 DEF Static
    <3> QED
      BY <1>1, <1>2, <2>2, <3>1 DEF GetVar
  <2> QED
    BY <2>1, <2>2
<1>5. ASSUME NEW n \in Names, Handle(GetVar(n)')
      PROVE  n # x /\ GetVar(n)' = GetVar(n) /\ GetVar(n) = cg.vars[n]
  <2>1. n # x
    BY <1>4, <1>5
  <2>2. GetVar(n)' = GetVar(n)
    BY <1>2, <2>1 DEF GetVar
  <2> QED
    BY <1>5, <2>1, <2>2, GetVarFacts
<1>6. \A n \in Names : n # x => info'[n] = info[n]
  BY <1>1 DEF NumberTo, Typed
<1>7. path'.freed = path.freed \ {x} /\ path'.stored = path.stored /\ path'.allocs = path.allocs
  <2>1. path \in [freed : SUBSET Names, stored : SUBSET Names, allocs : SUBSET Names]
    BY DEF Typed
  <2> QED
    BY <2>1 DEF NumberTo
<1> QED
  BY <1>1, <1>3, <1>5, <1>6, <1>7

(* The names keep their blocks. *)
LEMMA NumberOneName ==
    ASSUME Typed, Static, OneName, NEW x \in Locals, NEW v \in Val, NumberTo(x, v)
    PROVE  OneName'
<1>1. /\ \A n \in Names : Handle(cg'.vars[n]) => cg'.vars[n] = cg.vars[n]
      /\ \A n \in Names : Handle(GetVar(n)') => n # x /\ GetVar(n)' = GetVar(n) /\ GetVar(n) = cg.vars[n]
      /\ path'.freed = path.freed \ {x} /\ path'.allocs = path.allocs
  BY NumberHandles
<1>2. scope' = scope /\ hist.loose \subseteq hist'.loose
  BY DEF NumberTo, Rebinds
<1>3. SUFFICES ASSUME Clean({"set", "shadowed", "copied"})'
               PROVE  /\ \A m, n \in Names : Handle(cg'.vars[m]) /\ Handle(cg'.vars[n]) /\ cg'.vars[m].id = cg'.vars[n].id
                           => m = n
                      /\ \A n \in Locals : Handle(cg'.vars[n]) => cg'.vars[n].id >= 3 /\ n \in path'.allocs
                      /\ scope.open => \A n \in Names : Handle(cg'.vars[n]) =>
                           (scope.saved[n] = NoValue <=> cg'.vars[n].id \in scope.blocks)
                      /\ \A n \in Names \ path'.freed : Handle(GetVar(n)') => mem'[GetVar(n)'.id].live
  BY <1>2 DEF OneName
<1>4. Clean({"set", "shadowed", "copied"})
  BY <1>2, <1>3, CleanBefore
<1>5. \A m, n \in Names : Handle(cg'.vars[m]) /\ Handle(cg'.vars[n]) /\ cg'.vars[m].id = cg'.vars[n].id => m = n
  BY <1>1, <1>4 DEF OneName
<1>6. \A n \in Locals : Handle(cg'.vars[n]) => cg'.vars[n].id >= 3 /\ n \in path'.allocs
  BY <1>1, <1>4, NameFacts DEF OneName
<1>7. scope.open => \A n \in Names : Handle(cg'.vars[n]) => (scope.saved[n] = NoValue <=> cg'.vars[n].id \in scope.blocks)
  BY <1>1, <1>4 DEF OneName
<1>8. ASSUME NEW n \in Names \ path'.freed, Handle(GetVar(n)')
      PROVE  mem'[GetVar(n)'.id].live
  <2>1. n \in Names \ path.freed /\ GetVar(n)' = GetVar(n) /\ Handle(GetVar(n))
    BY <1>1, <1>8
  <2>2. mem[GetVar(n).id].live
    BY <1>4, <2>1 DEF OneName
  <2>3. GetVar(n).id \in 1 .. Len(mem)
    BY <2>1, GetVarFacts
  <2> QED
    BY <2>1, <2>2, <2>3 DEF NumberTo, SameBlocks
<1> QED
  BY <1>5, <1>6, <1>7, <1>8

(* The sizes still agree. *)
LEMMA NumberSized ==
    ASSUME Typed, Static, Sized, NEW x \in Locals, NEW v \in Val, NumberTo(x, v),
           Clean(LooseBounds)' => ~hist'.bad
    PROVE  Sized'
<1>1. /\ \A n \in Names : Handle(GetVar(n)') => n # x /\ GetVar(n)' = GetVar(n) /\ GetVar(n) = cg.vars[n]
      /\ path'.stored = path.stored
      /\ \A n \in Names : n # x => info'[n] = info[n]
  BY NumberHandles
<1>2. hist.loose \subseteq hist'.loose
  BY DEF NumberTo, Rebinds
<1>3. SUFFICES ASSUME Clean(LooseBounds)', NEW n \in Names, Handle(GetVar(n)')
               PROVE  /\ info'[n].size = GetVar(n)'.size /\ mem'[GetVar(n)'.id].size = GetVar(n)'.size
                      /\ n \in path'.stored => mem'[GetVar(n)'.id].init
  BY DEF Sized, LooseBounds
<1>4. Clean(LooseBounds)
  BY <1>2, <1>3, CleanBefore DEF LooseBounds
<1>5. n # x /\ GetVar(n)' = GetVar(n) /\ Handle(GetVar(n))
  BY <1>1, <1>3
<1>6. GetVar(n).id \in 1 .. Len(mem)
  BY <1>5, GetVarFacts
<1>7. /\ info[n].size = GetVar(n).size /\ mem[GetVar(n).id].size = GetVar(n).size
      /\ n \in path.stored => mem[GetVar(n).id].init
  BY <1>4, <1>5 DEF Sized
<1> QED
  BY <1>1, <1>5, <1>6, <1>7 DEF NumberTo, SameBlocks

(* A loan survives every assignment: a spawn handle is assigned again only *)
(* if its name is one of `reassigned`.                                     *)
LEMMA RebindsLent ==
    ASSUME Typed, Static, NEW x \in Locals, NEW v \in Val, v.kind # "none", Rebinds(x, v),
           path.allocs \subseteq path'.allocs, path'.freed \subseteq path.freed,
           NEW t, NEW b, NEW y \in Locals, NEW z \in Names, Lent(t, b, y, z),
           <<y, z>> \in borrows', ~(Handle(v) /\ v.id = b)
    PROVE  Lent(t, b, y, z)'
<1>1. /\ \A n \in Names : n # x => cg'.vars[n] = cg.vars[n]
      /\ cg'.vars[x] = cg.vars[x] \/ cg'.vars[x] = v
  BY BindFacts DEF Rebinds
<1>2. x \in Names /\ y \in Names /\ v # NoValue
  BY NameFacts
<1>3. hist'.meaning[x] = v /\ \A n \in Names : n # x => hist'.meaning[n] = hist.meaning[n]
  <2>1. hist.meaning \in [Names -> Val]
    BY DEF Typed, Hist
  <2> QED
    BY <1>2, <2>1 DEF Rebinds
<1>4. y \in path'.allocs /\ y \notin path'.freed
  BY DEF Lent
<1>5. cg'.vars[y] # NoValue /\ (scope'.open => scope'.saved[y] # NoValue)
  BY <1>1, <1>2 DEF Lent, Rebinds
<1>6. \A n \in Names : Handle(cg'.vars[n]) /\ cg'.vars[n].id = b => n = y
  BY <1>1 DEF Lent
<1>7. ASSUME z \notin reassigned
      PROVE  /\ hist'.meaning[z] # NoValue
             /\ cg'.vars[z].kind = "int" => cg'.vars[z].id = t.id
             /\ scope'.open /\ scope'.saved[z].kind = "int" => scope'.saved[z].id = t.id
  <2>1. hist.meaning[z] # NoValue
    BY <1>7 DEF Lent
  <2>2. z # x
    BY <1>7, <2>1 DEF Rebinds, Assignable
  <2> QED
    BY <1>1, <1>3, <1>7, <2>1, <2>2 DEF Lent, Rebinds
<1> QED
  BY <1>4, <1>5, <1>6, <1>7 DEF Lent, Rebinds

(* A number given to a name keeps the loans of the tasks that still run.   *)
LEMMA NumberBorrowed ==
    ASSUME Typed, Static, Borrowed, NEW x \in Locals, NEW v \in Val, NumberTo(x, v),
           tasks' \subseteq tasks, hist'.dangling => hist.dangling,
           \A t \in tasks' : \A b \in t.block, y \in Locals, z \in Names :
             Clean(LooseBorrows) /\ Lent(t, b, y, z) => <<y, z>> \in borrows'
    PROVE  Borrowed'
<1>1. hist.loose \subseteq hist'.loose /\ scope' = scope
  BY DEF NumberTo, Rebinds
<1>2. SUFFICES ASSUME Clean(LooseBorrows)'
               PROVE  /\ ~hist'.dangling
                      /\ \A t \in tasks' : t.block \cap scope.blocks = {}
                      /\ \A t \in tasks' : \A b \in t.block : b >= 3 => \E y \in Locals, z \in Names : Lent(t, b, y, z)'
  BY <1>1 DEF Borrowed, LooseBorrows
<1>3. Clean(LooseBorrows)
  BY <1>1, <1>2, CleanBefore DEF LooseBorrows
<1>4. ~hist'.dangling /\ \A t \in tasks' : t.block \cap scope.blocks = {}
  BY <1>3 DEF Borrowed
<1>5. ASSUME NEW t \in tasks', NEW b \in t.block, b >= 3
      PROVE  \E y \in Locals, z \in Names : Lent(t, b, y, z)'
  <2>1. PICK y \in Locals, z \in Names : Lent(t, b, y, z)
    BY <1>3, <1>5 DEF Borrowed
  <2>2. <<y, z>> \in borrows'
    BY <1>3, <2>1
  <2>3. /\ v.kind # "none" /\ ~Handle(v) /\ Rebinds(x, v)
        /\ path.allocs \subseteq path'.allocs /\ path'.freed \subseteq path.freed
    BY NumberHandles DEF NumberTo, IsScalar, Handle
  <2>4. Lent(t, b, y, z)'
    BY <2>1, <2>2, <2>3, RebindsLent
  <2> QED
    BY <2>4
<1> QED
  BY <1>4, <1>5

(* The types after an assignment. *)
LEMMA RebindsTyped ==
    ASSUME Typed, Static, NEW x \in Locals, NEW v \in Val, v.kind # "none", Rebinds(x, v),
           NEW i \in InfoRec, i.state # "", info' = [info EXCEPT ![x] = i],
           path' \in [freed : SUBSET Names, stored : SUBSET Names, allocs : SUBSET Names],
           scope' \in [open : BOOLEAN, saved : [Names -> Val] \cup {<<>>}, allocs : SUBSET Locals,
                       frees : SUBSET Names, blocks : SUBSET Nat],
           mem' \in Seq(BlockRec), hist' \in Hist,
           borrows' \subseteq Names \X Names, tasks' \subseteq [id : Nat, block : SUBSET Nat]
    PROVE  Typed'
<1>1. x \in Names
  BY NameFacts
<1>2. info' \in [Names -> InfoRec] /\ \A n \in Names : info'[n].state = "" => info'[n] = Undefined
  <2>1. info \in [Names -> InfoRec] /\ \A n \in Names : info[n].state = "" => info[n] = Undefined
    BY DEF Typed
  <2> QED
    BY <1>1, <2>1
<1>3. cg' \in [vars : [Names -> Val], slot : [Names -> Val]]
  BY BindFacts DEF Rebinds
<1>4. reassigned' \subseteq Locals /\ (scope'.open => scope'.saved \in [Names -> Val])
  BY DEF Rebinds, Typed
<1> QED
  BY <1>2, <1>3, <1>4 DEF Typed

(* The types after a number was given to a name. *)
LEMMA NumberTyped ==
    ASSUME Typed, Static, NEW x \in Locals, NEW v \in Val, NumberTo(x, v),
           mem' \in Seq(BlockRec), hist' \in Hist,
           borrows' \subseteq Names \X Names, tasks' \subseteq [id : Nat, block : SUBSET Nat]
    PROVE  Typed'
<1>1. PICK i \in InfoRec : i.state # "" /\ info' = [info EXCEPT ![x] = i]
  BY DEF NumberTo
<1>2. v.kind # "none" /\ Rebinds(x, v) /\ scope' = scope
  BY NumberHandles, ZenonT(60) DEF NumberTo
<1>3. path' \in [freed : SUBSET Names, stored : SUBSET Names, allocs : SUBSET Names]
  BY DEF Typed, NumberTo
<1>4. scope' \in [open : BOOLEAN, saved : [Names -> Val] \cup {<<>>}, allocs : SUBSET Locals,
                  frees : SUBSET Names, blocks : SUBSET Nat]
  BY <1>2 DEF Typed
<1> QED
  BY <1>1, <1>2, <1>3, <1>4, RebindsTyped

(* A number given to a name keeps the invariant, if the accesses of the    *)
(* statement are right and the loans hold.                                 *)
LEMMA NumberStep ==
    ASSUME IInv, NEW x \in Locals, NEW v \in Val, NumberTo(x, v),
           mem' \in Seq(BlockRec), hist' \in Hist,
           borrows' \subseteq Names \X Names, tasks' \subseteq [id : Nat, block : SUBSET Nat],
           \A t \in tasks' : t.block \subseteq 1 .. Len(mem),
           NEW read \in SUBSET Names, \A n \in read : GetVar(n) # NoValue,
           hist'.misread => hist.misread \/ Misread(read),
           Clean(LooseBounds)' => ~hist'.bad,
           Borrowed'
    PROVE  IInv'
<1>1. Typed /\ Static /\ Unshadowed /\ Latest /\ OneName /\ Sized
  BY DEF IInv
<1>2. Typed'
  BY <1>1, NumberTyped
<1>3. v.kind # "none" /\ ~Handle(v) /\ Rebinds(x, v) /\ scope' = scope /\ Len(mem') = Len(mem)
  BY <1>1, NumberHandles DEF NumberTo, IsScalar, Handle, SameBlocks
<1>4. Static'
  <2>1. mem \in Seq(BlockRec)
    BY <1>1 DEF Typed
  <2>2. Len(mem') >= Len(mem)
    BY <1>3, <2>1
  <2>3. scope'.blocks \subseteq 3 .. Len(mem') /\ (~scope.open => scope'.blocks = {})
    BY <1>1, <1>3 DEF Static
  <2>4. \A n \in Names : n # x => info'[n] = info[n]
    BY <1>1, NumberHandles
  <2>5. \A t \in tasks' : t.block \subseteq 1 .. Len(mem')
    BY <1>3
  <2> QED
    BY <1>1, <1>2, <1>3, <2>2, <2>3, <2>4, <2>5, RebindsStatic
<1>5. Unshadowed'
  BY <1>1, <1>3, RebindsUnshadowed
<1>6. Latest'
  BY <1>1, <1>3, RebindsLatest
<1>7. OneName' /\ Sized'
  BY <1>1, NumberOneName, NumberSized
<1> QED
  BY <1>2, <1>4, <1>5, <1>6, <1>7 DEF IInv

(* What an assignment adds to the history. *)
Assigned(N, x, v) == [N EXCEPT !.meaning[x] = v, !.loose = @ \cup AssignUses(x, v)]

(* It keeps the rest. *)
LEMMA AssignHist ==
    ASSUME NEW N \in Hist, NEW x \in Names, NEW v \in Val,
           NEW H, H = Assigned(N, x, v)
    PROVE  /\ H \in Hist /\ H.meaning = [N.meaning EXCEPT ![x] = v]
           /\ H.bad = N.bad /\ H.misread = N.misread /\ H.dangling = N.dangling
           /\ \A u : u \in N.loose \/ u \in AssignUses(x, v) => u \in H.loose
<1>1. AssignUses(x, v) \subseteq Loose
  BY DEF AssignUses, Uses, Loose
<1>2. PICK M : M = [N.meaning EXCEPT ![x] = v]
  OBVIOUS
<1>3. PICK L : L = N.loose \cup AssignUses(x, v)
  OBVIOUS
<1>4. M \in [Names -> Val] /\ L \subseteq Loose
  BY <1>1, <1>2, <1>3 DEF Hist
<1>5. H = [N EXCEPT !.meaning = M, !.loose = L]
  BY <1>2, <1>3 DEF Hist, Assigned
<1> QED
  BY <1>2, <1>3, <1>4, <1>5 DEF Hist

(* SPAWN, FREE and the ends of scopes may also find a block released that  *)
(* a task still has.                                                       *)
Given(N, x, v) == [N EXCEPT !.meaning[x] = v]
Dangles(N, e) == [N EXCEPT !.dangling = e]
Dangled(H, N, e) ==
    /\ H \in Hist /\ H.meaning = N.meaning
    /\ H.bad = N.bad /\ H.misread = N.misread /\ H.dangling = e /\ H.loose = N.loose

(* They keep the rest, too. *)
LEMMA GivenHist ==
    ASSUME NEW N \in Hist, NEW x \in Names, NEW v \in Val, NEW H, H = Given(N, x, v)
    PROVE  /\ H \in Hist /\ H.meaning = [N.meaning EXCEPT ![x] = v]
           /\ H.bad = N.bad /\ H.misread = N.misread /\ H.dangling = N.dangling /\ H.loose = N.loose
<1>1. PICK M : M = [N.meaning EXCEPT ![x] = v]
  OBVIOUS
<1>2. M \in [Names -> Val]
  BY <1>1 DEF Hist
<1>3. H = [N EXCEPT !.meaning = M]
  BY <1>1 DEF Hist, Given
<1> QED
  BY <1>1, <1>2, <1>3 DEF Hist

(* Likewise. *)
LEMMA DanglesHist ==
    ASSUME NEW N \in Hist, NEW e \in BOOLEAN, NEW H, H = Dangles(N, e)
    PROVE  Dangled(H, N, e)
  BY DEF Hist, Dangles, Dangled

-----------------------------------------------------------------------------
(* Accesses *)

(* An access that the analysis and the emitted check let pass is to a live *)
(* block and within its bounds.                                            *)
LEMMA AccessInBounds ==
    ASSUME Typed, Static, OneName, Sized, Clean(LooseBounds), NEW y \in Names, Handle(GetVar(y)), y \notin path.freed,
           NEW size \in Nat, NEW off \in OffsetForms, NEW o \in RunOffsets(off),
           CheckBounds(y, size, off) = {}, ~Aborts(GetVar(y), off, o, size), Unchecked(GetVar(y), off, o, size) = {}
    PROVE  Touches(GetVar(y), o, size)
<1>1. PICK h \in Val : h = GetVar(y)
  BY GetVarFacts
<1>2. h.kind = "handle" /\ h.size \in Nat
  BY <1>1, NameFacts DEF Handle
<1>3. mem[h.id].live
  <2>1. Clean({"set", "shadowed", "copied"})
    BY DEF Clean, LooseBounds
  <2> QED
    BY <1>1, <2>1 DEF OneName
<1>4. mem[h.id].size = h.size /\ info[y].size = h.size
  BY <1>1 DEF Sized
<1>5. o + size <= h.size
  <2>1. CASE off[1] = "var"
    <3>1. o \in 0 .. WordSize - 1 /\ WordSize \in Nat
      BY <2>1, NameFacts DEF RunOffsets
    <3>2. o + size < WordSize /\ h.size > 0
      <4>1. ~(o + size >= WordSize) /\ ~(IsDynamic(off) /\ h.size = 0)
        BY <1>1 DEF Unchecked, Uses
      <4> QED
        BY <1>2, <2>1, <3>1, <4>1 DEF IsDynamic
    <3>3. ~((o + size) % WordSize > h.size)
      BY <1>1, <1>2, <2>1, <3>2 DEF Aborts, IsDynamic, EmitBoundsCheck
    <3>4. (o + size) % WordSize = o + size
      BY <3>1, <3>2
    <3> QED
      BY <1>2, <3>1, <3>3, <3>4
  <2>2. CASE off[1] # "var"
    <3>1. o = ConstantOffset(off) /\ o \in Nat
      BY <2>2 DEF RunOffsets, ConstantOffset, OffsetForms
    <3>2. ~(info[y].size # Unknown /\ ConstantOffset(off) + size > info[y].size)
      BY <2>2 DEF CheckBounds, Error, Constant
    <3> QED
      BY <1>2, <1>4, <3>1, <3>2 DEF Unknown
  <2> QED
    BY <2>1, <2>2
<1> QED
  BY <1>1, <1>2, <1>3, <1>4, <1>5 DEF Touches

-----------------------------------------------------------------------------
(* Statements *)

(* A statement that is rejected, cannot be compiled or aborts changes      *)
(* nothing else.                                                           *)
LEMMA QuietStep ==
    ASSUME IInv, UNCHANGED <<info, path, borrows, scope, reassigned, cg, mem, tasks, hist>>
    PROVE  IInv'
<1>1. Typed' /\ Static'
  BY DEF IInv, Typed, Static
<1>2. Unshadowed' /\ Latest'
  BY DEF IInv, Unshadowed, Latest, Clean, GetVar
<1>3. OneName' /\ Sized'
  BY DEF IInv, OneName, Sized, Clean, GetVar
<1>4. Borrowed'
  <2>1. \A t, b, y, x : Lent(t, b, y, x)' <=> Lent(t, b, y, x)
    BY DEF Lent
  <2>2. Clean(LooseBorrows)' <=> Clean(LooseBorrows)
    BY DEF Clean, LooseBorrows
  <2> QED
    BY <2>1, <2>2 DEF IInv, Borrowed
<1> QED
  BY <1>1, <1>2, <1>3, <1>4 DEF IInv

(* An assignment of a number, other than by SPAWN and WAIT. *)
LEMMA AssignNumber ==
    ASSUME IInv, NEW x \in Locals, NEW v \in Val, IsScalar(v), NEW i \in InfoRec, i.state # "", Assignable(x),
           NEW N \in Hist, Assign(x, i, v, {}, N), borrows' = borrows, mem' \in Seq(BlockRec), SameBlocks,
           NEW read \in SUBSET Names, \A n \in read : GetVar(n) # NoValue,
           N.meaning = hist.meaning, N.misread => hist.misread \/ Misread(read),
           N.bad => hist.bad \/ N.loose \cap LooseBounds # {},
           N.dangling = hist.dangling, \A u : u \in hist.loose => u \in N.loose
    PROVE  IInv'
<1>1. Typed /\ Static /\ Borrowed /\ x \in Names
  BY NameFacts DEF IInv
<1>2. /\ hist' \in Hist /\ hist'.meaning = [hist.meaning EXCEPT ![x] = v]
      /\ hist'.bad = N.bad /\ hist'.misread = N.misread /\ hist'.dangling = hist.dangling
      /\ \A u : u \in N.loose \/ u \in AssignUses(x, v) => u \in hist'.loose
  <2>1. PICK H : H = hist'
    OBVIOUS
  <2>2. H = Assigned(N, x, v)
    BY <2>1 DEF Assign, Assigned
  <2>3. /\ H \in Hist /\ H.meaning = [N.meaning EXCEPT ![x] = v]
        /\ H.bad = N.bad /\ H.misread = N.misread /\ H.dangling = N.dangling
        /\ \A u : u \in N.loose \/ u \in AssignUses(x, v) => u \in H.loose
    BY ONLY <1>1, <2>2, N \in Hist, v \in Val, AssignHist
  <2> QED
    BY <2>1, <2>3
<1>3. hist.loose \subseteq hist'.loose
  BY <1>2
<1>4. Clean(LooseBounds)' => ~hist'.bad
  <2>1. SUFFICES ASSUME Clean(LooseBounds)'
                 PROVE  ~hist'.bad
    OBVIOUS
  <2>2. Clean(LooseBounds)
    BY <1>3, <2>1, CleanBefore DEF LooseBounds
  <2>3. ~hist.bad
    BY <2>2 DEF IInv, Sized
  <2>4. N.loose \cap LooseBounds = {}
    BY <1>2, <2>1 DEF Clean, LooseBounds
  <2> QED
    BY <1>2, <2>3, <2>4
<1>5. NumberTo(x, v)
  BY <1>2 DEF NumberTo, Rebinds, Assign
<1>6. tasks' = tasks
  BY DEF Assign
<1>7. Borrowed'
  <2>1. \A t \in tasks' : \A b \in t.block, y \in Locals, z \in Names :
          Clean(LooseBorrows) /\ Lent(t, b, y, z) => <<y, z>> \in borrows'
    BY DEF Lent
  <2> QED
    BY <1>1, <1>2, <1>5, <1>6, <2>1, NumberBorrowed
<1>8. borrows' \subseteq Names \X Names /\ tasks' \subseteq [id : Nat, block : SUBSET Nat]
  BY <1>1, <1>6 DEF Typed
<1>9. \A t \in tasks' : t.block \subseteq 1 .. Len(mem)
  BY <1>1, <1>6 DEF Static
<1> QED
  BY <1>2, <1>4, <1>5, <1>7, <1>8, <1>9, NumberStep

(* What the analysis notes of a number. *)
LEMMA InfoFacts ==
    /\ Number("Int") \in InfoRec /\ Number("Int").state # ""
    /\ \A y : Infer(<<"load", y>>) \in InfoRec /\ Infer(<<"load", y>>).state # ""
    /\ Info("Int", "Computed", Unknown, "Owned", FALSE) \in InfoRec
    /\ Info("Int", "Computed", Unknown, "Owned", FALSE).state # ""
<1>1. \A y : Infer(<<"load", y>>) = Info("Int", "LoadResult", Unknown, "NotAHandle", FALSE)
  BY DEF Infer
<1>2. Unknown \in Int
  BY DEF Unknown
<1>3. Number("Int") \in InfoRec /\ Number("Int").state # ""
  BY <1>2 DEF Number, Info, InfoRec
<1>4. \A y : Infer(<<"load", y>>) \in InfoRec /\ Infer(<<"load", y>>).state # ""
  <2>1. PICK i : i = Info("Int", "LoadResult", Unknown, "NotAHandle", FALSE)
    OBVIOUS
  <2>2. i \in InfoRec /\ i.state # ""
    BY <1>2, <2>1 DEF Info, InfoRec
  <2> QED
    BY <1>1, <2>1, <2>2
<1>5. /\ Info("Int", "Computed", Unknown, "Owned", FALSE) \in InfoRec
      /\ Info("Int", "Computed", Unknown, "Owned", FALSE).state # ""
  BY <1>2 DEF Info, InfoRec
<1> QED
  BY <1>3, <1>4, <1>5

(* Memory as it was. *)
LEMMA SameMem ==
    ASSUME Typed, mem' = mem
    PROVE  mem' \in Seq(BlockRec) /\ SameBlocks
  BY DEF Typed, SameBlocks

(* x = IADD y 1 8. *)
LEMMA ArithStep ==
    ASSUME IInv, NEW s \in Statements, ReadArith(s)
    PROVE  IInv'
<1>1. CASE Reject \/ Failed
  BY <1>1, QuietStep DEF Reject, Failed
<1>2. CASE ~(Reject \/ Failed)
  <2>1. /\ Assignable(s.x) /\ GetVar(s.y).kind = "int" /\ s.op = "arith"
        /\ Assign(s.x, Number("Int"), Word, {}, Note({s.y}, FALSE, {})) /\ borrows' = borrows /\ mem' = mem
    BY <1>2 DEF ReadArith
  <2>2. Typed
    BY DEF IInv
  <2>3. PICK x \in Locals, y \in Names : x = s.x /\ y = s.y
    BY <2>1, NameFacts DEF IsStatement
  <2>4. PICK v \in Val : v = Word /\ IsScalar(v)
    BY <2>2, ValueFacts DEF IsScalar
  <2>5. PICK i \in InfoRec : i = Number("Int") /\ i.state # ""
    BY InfoFacts
  <2>6. PICK read \in SUBSET Names : read = {y} /\ \A n \in read : GetVar(n) # NoValue
    <3>1. {y} \in SUBSET Names /\ \A n \in {y} : GetVar(n) # NoValue
      BY <2>1, <2>3, NameFacts
    <3> QED
      BY <3>1
  <2>7. PICK N : N = Note(read, FALSE, {})
    OBVIOUS
  <2>8. /\ N \in Hist /\ N.meaning = hist.meaning /\ (N.bad => hist.bad) /\ N.dangling = hist.dangling
        /\ (N.misread => hist.misread \/ Misread(read)) /\ \A u : u \in hist.loose => u \in N.loose
    <3>1. Noted(N, read, FALSE, {})
      BY <2>2, <2>7, NoteFacts, Zenon
    <3> QED
      BY ONLY <3>1, Zenon DEF Noted
  <2>9. Assign(x, i, v, {}, N)
    BY <2>1, <2>3, <2>4, <2>5, <2>6, <2>7, Zenon
  <2>10. mem' \in Seq(BlockRec) /\ SameBlocks
    BY <2>1, <2>2, SameMem
  <2> QED
    BY <2>1, <2>3, <2>4, <2>5, <2>6, <2>8, <2>9, <2>10, AssignNumber
<1> QED
  BY <1>1, <1>2

(* A second name for a block, which is noted. *)
LEMMA CopyStep ==
    ASSUME IInv, NEW x \in Locals, NEW v \in Val, Handle(v), v.id \in 1 .. Len(mem),
           NEW i \in InfoRec, i.state # "", Assignable(x),
           NEW N \in Hist, Assign(x, i, v, {}, N), borrows' = borrows, mem' = mem,
           NEW read \in SUBSET Names, \A n \in read : GetVar(n) # NoValue,
           N.meaning = hist.meaning, N.misread => hist.misread \/ Misread(read),
           \A u : u \in hist.loose => u \in N.loose, "copied" \in N.loose
    PROVE  IInv'
<1>1. Typed /\ Static /\ Unshadowed /\ Latest /\ x \in Names /\ v.kind # "none"
  BY NameFacts DEF IInv, Handle
<1>2. /\ hist' \in Hist /\ hist'.meaning = [hist.meaning EXCEPT ![x] = v]
      /\ hist'.misread = N.misread
      /\ \A u : u \in N.loose \/ u \in AssignUses(x, v) => u \in hist'.loose
  <2>1. PICK H : H = hist'
    OBVIOUS
  <2>2. H = Assigned(N, x, v)
    BY <2>1 DEF Assign, Assigned
  <2>3. /\ H \in Hist /\ H.meaning = [N.meaning EXCEPT ![x] = v]
        /\ H.bad = N.bad /\ H.misread = N.misread /\ H.dangling = N.dangling
        /\ \A u : u \in N.loose \/ u \in AssignUses(x, v) => u \in H.loose
    BY ONLY <1>1, <2>2, N \in Hist, v \in Val, AssignHist
  <2> QED
    BY <2>1, <2>3
<1>3. Rebinds(x, v) /\ scope' = scope /\ tasks' = tasks
  BY <1>2 DEF Rebinds, Assign
<1>4. Typed'
  <2>1. info' = [info EXCEPT ![x] = i]
    BY DEF Assign
  <2>2. path' \in [freed : SUBSET Names, stored : SUBSET Names, allocs : SUBSET Names]
    BY <1>1 DEF Typed, Assign
  <2>3. scope' \in [open : BOOLEAN, saved : [Names -> Val] \cup {<<>>}, allocs : SUBSET Locals,
                    frees : SUBSET Names, blocks : SUBSET Nat]
    BY <1>1, <1>3 DEF Typed
  <2>4. mem' \in Seq(BlockRec) /\ borrows' \subseteq Names \X Names /\ tasks' \subseteq [id : Nat, block : SUBSET Nat]
    BY <1>1, <1>3 DEF Typed
  <2> QED
    BY <1>1, <1>2, <1>3, <2>1, <2>2, <2>3, <2>4, RebindsTyped
<1>5. Static'
  <2>1. mem \in Seq(BlockRec)
    BY <1>1 DEF Typed
  <2>2. Len(mem') >= Len(mem) /\ v.id \in 1 .. Len(mem')
    <3>1. PICK k \in Nat : k = Len(mem)
      BY ONLY <2>1
    <3>2. Len(mem') = Len(mem)
      BY ONLY mem' = mem
    <3>3. v.id \in 1 .. Len(mem')
      BY ONLY <3>2, v.id \in 1 .. Len(mem)
    <3> QED
      BY ONLY <3>1, <3>2, <3>3
  <2>3. scope'.blocks \subseteq 3 .. Len(mem') /\ (~scope.open => scope'.blocks = {})
    BY <1>1, <1>3 DEF Static
  <2>4. \A n \in Names : n # x => info'[n] = info[n]
    BY <1>1 DEF Assign, Typed
  <2>5. \A t \in tasks' : t.block \subseteq 1 .. Len(mem')
    BY <1>1, <1>3 DEF Static
  <2> QED
    BY <1>1, <1>3, <1>4, <2>2, <2>3, <2>4, <2>5, RebindsStatic
<1>6. Unshadowed'
  BY <1>1, <1>3, RebindsUnshadowed
<1>7. Latest'
  BY <1>1, <1>2, <1>3, RebindsLatest
<1>8. OneName' /\ Sized' /\ Borrowed'
  <2>1. "copied" \in hist'.loose
    BY <1>2
  <2> QED
    BY <2>1 DEF OneName, Sized, Borrowed, Clean, LooseBounds, LooseBorrows
<1> QED
  BY <1>4, <1>5, <1>6, <1>7, <1>8 DEF IInv

(* x = e. *)
LEMMA AssignStep ==
    ASSUME IInv, NEW s \in Statements, ReadAssign(s)
    PROVE  IInv'
<1>1. CASE Reject \/ Failed
  BY <1>1, QuietStep DEF Reject, Failed
<1>2. CASE ~(Reject \/ Failed)
  <2>1. PICK L : L = Uses("copied", Compiled(s.e).kind = "handle") \cup Uses("float", Compiled(s.e).kind = "float")
    OBVIOUS
  <2>2. /\ s.op = "assign" /\ Assignable(s.x) /\ ExprErrors(s.e) = {} /\ Compiles(s.e)
        /\ Assign(s.x, Infer(s.e), Compiled(s.e), {}, Note(ReadNames(s.e), FALSE, L)) /\ borrows' = borrows /\ mem' = mem
    BY <1>2, <2>1 DEF ReadAssign
  <2>3. Typed /\ Static
    BY DEF IInv
  <2>4. PICK x \in Locals, e \in Operands \cup ({"load"} \X Names) : x = s.x /\ e = s.e
    BY <2>2, NameFacts DEF IsStatement
  <2>5. PICK v \in Val : v = Compiled(e) /\ v.kind # "none" /\ (Handle(v) => v.id \in 1 .. Len(mem))
    BY <2>2, <2>3, <2>4, CompiledFacts
  <2>6. PICK i \in InfoRec : i = Infer(e) /\ i.state # ""
    BY <2>2, <2>3, <2>4, CompiledFacts
  <2>7. PICK read \in SUBSET Names : read = ReadNames(e) /\ \A n \in read : GetVar(n) # NoValue
    BY <2>2, <2>3, <2>4, CompiledFacts
  <2>8. L \in SUBSET Loose
    BY <2>1 DEF Uses, Loose
  <2>9. PICK N : N = Note(read, FALSE, L)
    OBVIOUS
  <2>10. /\ N \in Hist /\ N.meaning = hist.meaning /\ (N.bad => hist.bad) /\ N.dangling = hist.dangling
         /\ (N.misread => hist.misread \/ Misread(read)) /\ \A u : u \in hist.loose \/ u \in L => u \in N.loose
    <3>1. Noted(N, read, FALSE, L)
      BY <2>3, <2>8, <2>9, NoteFacts, Zenon
    <3> QED
      BY ONLY <3>1, Zenon DEF Noted
  <2>11. Assign(x, i, v, {}, N)
    BY <2>2, <2>4, <2>5, <2>6, <2>7, <2>9, Zenon
  <2>12. CASE Handle(v)
    <3>1. "copied" \in N.loose
      BY <2>1, <2>4, <2>5, <2>10, <2>12 DEF Uses, Handle
    <3> QED
      BY <2>2, <2>4, <2>5, <2>6, <2>7, <2>10, <2>11, <2>12, <3>1, CopyStep
  <2>13. CASE ~Handle(v)
    <3>1. IsScalar(v)
      BY <2>5, <2>13, NameFacts DEF IsScalar, Handle
    <3>2. mem' \in Seq(BlockRec) /\ SameBlocks
      BY <2>2, <2>3, SameMem
    <3> QED
      BY <2>2, <2>4, <2>6, <2>7, <2>10, <2>11, <3>1, <3>2, AssignNumber
  <2> QED
    BY <2>12, <2>13
<1> QED
  BY <1>1, <1>2

(* x = LOAD y size off. *)
LEMMA LoadStep ==
    ASSUME IInv, NEW s \in Statements, ReadLoad(s)
    PROVE  IInv'
<1>1. CASE Reject \/ Failed \/ Abort
  BY <1>1, QuietStep DEF Reject, Failed, Abort
<1>2. CASE ~(Reject \/ Failed \/ Abort)
  <2>1. Typed /\ Static /\ OneName /\ Sized
    BY DEF IInv
  <2>2. s.op = "load" /\ Assignable(s.x)
    BY DEF ReadLoad
  <2>3. PICK x \in Locals, y \in Names, size \in Nat, off \in OffsetForms :
          x = s.x /\ y = s.y /\ size = s.size /\ off = s.off
    BY <2>2, NameFacts DEF IsStatement
  <2>4. PICK h \in Val : h = GetVar(y)
    BY <2>1, GetVarFacts
  <2>5. PICK v \in Val : v = Loaded(h, size) /\ IsScalar(v)
    BY <2>1, ValueFacts
  <2>6. /\ LoadErrors(y, size, off) \cup ScanLoad(y) = {} /\ Accessible(h) /\ OffsetCompiles(off)
        /\ \E o \in RunOffsets(off) :
             /\ ~Aborts(h, off, o, size)
             /\ Assign(x, Infer(<<"load", y>>), v, {},
                       Note({y} \cup ReadNames(off), ~Reads(h, o, LoadWidth(h, size)),
                            Uses("number", h.kind = "int") \cup Uses("float", v.kind = "float")
                              \cup Unchecked(h, off, o, size)))
             /\ borrows' = borrows /\ mem' = mem
    BY <1>2, <2>3, <2>4, <2>5 DEF ReadLoad
  <2>7. PICK o \in RunOffsets(off) :
          /\ ~Aborts(h, off, o, size)
          /\ Assign(x, Infer(<<"load", y>>), v, {},
                    Note({y} \cup ReadNames(off), ~Reads(h, o, LoadWidth(h, size)),
                         Uses("number", h.kind = "int") \cup Uses("float", v.kind = "float")
                           \cup Unchecked(h, off, o, size)))
          /\ borrows' = borrows /\ mem' = mem
    BY <2>6
  <2>8. PICK i \in InfoRec : i = Infer(<<"load", y>>) /\ i.state # ""
    BY InfoFacts
  <2>9. PICK read \in SUBSET Names : read = {y} \cup ReadNames(off) /\ \A n \in read : GetVar(n) # NoValue
    <3>1. ReadNames(off) \subseteq Names /\ \A n \in ReadNames(off) : GetVar(n).kind = "int"
      BY <2>6 DEF ReadNames, OffsetForms, OffsetCompiles
    <3>2. {y} \cup ReadNames(off) \in SUBSET Names /\ \A n \in {y} \cup ReadNames(off) : GetVar(n) # NoValue
      BY <2>4, <2>6, <3>1, NameFacts DEF Accessible
    <3> QED
      BY <3>2
  <2>10. PICK bad \in BOOLEAN : bad = (~Reads(h, o, LoadWidth(h, size)))
    BY Zenon
  <2>11. PICK L \in SUBSET Loose : L = Uses("number", h.kind = "int") \cup Uses("float", v.kind = "float")
                                        \cup Unchecked(h, off, o, size)
    BY DEF Uses, Unchecked, Loose
  <2>12. PICK N : N = Note(read, bad, L)
    OBVIOUS
  <2>13. /\ N \in Hist /\ N.meaning = hist.meaning /\ (N.bad => hist.bad \/ bad) /\ N.dangling = hist.dangling
         /\ (N.misread => hist.misread \/ Misread(read)) /\ \A u : u \in hist.loose \/ u \in L => u \in N.loose
    <3>1. Noted(N, read, bad, L)
      BY <2>1, <2>12, NoteFacts, Zenon
    <3> QED
      BY ONLY <3>1, Zenon DEF Noted
  <2>14. Assign(x, i, v, {}, N)
    BY <2>7, <2>8, <2>9, <2>10, <2>11, <2>12, Zenon
  <2>15. N.bad => hist.bad \/ N.loose \cap LooseBounds # {}
    <3>1. SUFFICES ASSUME N.loose \cap LooseBounds = {}
                   PROVE  Reads(h, o, LoadWidth(h, size))
      BY <2>10, <2>13
    <3>2. Clean(LooseBounds)
      BY <2>13, <3>1 DEF Clean
    <3>3. L \cap LooseBounds = {}
      BY <2>13, <3>1
    <3>4. h.kind # "int" /\ v.kind # "float" /\ Unchecked(h, off, o, size) = {}
      BY <2>11, <3>3 DEF Uses, Unchecked, LooseBounds
    <3>5. Handle(h)
      BY <2>6, <3>4 DEF Accessible, Handle
    <3>6. LoadWidth(h, size) = size
      <4>1. h.typ # "Float"
        BY <2>5, <3>4, <3>5 DEF Loaded, Float, Value, Handle
      <4> QED
        BY <4>1 DEF LoadWidth
    <3>7. y \notin path.freed /\ y \in path.stored /\ CheckBounds(y, size, off) = {}
      BY <2>6 DEF LoadErrors, ScanLoad, ScanVar, Error
    <3>8. Touches(h, o, size)
      BY <2>1, <2>4, <2>7, <3>2, <3>4, <3>5, <3>7, AccessInBounds
    <3>9. mem[h.id].init
      BY <2>1, <2>4, <3>2, <3>5, <3>7 DEF Sized
    <3> QED
      BY <3>6, <3>8, <3>9 DEF Reads
  <2>16. mem' \in Seq(BlockRec) /\ SameBlocks
    BY <2>1, <2>7, SameMem
  <2> QED
    BY <2>2, <2>3, <2>5, <2>7, <2>8, <2>9, <2>13, <2>14, <2>15, <2>16, AssignNumber, ZenonT(60)
<1> QED
  BY <1>1, <1>2

(* x = ATOMIC_LOAD y size, ATOMIC_STORE y 1 size, ATOMIC_ADD y 1 size. *)
LEMMA AtomicStep ==
    ASSUME IInv, NEW s \in Statements, ReadAtomic(s)
    PROVE  IInv'
<1>1. CASE Reject \/ Failed
  BY <1>1, QuietStep DEF Reject, Failed
<1>2. CASE ~(Reject \/ Failed)
  <2>1. Typed /\ Static
    BY DEF IInv
  <2>2. s.op = "atomic" /\ Assignable(s.x)
    BY DEF ReadAtomic
  <2>3. PICK x \in Locals, y \in Names, size \in Nat : x = s.x /\ y = s.y /\ size = s.size
    BY <2>2, NameFacts DEF IsStatement
  <2>4. PICK h \in Val : h = GetVar(y) /\ (Handle(h) => h.id \in 1 .. Len(mem))
    BY <2>1, GetVarFacts
  <2>5. PICK v \in Val : v = (IF s.kind = "load" THEN Loaded(h, size) ELSE Word) /\ IsScalar(v)
    <3>1. Word \in Val /\ IsScalar(Word) /\ Loaded(h, size) \in Val /\ IsScalar(Loaded(h, size))
      BY <2>1, ValueFacts DEF IsScalar
    <3> QED
      BY <3>1
  <2>6. PICK width :
          width = CASE s.kind = "load" -> LoadWidth(h, size) [] s.kind = "store" -> size [] s.kind = "add" -> 8
    OBVIOUS
  <2>7. PICK i \in InfoRec :
          i = (IF s.kind = "load" THEN Infer(<<"load", y>>) ELSE Number("Int")) /\ i.state # ""
    BY InfoFacts
  <2>8. /\ h.kind = "handle"
        /\ Assign(x, i, v, {}, Note({y}, ~Touches(h, 0, width), {"atomic"}))
        /\ mem' = (IF s.kind = "load" THEN mem ELSE Written(h)) /\ borrows' = borrows
    BY <1>2, <2>3, <2>4, <2>5, <2>6, <2>7 DEF ReadAtomic
  <2>9. PICK read \in SUBSET Names : read = {y} /\ \A n \in read : GetVar(n) # NoValue
    <3>1. {y} \in SUBSET Names /\ \A n \in {y} : GetVar(n) # NoValue
      BY <2>4, <2>8, NameFacts
    <3> QED
      BY <3>1
  <2>10. PICK bad \in BOOLEAN : bad = (~Touches(h, 0, width))
    BY Zenon
  <2>11. PICK L \in SUBSET Loose : L = {"atomic"}
    BY DEF Loose
  <2>12. PICK N : N = Note(read, bad, L)
    OBVIOUS
  <2>13. /\ N \in Hist /\ N.meaning = hist.meaning /\ N.dangling = hist.dangling
         /\ (N.misread => hist.misread \/ Misread(read)) /\ \A u : u \in hist.loose \/ u \in L => u \in N.loose
    <3>1. Noted(N, read, bad, L)
      BY <2>1, <2>12, NoteFacts, Zenon
    <3> QED
      BY ONLY <3>1, Zenon DEF Noted
  <2>14. Assign(x, i, v, {}, N)
    BY <2>8, <2>9, <2>10, <2>11, <2>12, Zenon
  <2>15. N.bad => hist.bad \/ N.loose \cap LooseBounds # {}
    <3>1. "atomic" \in N.loose \cap LooseBounds
      BY <2>11, <2>13 DEF LooseBounds
    <3> QED
      BY <3>1
  <2>16. mem' \in Seq(BlockRec) /\ SameBlocks
    <3>1. CASE s.kind = "load"
      BY <2>1, <2>8, <3>1, SameMem
    <3>2. CASE s.kind # "load"
      BY <2>1, <2>4, <2>8, <3>2, WrittenFacts DEF SameBlocks
    <3> QED
      BY <3>1, <3>2
  <2> QED
    BY <2>2, <2>3, <2>5, <2>7, <2>8, <2>9, <2>13, <2>14, <2>15, <2>16, AssignNumber, ZenonT(60)
<1> QED
  BY <1>1, <1>2

(* x = WAIT y: the borrow ends with the task, for the handle of a SPAWN is *)
(* still the one it returned if it can be waited for.                      *)
LEMMA WaitStep ==
    ASSUME IInv, NEW s \in Statements, ReadWait(s)
    PROVE  IInv'
<1>1. CASE Reject \/ Failed
  BY <1>1, QuietStep DEF Reject, Failed
<1>2. CASE ~(Reject \/ Failed)
  <2>1. Typed /\ Static /\ Borrowed /\ Unshadowed
    BY DEF IInv
  <2>2. s.op = "wait" /\ Assignable(s.x)
    BY DEF ReadWait
  <2>3. PICK x \in Locals, y \in Names : x = s.x /\ y = s.y /\ x \in Names
    BY <2>2, NameFacts DEF IsStatement
  <2>4. PICK v \in Val : v = Word /\ IsScalar(v)
    BY <2>1, ValueFacts DEF IsScalar
  <2>5. PICK i \in InfoRec : i = Number("Int") /\ i.state # ""
    BY InfoFacts
  <2>6. PICK L \in SUBSET Loose : L = AssignUses(x, v)
    BY DEF AssignUses, Uses, Loose
  <2>7. /\ cg.vars[y].kind = "int"
        /\ info' = [info EXCEPT ![x] = i] /\ path' = [path EXCEPT !.freed = @ \ {x}]
        /\ borrows' = {b \in borrows : b[2] # y} /\ cg' = Bind(x, v) /\ tasks' = tasks \ Finished(cg.vars[y])
        /\ scope' = scope /\ reassigned' = reassigned /\ mem' = mem
    BY <1>2, <2>3, <2>4, <2>5 DEF ReadWait
  <2>8. PICK read \in SUBSET Names : read = {y} /\ \A n \in read : GetVar(n) # NoValue
    <3>1. GetVar(y) # NoValue
      BY <2>1, <2>3, <2>7, NameFacts, GetVarFacts DEF IsScalar
    <3>2. {y} \in SUBSET Names /\ \A n \in {y} : GetVar(n) # NoValue
      BY <3>1
    <3> QED
      BY <3>2
  <2>9. PICK N : N = Note(read, FALSE, L)
    OBVIOUS
  <2>10. /\ N \in Hist /\ N.meaning = hist.meaning /\ (N.bad => hist.bad) /\ N.dangling = hist.dangling
         /\ (N.misread => hist.misread \/ Misread(read)) /\ \A u : u \in hist.loose \/ u \in L => u \in N.loose
    <3>1. Noted(N, read, FALSE, L)
      BY <2>1, <2>9, NoteFacts, Zenon
    <3> QED
      BY ONLY <3>1, Zenon DEF Noted
  <2>11. PICK H : H = hist'
    OBVIOUS
  <2>12. H = Given(N, x, v)
    BY <1>2, <2>3, <2>4, <2>6, <2>8, <2>9, <2>11 DEF ReadWait, Given
  <2>13. /\ H \in Hist /\ H.meaning = [N.meaning EXCEPT ![x] = v]
         /\ H.bad = N.bad /\ H.misread = N.misread /\ H.dangling = N.dangling /\ H.loose = N.loose
    BY ONLY <2>3, <2>10, <2>12, x \in Names, v \in Val, GivenHist
  <2>14. /\ hist' \in Hist /\ hist'.meaning = [hist.meaning EXCEPT ![x] = v]
         /\ (hist'.bad => hist.bad) /\ (hist'.misread => hist.misread \/ Misread(read))
         /\ hist'.dangling = hist.dangling /\ hist.loose \cup AssignUses(x, v) \subseteq hist'.loose
    BY <2>6, <2>10, <2>11, <2>13
  <2>15. mem' \in Seq(BlockRec) /\ SameBlocks
    BY <2>1, <2>7, SameMem
  <2>16. NumberTo(x, v)
    BY <2>2, <2>3, <2>4, <2>5, <2>7, <2>14, <2>15 DEF NumberTo, Rebinds
  <2>17. Borrowed'
    <3>1. ASSUME NEW t \in tasks', NEW b \in t.block, NEW n \in Locals, NEW z \in Names,
                 Clean(LooseBorrows), Lent(t, b, n, z)
          PROVE  <<n, z>> \in borrows'
      <4>1. <<n, z>> \in borrows
        BY <3>1 DEF Lent
      <4>2. z # y
        <5>1. SUFFICES ASSUME z = y
                       PROVE  FALSE
          OBVIOUS
        <5>2. Clean({"set", "shadowed"})
          BY <3>1 DEF Clean, LooseBorrows
        <5>3. z \notin reassigned
          BY <2>1, <2>7, <5>1, <5>2 DEF Unshadowed
        <5>4. cg.vars[y].id = t.id
          BY <2>7, <3>1, <5>1, <5>3 DEF Lent
        <5> QED
          BY <2>7, <5>4 DEF Finished
      <4> QED
        BY <2>7, <4>1, <4>2
    <3>2. tasks' \subseteq tasks /\ (hist'.dangling => hist.dangling)
      BY <2>7, <2>14
    <3>3. \A t \in tasks' : \A b \in t.block, n \in Locals, z \in Names :
            Clean(LooseBorrows) /\ Lent(t, b, n, z) => <<n, z>> \in borrows'
      BY <3>1
    <3> QED
      BY <2>1, <2>16, <3>2, <3>3, NumberBorrowed
  <2>18. borrows' \subseteq Names \X Names /\ tasks' \subseteq [id : Nat, block : SUBSET Nat]
    BY <2>1, <2>7 DEF Typed
  <2>19. \A t \in tasks' : t.block \subseteq 1 .. Len(mem)
    BY <2>1, <2>7 DEF Static
  <2>20. Clean(LooseBounds)' => ~hist'.bad
    <3>1. Clean(LooseBounds)' => Clean(LooseBounds)
      BY <2>14, CleanBefore DEF LooseBounds
    <3> QED
      BY <2>14, <3>1 DEF IInv, Sized
  <2> QED
    BY <2>8, <2>14, <2>15, <2>16, <2>17, <2>18, <2>19, <2>20, NumberStep
<1> QED
  BY <1>1, <1>2

(* x = SPAWN p y: what y denotes is lent to the task until WAIT x. *)
LEMMA SpawnStep ==
    ASSUME IInv, NEW s \in Statements, ReadSpawn(s)
    PROVE  IInv'
<1>1. CASE Reject \/ Failed
  BY <1>1, QuietStep DEF Reject, Failed
<1>2. CASE ~(Reject \/ Failed)
  <2>1. Typed /\ Static /\ Borrowed /\ Unshadowed /\ OneName
    BY DEF IInv
  <2>2. s.op = "spawn" /\ Assignable(s.x)
    BY DEF ReadSpawn
  <2>3. PICK x \in Locals, y \in Names : x = s.x /\ y = s.y /\ x \in Names
    BY <2>2, NameFacts DEF IsStatement
  <2>4. PICK v \in Val : v = Word /\ IsScalar(v) /\ v.id = Here /\ Here \in Nat
    BY <2>1, ValueFacts DEF IsScalar
  <2>5. PICK i \in InfoRec : i = Info("Int", "Computed", Unknown, "Owned", FALSE) /\ i.state # ""
    BY InfoFacts
  <2>6. PICK arg \in Val : /\ arg = GetVar(y)
                           /\ Handle(arg) => cg.vars[y] = arg /\ arg.id \in 1 .. Len(mem)
    BY <2>1, GetVarFacts
  <2>7. PICK block \in SUBSET Nat : block = IF arg.kind = "handle" THEN {arg.id} ELSE {}
    BY NameFacts
  <2>8. PICK L \in SUBSET Loose : L = Uses("scoped", block \cap scope.blocks # {}) \cup Uses("unscanned", y \in path.freed)
                                       \cup Uses("number", arg.kind = "int") \cup AssignUses(x, v)
    BY DEF AssignUses, Uses, Loose
  <2>9. /\ arg # NoValue
        /\ info' = [info EXCEPT ![x] = i] /\ path' = [path EXCEPT !.freed = @ \ {x}]
        /\ borrows' = borrows \cup {<<y, x>>} /\ cg' = Bind(x, v)
        /\ tasks' = tasks \cup {[id |-> Here, block |-> block]}
        /\ scope' = scope /\ reassigned' = reassigned /\ mem' = mem
    BY <1>2, <2>3, <2>4, <2>5, <2>6, <2>7 DEF ReadSpawn, AddSpawnBorrow
  <2>10. PICK read \in SUBSET Names : read = {y} /\ \A n \in read : GetVar(n) # NoValue
    <3>1. {y} \in SUBSET Names /\ \A n \in {y} : GetVar(n) # NoValue
      BY <2>6, <2>9
    <3> QED
      BY <3>1
  <2>11. PICK N : N = Note(read, FALSE, L)
    OBVIOUS
  <2>12. /\ N \in Hist /\ N.meaning = hist.meaning /\ (N.bad => hist.bad) /\ N.dangling = hist.dangling
         /\ (N.misread => hist.misread \/ Misread(read)) /\ \A u : u \in hist.loose \/ u \in L => u \in N.loose
    <3>1. Noted(N, read, FALSE, L)
      BY <2>1, <2>11, NoteFacts, Zenon
    <3> QED
      BY ONLY <3>1, Zenon DEF Noted
  <2>13. PICK G : G = Given(N, x, v)
    OBVIOUS
  <2>14. /\ G \in Hist /\ G.meaning = [N.meaning EXCEPT ![x] = v]
         /\ G.bad = N.bad /\ G.misread = N.misread /\ G.dangling = N.dangling /\ G.loose = N.loose
    BY ONLY <2>3, <2>12, <2>13, x \in Names, v \in Val, GivenHist
  <2>15. PICK e \in BOOLEAN : e = (G.dangling \/ \E b \in block : ~mem[b].live)
    BY Zenon
  <2>16. PICK H : H = hist'
    OBVIOUS
  <2>17. H = Dangles(G, e)
    <3>1. hist' = [Note({y}, FALSE, L) EXCEPT !.meaning[x] = v, !.dangling = @ \/ \E b \in block : ~mem[b].live]
      BY <1>2, <2>3, <2>4, <2>6, <2>7, <2>8 DEF ReadSpawn
    <3>2. hist' = [N EXCEPT !.meaning[x] = v, !.dangling = @ \/ \E b \in block : ~mem[b].live]
      BY <2>10, <2>11, <3>1
    <3>3. G = [N EXCEPT !.meaning[x] = v]
      BY <2>13 DEF Given
    <3> QED
      BY <2>14, <2>15, <2>16, <3>2, <3>3, Zenon DEF Dangles
  <2>18. /\ H \in Hist /\ H.meaning = G.meaning
         /\ H.bad = G.bad /\ H.misread = G.misread /\ H.dangling = e /\ H.loose = G.loose
    <3>1. Dangled(H, G, e)
      BY ONLY <2>14, <2>17, e \in BOOLEAN, DanglesHist, Zenon
    <3> QED
      BY ONLY <3>1, Zenon DEF Dangled
  <2>19. /\ hist' \in Hist /\ hist'.meaning = [hist.meaning EXCEPT ![x] = v]
         /\ (hist'.bad => hist.bad) /\ (hist'.misread => hist.misread \/ Misread(read))
         /\ (hist'.dangling => hist.dangling \/ \E b \in block : ~mem[b].live)
         /\ hist.loose \cup L \subseteq hist'.loose
    BY <2>12, <2>14, <2>15, <2>16, <2>18
  <2>20. mem' \in Seq(BlockRec) /\ SameBlocks
    BY <2>1, <2>9, SameMem
  <2>21. NumberTo(x, v)
    <3>1. hist.loose \cup AssignUses(x, v) \subseteq hist'.loose
      BY <2>8, <2>19
    <3> QED
      BY <2>2, <2>3, <2>4, <2>5, <2>9, <2>19, <2>20, <3>1 DEF NumberTo, Rebinds
  <2>22. Borrowed'
    <3>1. SUFFICES ASSUME Clean(LooseBorrows)'
                   PROVE  /\ ~hist'.dangling
                          /\ \A t \in tasks' : t.block \cap scope.blocks = {}
                          /\ \A t \in tasks' : \A b \in t.block : b >= 3 =>
                               \E n \in Locals, z \in Names : Lent(t, b, n, z)'
      BY <2>9 DEF Borrowed, LooseBorrows
    <3>2. Clean(LooseBorrows)
      BY <2>19, <3>1, CleanBefore DEF LooseBorrows
    <3>3. Clean({"set", "shadowed", "copied"})
      BY <3>2 DEF Clean, LooseBorrows
    <3>4. block \cap scope.blocks = {} /\ y \notin path.freed
      BY <2>8, <2>19, <3>1 DEF Clean, LooseBorrows, Uses
    <3>5. ASSUME NEW b \in block
          PROVE  mem[b].live
      <4>1. Handle(arg) /\ b = arg.id
        BY <2>7, <3>5 DEF Handle
      <4> QED
        BY <2>1, <2>6, <3>3, <3>4, <4>1 DEF OneName
    <3>6. ~hist'.dangling
      BY <2>1, <2>19, <3>2, <3>5 DEF Borrowed
    <3>7. \A t \in tasks' : t.block \cap scope.blocks = {}
      BY <2>1, <2>9, <3>2, <3>4 DEF Borrowed
    <3>8. /\ v.kind # "none" /\ ~Handle(v) /\ Rebinds(x, v)
          /\ path.allocs \subseteq path'.allocs /\ path'.freed \subseteq path.freed
      BY <2>1, <2>21, NumberHandles DEF NumberTo, IsScalar, Handle
    <3>9. ASSUME NEW t \in tasks, NEW b \in t.block, b >= 3
          PROVE  \E n \in Locals, z \in Names : Lent(t, b, n, z)'
      <4>1. PICK n \in Locals, z \in Names : Lent(t, b, n, z)
        BY <2>1, <3>2, <3>9 DEF Borrowed
      <4>2. <<n, z>> \in borrows'
        BY <2>9, <4>1 DEF Lent
      <4>3. Lent(t, b, n, z)'
        BY <2>1, <3>8, <4>1, <4>2, RebindsLent
      <4> QED
        BY <4>3
    <3>10. ASSUME NEW t, t = [id |-> Here, block |-> block], NEW b \in block, b >= 3
           PROVE  Lent(t, b, y, x)' /\ y \in Locals
      <4>1. Handle(arg) /\ b = arg.id /\ cg.vars[y] = arg
        BY <2>6, <2>7, <3>10 DEF Handle
      <4>2. y \in Locals
        <5>1. cg.vars[In].id = 1 /\ cg.vars[Out].id = 2
          BY <2>1 DEF Static, Value
        <5>2. y # In /\ y # Out
          BY <3>10, <4>1, <5>1
        <5> QED
          BY <5>2, NameFacts
      <4>3. y \in path.allocs
        BY <2>1, <3>3, <4>1, <4>2 DEF OneName
      <4>4. scope.open => scope.saved[y] # NoValue
        <5>1. b \notin scope.blocks
          BY <3>4, <3>10
        <5> QED
          BY <2>1, <3>3, <4>1, <5>1 DEF OneName
      <4>5. \A n \in Names : Handle(cg.vars[n]) /\ cg.vars[n].id = b => n = y
        BY <2>1, <3>3, <4>1 DEF OneName
      <4>6. /\ \A n \in Names : Handle(cg'.vars[n]) => cg'.vars[n] = cg.vars[n]
            /\ path'.freed \subseteq path.freed /\ path'.allocs = path.allocs
        BY <2>1, <2>21, NumberHandles
      <4>7. /\ \A n \in Names : n # x => cg'.vars[n] = cg.vars[n]
            /\ cg'.vars[x] = cg.vars[x] \/ cg'.vars[x] = v
            /\ x \notin reassigned => cg'.vars[x] = v
        BY <2>1, <3>8, BindFacts DEF Rebinds
      <4>8. cg'.vars[y] # NoValue
        <5>1. cg.vars[y] # NoValue /\ v # NoValue
          BY <3>8, <4>1, NameFacts DEF Handle
        <5> QED
          BY <4>7, <5>1
      <4>9. \A n \in Names : Handle(cg'.vars[n]) /\ cg'.vars[n].id = b => n = y
        BY <4>5, <4>6
      <4>10. ASSUME x \notin reassigned
             PROVE  /\ hist'.meaning[x] # NoValue /\ (cg'.vars[x].kind = "int" => cg'.vars[x].id = t.id)
                    /\ scope.open /\ scope.saved[x].kind = "int" => scope.saved[x].id = t.id
        <5>1. hist.meaning[x] = NoValue
          BY <2>2, <2>3, <4>10 DEF Assignable
        <5>2. scope.open => scope.saved[x] = NoValue
          BY <2>1, <2>3, <5>1 DEF Static
        <5>3. hist'.meaning[x] = v
          <6>1. hist.meaning \in [Names -> Val]
            BY <2>1 DEF Typed, Hist
          <6> QED
            BY <2>3, <2>19, <6>1
        <5>4. v # NoValue /\ NoValue.kind # "int" /\ t.id = v.id
          BY <2>4, <3>8, <3>10, NameFacts
        <5> QED
          BY <4>7, <4>10, <5>2, <5>3, <5>4
      <4>11. <<y, x>> \in borrows'
        BY <2>9
      <4> QED
        BY <2>9, <3>4, <4>2, <4>3, <4>4, <4>6, <4>8, <4>9, <4>10, <4>11 DEF Lent
    <3>11. \A t \in tasks' : \A b \in t.block : b >= 3 => \E n \in Locals, z \in Names : Lent(t, b, n, z)'
      <4>1. TAKE t \in tasks'
      <4>2. CASE t \in tasks
        BY <3>9, <4>2
      <4>3. CASE t \notin tasks
        <5>1. t = [id |-> Here, block |-> block] /\ t.block = block
          BY <2>9, <4>3
        <5> QED
          BY <2>3, <3>10, <5>1
      <4> QED
        BY <4>2, <4>3
    <3> QED
      BY <3>6, <3>7, <3>11
  <2>23. borrows' \subseteq Names \X Names /\ tasks' \subseteq [id : Nat, block : SUBSET Nat]
    <3>1. borrows \subseteq Names \X Names /\ tasks \subseteq [id : Nat, block : SUBSET Nat]
      BY <2>1 DEF Typed
    <3> QED
      BY <2>3, <2>4, <2>9, <3>1
  <2>24. \A t \in tasks' : t.block \subseteq 1 .. Len(mem)
    <3>1. block \subseteq 1 .. Len(mem)
      BY <2>6, <2>7 DEF Handle
    <3>2. \A t \in tasks : t.block \subseteq 1 .. Len(mem)
      BY <2>1 DEF Static
    <3> QED
      BY <2>9, <3>1, <3>2
  <2>25. Clean(LooseBounds)' => ~hist'.bad
    <3>1. Clean(LooseBounds)' => Clean(LooseBounds)
      BY <2>19, CleanBefore DEF LooseBounds
    <3> QED
      BY <2>19, <3>1 DEF IInv, Sized
  <2> QED
    BY <2>10, <2>19, <2>20, <2>21, <2>22, <2>23, <2>24, <2>25, NumberStep
<1> QED
  BY <1>1, <1>2

(* No name is given a value. *)
SameNames ==
    /\ cg' = cg /\ info' = info /\ reassigned' = reassigned /\ borrows' = borrows
    /\ hist'.meaning = hist.meaning /\ hist.loose \subseteq hist'.loose
    /\ scope'.open = scope.open /\ scope'.saved = scope.saved /\ scope'.allocs = scope.allocs
    /\ scope'.blocks = scope.blocks

(* The names then denote what they did. *)
LEMMA SameNamesFacts ==
    ASSUME IInv, SameNames, Len(mem') = Len(mem), tasks' \subseteq tasks,
           NEW read \in SUBSET Names, \A n \in read : GetVar(n) # NoValue,
           hist'.misread => hist.misread \/ Misread(read)
    PROVE  Static' /\ Unshadowed' /\ Latest'
<1>1. Static'
  BY DEF IInv, Static, SameNames
<1>2. Unshadowed'
  BY DEF IInv, Unshadowed, Clean, SameNames
<1>3. Latest'
  <2>1. SUFFICES ASSUME Clean({"set", "mixed", "shadowed"})'
                 PROVE  /\ ~hist'.misread
                        /\ \A n \in Names : GetVar(n)' # NoValue => GetVar(n)' = hist'.meaning[n]
    BY DEF Latest
  <2>2. Clean({"set", "mixed", "shadowed"})
    BY <2>1, CleanBefore DEF SameNames
  <2>3. /\ ~hist.misread
        /\ \A n \in Names : GetVar(n) # NoValue => GetVar(n) = hist.meaning[n]
    BY <2>2 DEF IInv, Latest
  <2>4. ~Misread(read)
    BY <2>3 DEF Misread
  <2>5. \A n \in Names : GetVar(n)' = GetVar(n)
    BY DEF GetVar, SameNames
  <2> QED
    BY <2>3, <2>4, <2>5 DEF SameNames
<1> QED
  BY <1>1, <1>2, <1>3

(* Statements that give no name a value and release no block. *)
LEMMA SameNamesStep ==
    ASSUME IInv, SameNames, scope' = scope, SameBlocks, mem' \in Seq(BlockRec), tasks' \subseteq tasks,
           path' \in [freed : SUBSET Names, stored : SUBSET Names, allocs : SUBSET Names],
           path'.freed = path.freed, path'.allocs = path.allocs,
           hist' \in Hist, hist'.dangling => hist.dangling, Clean(LooseBounds)' => ~hist'.bad,
           \A n \in path'.stored : n \in path.stored \/ (Handle(GetVar(n)) => mem'[GetVar(n).id].init),
           NEW read \in SUBSET Names, \A n \in read : GetVar(n) # NoValue,
           hist'.misread => hist.misread \/ Misread(read)
    PROVE  IInv'
<1>1. Typed /\ Static /\ OneName /\ Sized /\ Borrowed
  BY DEF IInv
<1>2. Typed'
  BY <1>1 DEF Typed, SameNames
<1>3. Static' /\ Unshadowed' /\ Latest'
  <2>1. Len(mem') = Len(mem)
    BY DEF SameBlocks
  <2> QED
    BY <2>1, SameNamesFacts
<1>4. /\ \A n \in Names : GetVar(n)' = GetVar(n)
      /\ \A n \in Names : Handle(GetVar(n)) => GetVar(n).id \in 1 .. Len(mem)
  BY <1>1, GetVarFacts DEF GetVar, SameNames
<1>5. OneName'
  <2>1. SUFFICES ASSUME Clean({"set", "shadowed", "copied"})'
                 PROVE  OneName'
    BY DEF OneName
  <2>2. Clean({"set", "shadowed", "copied"})
    BY <2>1, CleanBefore DEF SameNames
  <2>3. \A n \in Names \ path'.freed : Handle(GetVar(n)') => mem'[GetVar(n)'.id].live
    BY <1>1, <1>4, <2>2 DEF OneName, SameBlocks
  <2>4. /\ \A m, n \in Names : Handle(cg'.vars[m]) /\ Handle(cg'.vars[n]) /\ cg'.vars[m].id = cg'.vars[n].id => m = n
        /\ \A n \in Locals : Handle(cg'.vars[n]) => cg'.vars[n].id >= 3 /\ n \in path'.allocs
        /\ scope'.open => \A n \in Names : Handle(cg'.vars[n]) =>
             (scope'.saved[n] = NoValue <=> cg'.vars[n].id \in scope'.blocks)
    BY <1>1, <2>2 DEF OneName, SameNames
  <2> QED
    BY <2>3, <2>4 DEF OneName
<1>6. Sized'
  <2>1. SUFFICES ASSUME Clean(LooseBounds)', NEW n \in Names, Handle(GetVar(n)')
                 PROVE  /\ info'[n].size = GetVar(n)'.size /\ mem'[GetVar(n)'.id].size = GetVar(n)'.size
                        /\ n \in path'.stored => mem'[GetVar(n)'.id].init
    BY DEF Sized, LooseBounds
  <2>2. Clean(LooseBounds)
    BY <2>1, CleanBefore DEF SameNames, LooseBounds
  <2>3. GetVar(n)' = GetVar(n) /\ Handle(GetVar(n)) /\ GetVar(n).id \in 1 .. Len(mem) /\ info' = info
    BY <1>4, <2>1 DEF SameNames
  <2>4. /\ info[n].size = GetVar(n).size /\ mem[GetVar(n).id].size = GetVar(n).size
        /\ n \in path.stored => mem[GetVar(n).id].init
    BY <1>1, <2>2, <2>3 DEF Sized
  <2> QED
    BY <2>3, <2>4 DEF SameBlocks
<1>7. Borrowed'
  <2>1. SUFFICES ASSUME Clean(LooseBorrows)'
                 PROVE  Borrowed'
    BY DEF Borrowed
  <2>2. Clean(LooseBorrows)
    BY <2>1, CleanBefore DEF SameNames, LooseBorrows
  <2>3. \A t, b, y, x : Lent(t, b, y, x) => Lent(t, b, y, x)'
    BY DEF Lent, SameNames
  <2> QED
    BY <1>1, <2>2, <2>3 DEF Borrowed
<1> QED
  BY <1>2, <1>3, <1>5, <1>6, <1>7 DEF IInv

(* WAIT_ALL y. *)
LEMMA WaitAllStep ==
    ASSUME IInv, NEW s \in Statements, ReadWaitAll(s)
    PROVE  IInv'
<1>1. CASE Failed
  BY <1>1, QuietStep DEF Failed
<1>2. CASE ~Failed
  <2>1. Typed /\ Static
    BY DEF IInv
  <2>2. PICK y \in Names : y = s.y
    BY NameFacts DEF IsStatement, ReadWaitAll
  <2>3. /\ cg.vars[y].kind = "int" /\ tasks' \subseteq tasks /\ hist' = Note({y}, FALSE, {})
        /\ UNCHANGED <<info, path, borrows, scope, reassigned, cg, mem>>
    BY <1>2, <2>2 DEF ReadWaitAll
  <2>4. PICK read \in SUBSET Names : read = {y} /\ \A n \in read : GetVar(n) # NoValue
    <3>1. GetVar(y) # NoValue
      BY <2>1, <2>3, NameFacts, GetVarFacts DEF IsScalar
    <3>2. {y} \in SUBSET Names /\ \A n \in {y} : GetVar(n) # NoValue
      BY <3>1
    <3> QED
      BY <3>2
  <2>5. PICK N : N = hist'
    OBVIOUS
  <2>6. /\ N \in Hist /\ N.meaning = hist.meaning /\ (N.bad => hist.bad) /\ N.dangling = hist.dangling
        /\ (N.misread => hist.misread \/ Misread(read)) /\ \A u : u \in hist.loose => u \in N.loose
    <3>1. N = Note(read, FALSE, {})
      BY <2>3, <2>4, <2>5
    <3> QED
      <4>1. Noted(N, read, FALSE, {})
        BY <2>1, <3>1, NoteFacts, Zenon
      <4> QED
        BY ONLY <4>1, Zenon DEF Noted
  <2>7. SameNames
    BY <2>3, <2>5, <2>6 DEF SameNames
  <2>8. mem' \in Seq(BlockRec) /\ SameBlocks
    BY <2>1, <2>3, SameMem
  <2>9. Clean(LooseBounds)' => ~hist'.bad
    <3>1. Clean(LooseBounds)' => Clean(LooseBounds)
      BY <2>7, CleanBefore DEF LooseBounds, SameNames
    <3> QED
      BY <2>5, <2>6, <3>1 DEF IInv, Sized
  <2>10. path' \in [freed : SUBSET Names, stored : SUBSET Names, allocs : SUBSET Names]
    BY <2>1, <2>3 DEF Typed
  <2> QED
    BY <2>3, <2>4, <2>5, <2>6, <2>7, <2>8, <2>9, <2>10, SameNamesStep
<1> QED
  BY <1>1, <1>2

(* STORE y e size off. *)
LEMMA StoreStep ==
    ASSUME IInv, NEW s \in Statements, ReadStore(s)
    PROVE  IInv'
<1>1. CASE Reject \/ Failed \/ Abort
  BY <1>1, QuietStep DEF Reject, Failed, Abort
<1>2. CASE ~(Reject \/ Failed \/ Abort)
  <2>1. Typed /\ Static /\ OneName /\ Sized
    BY DEF IInv
  <2>2. PICK y \in Names, size \in Nat, off \in OffsetForms, e \in Operands \cup ({"load"} \X Names) :
          y = s.y /\ size = s.size /\ off = s.off /\ e = s.e
    BY NameFacts DEF IsStatement, ReadStore
  <2>3. PICK h \in Val : h = GetVar(y) /\ (Handle(h) => h.id \in 1 .. Len(mem))
    BY <2>1, GetVarFacts
  <2>4. /\ CheckBounds(y, size, off) = {} /\ y \notin path.freed
        /\ Accessible(h) /\ Compiles(e) /\ OffsetCompiles(off)
        /\ \E o \in RunOffsets(off) :
             /\ ~Aborts(h, off, o, size)
             /\ hist' = Note({y} \cup ReadNames(e) \cup ReadNames(off), ~Touches(h, o, StoreWidth(Compiled(e), size)),
                             Uses("number", h.kind = "int") \cup Uses("float", Compiled(e).kind = "float")
                               \cup Unchecked(h, off, o, size))
             /\ path' = [path EXCEPT !.stored = @ \cup {y}] /\ mem' = Written(h)
             /\ UNCHANGED <<info, borrows, scope, reassigned, cg, tasks>>
    BY <1>2, <2>2, <2>3 DEF ReadStore, ScanVar, Error
  <2>5. PICK o \in RunOffsets(off) :
          /\ ~Aborts(h, off, o, size)
          /\ hist' = Note({y} \cup ReadNames(e) \cup ReadNames(off), ~Touches(h, o, StoreWidth(Compiled(e), size)),
                          Uses("number", h.kind = "int") \cup Uses("float", Compiled(e).kind = "float")
                            \cup Unchecked(h, off, o, size))
          /\ path' = [path EXCEPT !.stored = @ \cup {y}] /\ mem' = Written(h)
          /\ UNCHANGED <<info, borrows, scope, reassigned, cg, tasks>>
    BY <2>4
  <2>6. PICK read \in SUBSET Names :
          read = {y} \cup ReadNames(e) \cup ReadNames(off) /\ \A n \in read : GetVar(n) # NoValue
    <3>1. ReadNames(off) \subseteq Names /\ \A n \in ReadNames(off) : GetVar(n).kind = "int"
      BY <2>4 DEF ReadNames, OffsetForms, OffsetCompiles
    <3>2. ReadNames(e) \subseteq Names /\ \A n \in ReadNames(e) : GetVar(n) # NoValue
      BY <2>1, <2>4, CompiledFacts
    <3>3. GetVar(y) # NoValue /\ \A n \in ReadNames(off) : GetVar(n) # NoValue
      BY <2>3, <2>4, <3>1, NameFacts DEF Accessible
    <3>4. {y} \cup ReadNames(e) \cup ReadNames(off) \in SUBSET Names
      BY <3>1, <3>2
    <3>5. \A n \in {y} \cup ReadNames(e) \cup ReadNames(off) : GetVar(n) # NoValue
      BY <3>2, <3>3
    <3> QED
      BY <3>4, <3>5
  <2>7. PICK bad \in BOOLEAN : bad = (~Touches(h, o, StoreWidth(Compiled(e), size)))
    BY Zenon
  <2>8. PICK L \in SUBSET Loose : L = Uses("number", h.kind = "int") \cup Uses("float", Compiled(e).kind = "float")
                                       \cup Unchecked(h, off, o, size)
    BY DEF Uses, Unchecked, Loose
  <2>9. PICK N : N = hist'
    OBVIOUS
  <2>10. /\ N \in Hist /\ N.meaning = hist.meaning /\ (N.bad => hist.bad \/ bad) /\ N.dangling = hist.dangling
         /\ (N.misread => hist.misread \/ Misread(read)) /\ \A u : u \in hist.loose \/ u \in L => u \in N.loose
    <3>1. N = Note(read, bad, L)
      BY <2>5, <2>6, <2>7, <2>8, <2>9, Zenon
    <3> QED
      <4>1. Noted(N, read, bad, L)
        BY <2>1, <3>1, NoteFacts, Zenon
      <4> QED
        BY ONLY <4>1, Zenon DEF Noted
  <2>11. SameNames
    BY <2>5, <2>9, <2>10 DEF SameNames
  <2>12. /\ mem' \in Seq(BlockRec) /\ SameBlocks
         /\ Handle(h) => mem'[h.id].init
    BY <2>1, <2>3, <2>5, WrittenFacts DEF SameBlocks
  <2>13. Clean(LooseBounds)' => ~hist'.bad
    <3>1. SUFFICES ASSUME Clean(LooseBounds)'
                   PROVE  ~hist'.bad
      OBVIOUS
    <3>2. Clean(LooseBounds)
      BY <2>11, <3>1, CleanBefore DEF LooseBounds, SameNames
    <3>3. L \cap LooseBounds = {}
      BY <2>9, <2>10, <3>1 DEF Clean, LooseBounds
    <3>4. h.kind # "int" /\ Compiled(e).kind # "float" /\ Unchecked(h, off, o, size) = {}
      BY <2>8, <3>3 DEF Uses, Unchecked, LooseBounds
    <3>5. Handle(h)
      BY <2>4, <3>4 DEF Accessible, Handle
    <3>6. StoreWidth(Compiled(e), size) = size
      BY <3>4 DEF StoreWidth
    <3>7. Touches(h, o, size)
      BY <2>1, <2>3, <2>4, <2>5, <3>2, <3>4, <3>5, AccessInBounds
    <3>8. ~hist.bad
      BY <2>1, <3>2 DEF Sized
    <3> QED
      BY <2>7, <2>9, <2>10, <3>6, <3>7, <3>8
  <2>14. /\ path' \in [freed : SUBSET Names, stored : SUBSET Names, allocs : SUBSET Names]
         /\ path'.freed = path.freed /\ path'.allocs = path.allocs /\ path'.stored = path.stored \cup {y}
    <3>1. path \in [freed : SUBSET Names, stored : SUBSET Names, allocs : SUBSET Names]
      BY <2>1 DEF Typed
    <3> QED
      BY <2>5, <3>1
  <2>15. \A n \in path'.stored : n \in path.stored \/ (Handle(GetVar(n)) => mem'[GetVar(n).id].init)
    BY <2>3, <2>12, <2>14
  <2> QED
    BY <2>5, <2>6, <2>9, <2>10, <2>11, <2>12, <2>13, <2>14, <2>15, SameNamesStep
<1> QED
  BY <1>1, <1>2

(* SET of a local is noted, and excuses all but the ranges. *)
LEMMA SetNoted ==
    ASSUME "set" \in hist'.loose
    PROVE  Unshadowed' /\ Latest' /\ OneName' /\ Sized' /\ Borrowed'
  BY DEF Unshadowed, Latest, OneName, Sized, Borrowed, Clean, LooseBounds, LooseBorrows

(* What SET reads, by name or by LOAD. *)
SetReads(e, v) ==
    \/ v.kind = "handle" /\ ~Reads(v, 0, LoadWidth(v, IF v.size < 8 THEN v.size ELSE 8))
    \/ e[1] = "load" /\ ~Reads(GetVar(e[2]), 0, LoadWidth(GetVar(e[2]), 8))

(* The bytes that SET writes, and the loose uses it notes. *)
SetWidth(v, d) == IF v.kind = "handle" /\ v.typ = "Float" THEN LoadWidth(v, v.size) ELSE StoreWidth(v, d.size)
SetUses(x, e, v) ==
    Uses("set", x # Out) \cup Uses("unscanned", Unscanned(x, e, v))
      \cup Uses("number", e[1] = "load" /\ GetVar(e[2]).kind = "int")
      \cup Uses("float", v.kind = "float" \/ (v.kind = "handle" /\ v.typ = "Float"))

(* What SET of the output reads is live, stored to and large enough. *)
LEMMA SetReadsSound ==
    ASSUME Typed, Static, OneName, Sized, Clean(LooseBounds), NEW e \in Operands \cup ({"load"} \X Names),
           Compiles(e), ExprErrors(e) = {}, NEW v \in Val, v = Compiled(e), NEW x,
           SetUses(x, e, v) \cap LooseBounds = {}
    PROVE  ~SetReads(e, v)
<1>1. /\ ~Unscanned(x, e, v) /\ ~(e[1] = "load" /\ GetVar(e[2]).kind = "int")
      /\ ~(v.kind = "handle" /\ v.typ = "Float")
  BY DEF SetUses, Uses, LooseBounds
<1>2. Clean({"set", "shadowed", "copied"})
  BY DEF Clean, LooseBounds
<1>3. ASSUME NEW y \in Names, Handle(GetVar(y)), y \notin path.freed, y \in path.stored
      PROVE  /\ mem[GetVar(y).id].live /\ mem[GetVar(y).id].init
             /\ mem[GetVar(y).id].size = GetVar(y).size /\ info[y].size = GetVar(y).size /\ GetVar(y).size \in Nat
  <2>1. GetVar(y) \in Val
    BY GetVarFacts
  <2> QED
    BY <1>2, <1>3, <2>1, NameFacts DEF OneName, Sized
<1>4. ASSUME v.kind = "handle"
      PROVE  Reads(v, 0, LoadWidth(v, IF v.size < 8 THEN v.size ELSE 8))
  <2>1. PICK y \in Names : e[1] = "var" /\ e[2] = y /\ v = GetVar(y)
    BY <1>4, CompiledFacts DEF Handle
  <2>2. y \notin path.freed /\ y \in path.stored
    BY <1>1, <1>4, <2>1 DEF Unscanned, ReadNames
  <2>3. mem[v.id].live /\ mem[v.id].init /\ mem[v.id].size = v.size /\ v.size \in Nat
    BY <1>3, <1>4, <2>1, <2>2 DEF Handle
  <2>4. LoadWidth(v, IF v.size < 8 THEN v.size ELSE 8) = IF v.size < 8 THEN v.size ELSE 8
    BY <1>1, <1>4 DEF LoadWidth
  <2> QED
    BY <1>4, <2>3, <2>4 DEF Reads, Touches
<1>5. ASSUME e[1] = "load"
      PROVE  Reads(GetVar(e[2]), 0, LoadWidth(GetVar(e[2]), 8))
  <2>1. PICK y \in Names : e[2] = y /\ Accessible(GetVar(y))
    BY <1>5, CompiledFacts
  <2>2. Handle(GetVar(y))
    BY <1>1, <1>5, <2>1 DEF Accessible, Handle
  <2>3. y \notin path.freed /\ y \in path.stored
    BY <1>1, <1>5, <2>1 DEF Unscanned, ReadNames
  <2>4. /\ mem[GetVar(y).id].live /\ mem[GetVar(y).id].init
        /\ mem[GetVar(y).id].size = GetVar(y).size /\ info[y].size = GetVar(y).size /\ GetVar(y).size \in Nat
    BY <1>3, <2>2, <2>3
  <2>5. ~(info[y].size # Unknown /\ 0 + 8 > info[y].size)
    BY <1>5, <2>1 DEF ExprErrors, LoadErrors, CheckBounds, NoOffset, Constant, ConstantOffset, Error
  <2>6. 8 <= mem[GetVar(y).id].size
    BY <2>4, <2>5 DEF Unknown
  <2>7. LoadWidth(GetVar(y), 8) = 8
    BY DEF LoadWidth
  <2> QED
    BY <2>1, <2>2, <2>4, <2>6, <2>7 DEF Reads, Touches, Handle
<1> QED
  BY <1>4, <1>5 DEF SetReads

(* SET x e. *)
LEMMA SetStep ==
    ASSUME IInv, NEW s \in Statements, ReadSet(s)
    PROVE  IInv'
<1>1. CASE Reject \/ Failed
  BY <1>1, QuietStep DEF Reject, Failed
<1>2. CASE ~(Reject \/ Failed)
  <2>1. Typed /\ Static /\ OneName /\ Sized
    BY DEF IInv
  <2>2. PICK x \in Names, e \in Operands \cup ({"load"} \X Names) : x = s.x /\ e = s.e
    BY NameFacts DEF IsStatement, ReadSet
  <2>3. PICK d \in Val : d = cg.vars[x] /\ (Handle(d) => d.id \in 1 .. Len(mem))
    BY <2>1, GetVarFacts DEF Static
  <2>4. PICK v : v = Compiled(e)
    OBVIOUS
  <2>5. /\ ExprErrors(e) = {} /\ Compiles(e)
        /\ IF d.kind = "handle"
           THEN /\ hist' = Note(ReadNames(e), SetReads(e, v) \/ ~Touches(d, 0, SetWidth(v, d)), SetUses(x, e, v))
                /\ mem' = Written(d)
                /\ UNCHANGED cg
           ELSE /\ cg' = [cg EXCEPT !.vars[x] = v]
                /\ hist' = [Note(ReadNames(e), e[1] = "load" /\ SetReads(e, v), SetUses(x, e, v) \cup AssignUses(x, v))
                              EXCEPT !.meaning[x] = v]
                /\ UNCHANGED mem
        /\ UNCHANGED <<info, path, borrows, scope, reassigned, tasks>>
    <3>1. ExprErrors(e) = {} /\ Compiles(e)
      BY <1>2, <2>2 DEF ReadSet
    <3>2. /\ IF cg.vars[s.x].kind = "handle"
             THEN /\ hist' = Note(ReadNames(s.e), SetReads(s.e, Compiled(s.e))
                                                   \/ ~Touches(cg.vars[s.x], 0, SetWidth(Compiled(s.e), cg.vars[s.x])),
                                  SetUses(s.x, s.e, Compiled(s.e)))
                  /\ mem' = Written(cg.vars[s.x])
                  /\ UNCHANGED cg
             ELSE /\ cg' = [cg EXCEPT !.vars[s.x] = Compiled(s.e)]
                  /\ hist' = [Note(ReadNames(s.e), s.e[1] = "load" /\ SetReads(s.e, Compiled(s.e)),
                                   SetUses(s.x, s.e, Compiled(s.e)) \cup AssignUses(s.x, Compiled(s.e)))
                                EXCEPT !.meaning[s.x] = Compiled(s.e)]
                  /\ UNCHANGED mem
          /\ UNCHANGED <<info, path, borrows, scope, reassigned, tasks>>
      BY <1>2, Zenon DEF ReadSet, SetReads, SetWidth, SetUses
    <3> QED
      BY <2>2, <2>3, <2>4, <3>1, <3>2, Zenon
  <2>6. v \in Val /\ v.kind # "none" /\ (Handle(v) => v.id \in 1 .. Len(mem))
    BY <2>1, <2>4, <2>5, CompiledFacts
  <2>7. PICK read \in SUBSET Names : read = ReadNames(e) /\ \A n \in read : GetVar(n) # NoValue
    BY <2>1, <2>5, CompiledFacts
  <2>8. PICK L \in SUBSET Loose : L = SetUses(x, e, v)
    BY DEF SetUses, Uses, Loose
  <2>9. x # Out => "set" \in L
    BY <2>8 DEF SetUses, Uses
  <2>10. CASE d.kind = "handle"
    <3>1. PICK bad \in BOOLEAN : bad = (SetReads(e, v) \/ ~Touches(d, 0, SetWidth(v, d)))
      BY Zenon
    <3>2. PICK N : N = hist'
      OBVIOUS
    <3>3. /\ N \in Hist /\ N.meaning = hist.meaning /\ (N.bad => hist.bad \/ bad) /\ N.dangling = hist.dangling
          /\ (N.misread => hist.misread \/ Misread(read)) /\ \A u : u \in hist.loose \/ u \in L => u \in N.loose
      <4>1. hist' = Note(ReadNames(e), SetReads(e, v) \/ ~Touches(d, 0, SetWidth(v, d)), SetUses(x, e, v))
        BY <2>5, <2>10
      <4>2. N = Note(read, bad, L)
        BY <2>7, <2>8, <3>1, <3>2, <4>1, Zenon
      <4> QED
        <5>1. Noted(N, read, bad, L)
          BY ONLY <2>1, <4>2, bad \in BOOLEAN, L \in SUBSET Loose, NoteFacts, Zenon
        <5> QED
          BY ONLY <5>1, Zenon DEF Noted
    <3>4. SameNames
      BY <2>5, <2>10, <3>2, <3>3 DEF SameNames
    <3>5. mem' \in Seq(BlockRec) /\ SameBlocks
      <4>1. mem' = Written(d)
        BY <2>5, <2>10
      <4> QED
        BY <2>1, <2>3, <4>1, WrittenFacts DEF SameBlocks
    <3>6. path' \in [freed : SUBSET Names, stored : SUBSET Names, allocs : SUBSET Names]
      BY <2>1, <2>5 DEF Typed
    <3>7. CASE x = Out
      <4>1. Clean(LooseBounds)' => ~hist'.bad
        <5>1. SUFFICES ASSUME Clean(LooseBounds)'
                       PROVE  ~hist'.bad
          OBVIOUS
        <5>2. Clean(LooseBounds)
          BY <3>4, <5>1, CleanBefore DEF LooseBounds, SameNames
        <5>3. SetUses(x, e, v) \cap LooseBounds = {}
          BY <2>8, <3>2, <3>3, <5>1 DEF Clean, LooseBounds
        <5>4. ~SetReads(e, v)
          BY <2>1, <2>4, <2>5, <2>6, <5>2, <5>3, SetReadsSound
        <5>5. d = Value("handle", 2, OutSize, "Int") /\ d = GetVar(x) /\ Handle(d) /\ d.size = OutSize
          <6>1. cg.slot[x] = NoValue
            BY <2>1, <3>7, NameFacts DEF Static, Typed
          <6>2. d = Value("handle", 2, OutSize, "Int")
            BY <2>1, <2>3, <3>7 DEF Static
          <6> QED
            BY <2>3, <6>1, <6>2 DEF GetVar, Value, Handle
        <5>6. v.kind # "float" /\ ~(v.kind = "handle" /\ v.typ = "Float") /\ x \notin path.freed
          BY <5>3 DEF SetUses, Uses, Unscanned, LooseBounds
        <5>7. SetWidth(v, d) = OutSize
          BY <5>5, <5>6 DEF SetWidth, StoreWidth
        <5>8. mem[d.id].live
          <6>1. Clean({"set", "shadowed", "copied"})
            BY <5>2 DEF Clean, LooseBounds
          <6> QED
            BY <2>1, <5>5, <5>6, <6>1 DEF OneName
        <5>9. mem[d.id].size = OutSize
          BY <2>1, <5>2, <5>5 DEF Sized
        <5>10. Touches(d, 0, SetWidth(v, d))
          BY <5>5, <5>7, <5>8, <5>9, NameFacts DEF Touches, Handle
        <5>11. ~hist.bad
          BY <2>1, <5>2 DEF Sized
        <5> QED
          BY <3>1, <3>2, <3>3, <5>4, <5>10, <5>11
      <4>2. path' = path /\ scope' = scope /\ tasks' \subseteq tasks
        BY <2>5
      <4> QED
        BY <2>7, <3>2, <3>3, <3>4, <3>5, <3>6, <4>1, <4>2, SameNamesStep
    <3>8. CASE x # Out
      <4>1. "set" \in hist'.loose
        BY <2>9, <3>2, <3>3, <3>8
      <4>2. Typed'
        <5>1. hist' \in Hist
          BY <3>2, <3>3
        <5> QED
          BY <2>1, <2>5, <2>10, <3>5, <5>1 DEF Typed
      <4>3. Static'
        <5>1. Len(mem') = Len(mem) /\ tasks' \subseteq tasks /\ (hist'.misread => hist.misread \/ Misread(read))
          BY <2>5, <3>2, <3>3, <3>5 DEF SameBlocks
        <5> QED
          BY <2>7, <3>4, <5>1, SameNamesFacts
      <4> QED
        BY <4>1, <4>2, <4>3, SetNoted DEF IInv
    <3> QED
      BY <3>7, <3>8
  <2>11. CASE d.kind # "handle"
    <3>1. x # In /\ x # Out
      <4>1. cg.vars[In].kind = "handle" /\ cg.vars[Out].kind = "handle"
        BY <2>1 DEF Static, Value
      <4> QED
        BY <2>3, <2>11, <4>1
    <3>2. PICK M \in SUBSET Loose : M = SetUses(x, e, v) \cup AssignUses(x, v)
      BY ZenonT(60) DEF SetUses, AssignUses, Uses, Loose
    <3>3. PICK bad \in BOOLEAN : bad = (e[1] = "load" /\ SetReads(e, v))
      BY Zenon
    <3>4. PICK N : N = Note(read, bad, M)
      OBVIOUS
    <3>5. N \in Hist /\ N.meaning = hist.meaning /\ \A u : u \in hist.loose \/ u \in M => u \in N.loose
      <4>1. Noted(N, read, bad, M)
        BY <2>1, <3>4, NoteFacts, Zenon
      <4> QED
        BY ONLY <4>1, Zenon DEF Noted
    <3>6. PICK H : H = hist'
      OBVIOUS
    <3>7. H = Given(N, x, v)
      <4>1. hist' = [Note(ReadNames(e), e[1] = "load" /\ SetReads(e, v), SetUses(x, e, v) \cup AssignUses(x, v))
                       EXCEPT !.meaning[x] = v]
        BY <2>5, <2>11
      <4> QED
        BY <2>7, <3>2, <3>3, <3>4, <3>6, <4>1, Zenon DEF Given
    <3>8. /\ H \in Hist /\ H.meaning = [N.meaning EXCEPT ![x] = v] /\ H.loose = N.loose
      BY ONLY <2>6, <3>5, <3>7, x \in Names, GivenHist
    <3>9. "set" \in hist'.loose
      BY <2>8, <2>9, <3>1, <3>2, <3>5, <3>6, <3>8
    <3>10. cg' = [cg EXCEPT !.vars[x] = v] /\ UNCHANGED <<mem, info, path, borrows, scope, reassigned, tasks>>
      BY <2>5, <2>11
    <3>11. /\ cg' \in [vars : [Names -> Val], slot : [Names -> Val]] /\ cg'.slot = cg.slot /\ cg'.vars[x] = v
           /\ \A n \in Names : n # x => cg'.vars[n] = cg.vars[n]
      <4>1. cg \in [vars : [Names -> Val], slot : [Names -> Val]]
        BY <2>1 DEF Typed
      <4> QED
        BY <2>6, <3>10, <4>1
    <3>12. Typed'
      <4>1. hist' \in Hist
        BY <3>6, <3>8
      <4> QED
        BY <2>1, <3>10, <3>11, <4>1 DEF Typed
    <3>13. Static'
      <4>1. hist'.meaning[x] = v /\ \A n \in Names : n # x => hist'.meaning[n] = hist.meaning[n]
        <5>1. hist.meaning \in [Names -> Val]
          BY <2>1 DEF Typed, Hist
        <5> QED
          BY <3>5, <3>6, <3>8, <5>1
      <4>2. v # NoValue
        BY <2>6, NameFacts
      <4>3. cg'.vars[In] = cg.vars[In] /\ cg'.vars[Out] = cg.vars[Out]
        BY <3>1, <3>11, NameFacts
      <4>4. \A n \in Names : Handle(cg'.vars[n]) => cg'.vars[n].id \in 1 .. Len(mem)
        BY <2>1, <2>6, <3>11 DEF Static
      <4>5. \A n \in Names : hist'.meaning[n] = NoValue =>
              cg'.vars[n] = NoValue /\ (scope.open => scope.saved[n] = NoValue)
        BY <2>1, <3>11, <4>1, <4>2 DEF Static
      <4>6. \A n \in Names : cg'.slot[n] # NoValue => n \in reassigned /\ IsScalar(cg'.slot[n])
        BY <2>1, <3>11 DEF Static
      <4> QED
        BY <2>1, <3>10, <4>3, <4>4, <4>5, <4>6 DEF Static
    <3> QED
      BY <3>9, <3>12, <3>13, SetNoted DEF IInv
  <2> QED
    BY <2>10, <2>11
<1> QED
  BY <1>1, <1>2

(* FREE y: no other name has the block, and no task does, for the analysis *)
(* refuses to free what is lent.                                           *)
LEMMA FreeStep ==
    ASSUME IInv, NEW s \in Statements, ReadFree(s)
    PROVE  IInv'
<1>1. CASE Reject
  BY <1>1, QuietStep DEF Reject
<1>2. CASE ~Reject
  <2>1. Typed /\ Static /\ OneName /\ Sized /\ Borrowed
    BY DEF IInv
  <2>2. PICK y \in Names : y = s.y
    BY NameFacts DEF IsStatement, ReadFree
  <2>3. PICK v : v = cg.vars[y]
    OBVIOUS
  <2>4. PICK blocks : blocks = IF v.kind = "handle" THEN {v.id} ELSE {}
    OBVIOUS
  <2>5. /\ FreeErrors(y) = {}
        /\ path' = [path EXCEPT !.freed = @ \cup {y}]
        /\ scope' = (IF scope.open THEN [scope EXCEPT !.frees = @ \cup {y}] ELSE scope)
        /\ mem' = Release(blocks)
        /\ hist' = [Note({}, FALSE, {}) EXCEPT !.dangling = @ \/ Held(blocks)]
        /\ UNCHANGED <<info, borrows, reassigned, cg, tasks>>
    BY <1>2, <2>2, <2>3, <2>4 DEF ReadFree
  <2>6. y \in Locals /\ \A b \in borrows : b[1] # y
    <3>1. /\ Exists(y) /\ info[y].state # "Borrowed" /\ info[y].state # "NotAHandle"
          /\ ~(info[y].state = "Owned" /\ \E b \in borrows : b[1] = y)
      BY <2>5 DEF FreeErrors, UsesUndefined, Error
    <3>2. info[y].state \in {"Owned", "Borrowed", "NotAHandle", ""} /\ (info[y].state = "" => info[y] = Undefined)
      BY <2>1 DEF Typed, InfoRec
    <3>3. info[y].state = "Owned"
      BY <3>1, <3>2 DEF Exists
    <3>4. y # In /\ y # Out
      BY <2>1, <3>1 DEF Static
    <3> QED
      BY <3>1, <3>3, <3>4, NameFacts
  <2>7. PICK N : N = Note({}, FALSE, {})
    OBVIOUS
  <2>8. /\ N \in Hist /\ N.meaning = hist.meaning /\ (N.bad => hist.bad) /\ N.dangling = hist.dangling
        /\ (N.misread => hist.misread \/ Misread({})) /\ \A u : u \in hist.loose => u \in N.loose
    <3>1. Noted(N, {}, FALSE, {})
      BY <2>1, <2>7, NoteFacts, Zenon
    <3> QED
      BY ONLY <3>1, Zenon DEF Noted
  <2>9. PICK e \in BOOLEAN : e = (N.dangling \/ Held(blocks))
    BY Zenon
  <2>10. PICK H : H = hist'
    OBVIOUS
  <2>11. H = Dangles(N, e)
    BY <2>5, <2>7, <2>9, <2>10, Zenon DEF Dangles
  <2>12. /\ H \in Hist /\ H.meaning = N.meaning
         /\ H.bad = N.bad /\ H.misread = N.misread /\ H.dangling = e /\ H.loose = N.loose
    <3>1. Dangled(H, N, e)
      BY ONLY <2>8, <2>11, e \in BOOLEAN, DanglesHist, Zenon
    <3> QED
      BY ONLY <3>1, Zenon DEF Dangled
  <2>13. /\ hist' \in Hist /\ hist'.meaning = hist.meaning /\ hist.loose \subseteq hist'.loose
         /\ (hist'.bad => hist.bad) /\ (hist'.misread => hist.misread \/ Misread({}))
         /\ (hist'.dangling => hist.dangling \/ Held(blocks))
    BY <2>8, <2>9, <2>10, <2>12
  <2>14. /\ path'.freed = path.freed \cup {y} /\ path'.stored = path.stored /\ path'.allocs = path.allocs
         /\ path' \in [freed : SUBSET Names, stored : SUBSET Names, allocs : SUBSET Names]
    <3>1. path \in [freed : SUBSET Names, stored : SUBSET Names, allocs : SUBSET Names]
      BY <2>1 DEF Typed
    <3> QED
      BY <2>5, <3>1
  <2>15. /\ scope'.open = scope.open /\ scope'.saved = scope.saved /\ scope'.allocs = scope.allocs
         /\ scope'.blocks = scope.blocks
         /\ scope' \in [open : BOOLEAN, saved : [Names -> Val] \cup {<<>>}, allocs : SUBSET Locals,
                        frees : SUBSET Names, blocks : SUBSET Nat]
    <3>1. scope \in [open : BOOLEAN, saved : [Names -> Val] \cup {<<>>}, allocs : SUBSET Locals,
                     frees : SUBSET Names, blocks : SUBSET Nat]
      BY <2>1 DEF Typed
    <3>2. CASE scope.open
      BY <2>5, <3>1, <3>2
    <3>3. CASE ~scope.open
      BY <2>5, <3>1, <3>3
    <3> QED
      BY <3>2, <3>3
  <2>16. /\ mem' \in Seq(BlockRec) /\ Len(mem') = Len(mem)
         /\ \A i \in 1 .. Len(mem) : mem'[i].size = mem[i].size /\ mem'[i].init = mem[i].init
                                     /\ (i \notin blocks => mem'[i].live = mem[i].live)
    BY <2>1, <2>5, ReleaseFacts
  <2>17. SameNames
    BY <2>5, <2>13, <2>15 DEF SameNames
  <2>18. Typed'
    BY <2>1, <2>5, <2>13, <2>14, <2>15, <2>16 DEF Typed
  <2>19. Static' /\ Unshadowed' /\ Latest'
    <3>1. tasks' \subseteq tasks /\ {} \in SUBSET Names /\ \A n \in {} : GetVar(n) # NoValue
      BY <2>5
    <3> QED
      BY <2>13, <2>16, <2>17, <3>1, SameNamesFacts
  <2>20. /\ \A n \in Names : GetVar(n)' = GetVar(n)
         /\ \A n \in Names : Handle(GetVar(n)) => GetVar(n) = cg.vars[n] /\ GetVar(n).id \in 1 .. Len(mem)
    BY <2>1, <2>5, GetVarFacts DEF GetVar
  <2>21. OneName'
    <3>1. SUFFICES ASSUME Clean({"set", "shadowed", "copied"})'
                   PROVE  OneName'
      BY DEF OneName
    <3>2. Clean({"set", "shadowed", "copied"})
      BY <2>13, <3>1, CleanBefore
    <3>3. ASSUME NEW n \in Names \ path'.freed, Handle(GetVar(n)')
          PROVE  mem'[GetVar(n)'.id].live
      <4>1. n # y /\ n \in Names \ path.freed /\ Handle(GetVar(n)) /\ GetVar(n)' = GetVar(n)
        BY <2>14, <2>20, <3>3
      <4>2. GetVar(n).id \notin blocks
        BY <2>1, <2>3, <2>4, <2>20, <3>2, <4>1 DEF OneName, Handle
      <4>3. mem[GetVar(n).id].live
        BY <2>1, <3>2, <4>1 DEF OneName
      <4> QED
        BY <2>16, <2>20, <4>1, <4>2, <4>3
    <3>4. /\ \A m, n \in Names : Handle(cg'.vars[m]) /\ Handle(cg'.vars[n]) /\ cg'.vars[m].id = cg'.vars[n].id => m = n
          /\ \A n \in Locals : Handle(cg'.vars[n]) => cg'.vars[n].id >= 3 /\ n \in path'.allocs
          /\ scope'.open => \A n \in Names : Handle(cg'.vars[n]) =>
               (scope'.saved[n] = NoValue <=> cg'.vars[n].id \in scope'.blocks)
      BY <2>1, <2>5, <2>14, <2>15, <3>2 DEF OneName
    <3> QED
      BY <3>3, <3>4 DEF OneName
  <2>22. Sized'
    <3>1. SUFFICES ASSUME Clean(LooseBounds)'
                   PROVE  Sized'
      BY DEF Sized
    <3>2. Clean(LooseBounds)
      BY <2>13, <3>1, CleanBefore DEF LooseBounds
    <3>3. ~hist'.bad
      BY <2>1, <2>13, <3>2 DEF Sized
    <3>4. \A n \in Names : Handle(GetVar(n)') =>
            /\ info'[n].size = GetVar(n)'.size /\ mem'[GetVar(n)'.id].size = GetVar(n)'.size
            /\ n \in path'.stored => mem'[GetVar(n)'.id].init
      BY <2>1, <2>5, <2>14, <2>16, <2>20, <3>2 DEF Sized
    <3> QED
      BY <3>3, <3>4 DEF Sized
  <2>23. Borrowed'
    <3>1. SUFFICES ASSUME Clean(LooseBorrows)'
                   PROVE  Borrowed'
      BY DEF Borrowed
    <3>2. Clean(LooseBorrows) /\ Clean({"set", "shadowed", "copied"})
      BY <2>13, <3>1, CleanBefore DEF LooseBorrows, Clean
    <3>3. \A t, b : \A n \in Locals, z \in Names : Lent(t, b, n, z) => n # y /\ Lent(t, b, n, z)'
      <4>1. ASSUME NEW t, NEW b, NEW n \in Locals, NEW z \in Names, Lent(t, b, n, z)
            PROVE  n # y /\ Lent(t, b, n, z)'
        <5>1. n # y
          BY <2>6, <4>1 DEF Lent
        <5> QED
          BY <2>5, <2>13, <2>14, <2>15, <4>1, <5>1 DEF Lent
      <4> QED
        BY <4>1
    <3>4. ~Held(blocks)
      <4>1. SUFFICES ASSUME NEW t \in tasks, NEW b \in t.block \cap blocks
                     PROVE  FALSE
        BY DEF Held
      <4>2. Handle(cg.vars[y]) /\ cg.vars[y].id = b
        BY <2>3, <2>4, <4>1 DEF Handle
      <4>3. b >= 3
        BY <2>1, <2>6, <3>2, <4>2 DEF OneName
      <4>4. PICK n \in Locals, z \in Names : Lent(t, b, n, z)
        BY <2>1, <3>2, <4>1, <4>3 DEF Borrowed
      <4>5. n = y
        BY <4>2, <4>4 DEF Lent
      <4> QED
        BY <3>3, <4>4, <4>5
    <3>5. ~hist'.dangling
      BY <2>1, <2>13, <3>2, <3>4 DEF Borrowed
    <3>6. \A t \in tasks : \A b \in t.block : b >= 3 => \E n \in Locals, z \in Names : Lent(t, b, n, z)'
      BY <2>1, <3>2, <3>3 DEF Borrowed
    <3>7. \A t \in tasks' : t.block \cap scope'.blocks = {}
      BY <2>1, <2>5, <2>15, <3>2 DEF Borrowed
    <3> QED
      BY <2>5, <3>5, <3>6, <3>7 DEF Borrowed
  <2> QED
    BY <2>18, <2>19, <2>21, <2>22, <2>23 DEF IInv
<1> QED
  BY <1>1, <1>2

(* SCOPE. *)
LEMMA ScopeStep ==
    ASSUME IInv, NEW s \in Statements, ReadScope(s)
    PROVE  IInv'
<1>1. Typed /\ Static /\ Unshadowed /\ Latest /\ OneName /\ Sized /\ Borrowed
  BY DEF IInv
<1>2. /\ ~scope.open /\ hist' = Note({}, FALSE, {})
      /\ UNCHANGED <<info, path, borrows, reassigned, cg, mem, tasks>>
  BY DEF ReadScope
<1>3. /\ scope'.open /\ scope'.saved = cg.vars /\ scope'.allocs = {} /\ scope'.blocks = {} /\ scope.blocks = {}
      /\ scope' = [open |-> TRUE, saved |-> cg.vars, allocs |-> {}, frees |-> {}, blocks |-> {}]
  BY <1>1, <1>2 DEF ReadScope, NoScope, Static
<1>4. PICK N : N = hist'
  OBVIOUS
<1>5. /\ N \in Hist /\ N.meaning = hist.meaning /\ (N.bad => hist.bad) /\ N.dangling = hist.dangling
      /\ (N.misread => hist.misread \/ Misread({})) /\ \A u : u \in hist.loose => u \in N.loose
  <2>1. N = Note({}, FALSE, {})
    BY <1>2, <1>4
  <2> QED
    <3>1. Noted(N, {}, FALSE, {})
      BY <1>1, <2>1, NoteFacts, Zenon
    <3> QED
      BY ONLY <3>1, Zenon DEF Noted
<1>6. /\ hist' \in Hist /\ hist'.meaning = hist.meaning /\ (hist'.bad => hist.bad)
      /\ (hist'.dangling => hist.dangling) /\ (hist'.misread => hist.misread) /\ hist.loose \subseteq hist'.loose
  BY <1>4, <1>5 DEF Misread
<1>7. \A S : Clean(S)' => Clean(S)
  BY <1>6 DEF Clean
<1>8. \A n \in Names : GetVar(n)' = GetVar(n)
  BY <1>2 DEF GetVar
<1>9. Typed'
  BY <1>1, <1>2, <1>3, <1>6 DEF Typed
<1>10. Static'
  BY <1>1, <1>2, <1>3, <1>6 DEF Static
<1>11. Unshadowed'
  BY <1>1, <1>2, <1>3, <1>7 DEF Unshadowed
<1>12. Latest'
  BY <1>1, <1>6, <1>7, <1>8 DEF Latest
<1>13. OneName'
  <2>1. SUFFICES ASSUME Clean({"set", "shadowed", "copied"})'
                 PROVE  OneName'
    BY DEF OneName
  <2>2. Clean({"set", "shadowed", "copied"})
    BY <1>7, <2>1
  <2>3. \A n \in Names : Handle(cg.vars[n]) => cg.vars[n] # NoValue
    BY NameFacts DEF Handle
  <2>4. /\ \A m, n \in Names : Handle(cg'.vars[m]) /\ Handle(cg'.vars[n]) /\ cg'.vars[m].id = cg'.vars[n].id => m = n
        /\ \A n \in Locals : Handle(cg'.vars[n]) => cg'.vars[n].id >= 3 /\ n \in path'.allocs
        /\ \A n \in Names \ path'.freed : Handle(GetVar(n)') => mem'[GetVar(n)'.id].live
    BY <1>1, <1>2, <1>8, <2>2 DEF OneName
  <2> QED
    BY <1>2, <1>3, <2>3, <2>4 DEF OneName
<1>14. Sized'
  <2>1. SUFFICES ASSUME Clean(LooseBounds)'
                 PROVE  Sized'
    BY DEF Sized
  <2>2. Clean(LooseBounds)
    BY <1>6, <2>1, CleanBefore DEF LooseBounds
  <2> QED
    BY <1>1, <1>2, <1>6, <1>8, <2>2 DEF Sized
<1>15. Borrowed'
  <2>1. SUFFICES ASSUME Clean(LooseBorrows)'
                 PROVE  Borrowed'
    BY DEF Borrowed
  <2>2. Clean(LooseBorrows)
    BY <1>6, <2>1, CleanBefore DEF LooseBorrows
  <2>3. \A t, b, y, x : Lent(t, b, y, x) => Lent(t, b, y, x)'
    <3>1. SUFFICES ASSUME NEW t, NEW b, NEW y, NEW x, Lent(t, b, y, x)
                   PROVE  Lent(t, b, y, x)'
      OBVIOUS
    <3>2. /\ borrows' = borrows /\ path' = path /\ cg' = cg /\ reassigned' = reassigned
          /\ scope'.saved = cg.vars /\ hist'.meaning = hist.meaning
      BY <1>2, <1>3, <1>6
    <3>3. /\ <<y, x>> \in borrows' /\ y \in path'.allocs /\ y \notin path'.freed
          /\ cg'.vars[y] # NoValue /\ scope'.saved[y] # NoValue
          /\ \A n \in Names : Handle(cg'.vars[n]) /\ cg'.vars[n].id = b => n = y
      BY <3>1, <3>2 DEF Lent
    <3>4. x \notin reassigned' =>
            /\ hist'.meaning[x] # NoValue
            /\ cg'.vars[x].kind = "int" => cg'.vars[x].id = t.id
            /\ scope'.saved[x].kind = "int" => scope'.saved[x].id = t.id
      BY <3>1, <3>2 DEF Lent
    <3> QED
      BY <3>3, <3>4 DEF Lent
  <2> QED
    BY <1>1, <1>2, <1>3, <1>6, <2>2, <2>3 DEF Borrowed
<1> QED
  BY <1>9, <1>10, <1>11, <1>12, <1>13, <1>14, <1>15 DEF IInv

(* END_SCOPE: what is lent was allocated before the SCOPE, and is neither  *)
(* freed with it nor forgotten.                                            *)
LEMMA EndScopeStep ==
    ASSUME IInv, NEW s \in Statements, ReadEndScope(s)
    PROVE  IInv'
<1>1. CASE Reject
  BY <1>1, QuietStep DEF Reject
<1>2. CASE ~Reject
  <2>1. Typed /\ Static /\ Unshadowed /\ Latest /\ OneName /\ Sized /\ Borrowed
    BY DEF IInv
  <2>2. PICK auto : auto = scope.allocs \ scope.frees
    OBVIOUS
  <2>3. /\ scope.open
        /\ path' = [path EXCEPT !.freed = @ \cup auto]
        /\ cg' = [cg EXCEPT !.vars = scope.saved]
        /\ mem' = Release(scope.blocks)
        /\ scope' = NoScope
        /\ hist' = [Note({}, FALSE, {}) EXCEPT !.dangling = @ \/ Held(scope.blocks)]
        /\ UNCHANGED <<info, borrows, reassigned, tasks>>
    BY <1>2, <2>2 DEF ReadEndScope
  <2>4. auto \subseteq scope.allocs /\ scope.allocs \subseteq Names /\ scope.saved \in [Names -> Val]
    BY <2>1, <2>2, <2>3, NameFacts DEF Typed
  <2>5. PICK N : N = Note({}, FALSE, {})
    OBVIOUS
  <2>6. /\ N \in Hist /\ N.meaning = hist.meaning /\ (N.bad => hist.bad) /\ N.dangling = hist.dangling
        /\ (N.misread => hist.misread \/ Misread({})) /\ \A u : u \in hist.loose => u \in N.loose
    <3>1. Noted(N, {}, FALSE, {})
      BY <2>1, <2>5, NoteFacts, Zenon
    <3> QED
      BY ONLY <3>1, Zenon DEF Noted
  <2>7. PICK e \in BOOLEAN : e = (N.dangling \/ Held(scope.blocks))
    BY Zenon
  <2>8. PICK H : H = hist'
    OBVIOUS
  <2>9. H = Dangles(N, e)
    BY <2>3, <2>5, <2>7, <2>8, Zenon DEF Dangles
  <2>10. /\ H \in Hist /\ H.meaning = N.meaning
         /\ H.bad = N.bad /\ H.misread = N.misread /\ H.dangling = e /\ H.loose = N.loose
    <3>1. Dangled(H, N, e)
      BY ONLY <2>6, <2>9, e \in BOOLEAN, DanglesHist, Zenon
    <3> QED
      BY ONLY <3>1, Zenon DEF Dangled
  <2>11. /\ hist' \in Hist /\ hist'.meaning = hist.meaning /\ hist.loose \subseteq hist'.loose
         /\ (hist'.bad => hist.bad) /\ (hist'.misread => hist.misread)
         /\ (hist'.dangling => hist.dangling \/ Held(scope.blocks))
    BY <2>6, <2>7, <2>8, <2>10 DEF Misread
  <2>12. /\ path'.freed = path.freed \cup auto /\ path'.stored = path.stored /\ path'.allocs = path.allocs
         /\ path' \in [freed : SUBSET Names, stored : SUBSET Names, allocs : SUBSET Names]
    <3>1. path \in [freed : SUBSET Names, stored : SUBSET Names, allocs : SUBSET Names]
      BY <2>1 DEF Typed
    <3> QED
      BY <2>3, <2>4, <3>1
  <2>13. /\ cg' \in [vars : [Names -> Val], slot : [Names -> Val]] /\ cg'.vars = scope.saved /\ cg'.slot = cg.slot
    <3>1. cg \in [vars : [Names -> Val], slot : [Names -> Val]]
      BY <2>1 DEF Typed
    <3> QED
      BY <2>3, <2>4, <3>1
  <2>14. ~scope'.open /\ scope'.allocs = {} /\ scope'.blocks = {}
    BY <2>3 DEF NoScope
  <2>15. /\ mem' \in Seq(BlockRec) /\ Len(mem') = Len(mem)
         /\ \A i \in 1 .. Len(mem) : mem'[i].size = mem[i].size /\ mem'[i].init = mem[i].init
                                     /\ (i \notin scope.blocks => mem'[i].live = mem[i].live)
    BY <2>1, <2>3, ReleaseFacts
  <2>16. Typed'
    <3>1. scope' \in [open : BOOLEAN, saved : [Names -> Val] \cup {<<>>}, allocs : SUBSET Locals,
                      frees : SUBSET Names, blocks : SUBSET Nat]
      BY <2>3 DEF NoScope
    <3> QED
      BY <2>1, <2>3, <2>11, <2>12, <2>13, <2>14, <2>15, <3>1 DEF Typed
  <2>17. Static'
    <3>1. /\ cg'.vars[In] = cg.vars[In] /\ cg'.vars[Out] = cg.vars[Out]
          /\ \A n \in Names : Handle(cg'.vars[n]) => cg'.vars[n].id \in 1 .. Len(mem')
          /\ \A n \in Names : hist'.meaning[n] = NoValue => cg'.vars[n] = NoValue
      BY <2>1, <2>3, <2>11, <2>13, <2>15 DEF Static
    <3>2. \A n \in Names : cg'.slot[n] # NoValue => n \in reassigned /\ IsScalar(cg'.slot[n])
      BY <2>1, <2>13 DEF Static
    <3>3. Len(mem') >= 2 /\ \A t \in tasks : t.block \subseteq 1 .. Len(mem')
      BY <2>1, <2>15 DEF Static
    <3>4. scope'.blocks \subseteq 3 .. Len(mem')
      BY <2>14
    <3> QED
      BY <2>1, <2>3, <2>14, <3>1, <3>2, <3>3, <3>4 DEF Static
  <2>18. Clean({"set", "shadowed"}) => \A n \in Names : cg'.vars[n] = NoValue \/ cg'.vars[n] = cg.vars[n]
    BY <2>1, <2>3, <2>13 DEF Unshadowed
  <2>19. Unshadowed'
    <3>1. SUFFICES ASSUME Clean({"set", "shadowed"})', NEW n \in reassigned
                   PROVE  cg'.vars[n].kind \in {"none", "handle"}
      BY <2>3, <2>14 DEF Unshadowed
    <3>2. Clean({"set", "shadowed"})
      BY <2>11, <3>1, CleanBefore
    <3>3. n \in Names
      BY <2>1, NameFacts DEF Typed
    <3> QED
      BY <2>1, <2>18, <3>2, <3>3, NameFacts DEF Unshadowed
  <2>20. Clean({"set", "shadowed"}) => \A n \in Names : GetVar(n)' # NoValue => GetVar(n)' = GetVar(n)
    BY <2>13, <2>18 DEF GetVar
  <2>21. Latest'
    <3>1. SUFFICES ASSUME Clean({"set", "mixed", "shadowed"})'
                   PROVE  Latest'
      BY DEF Latest
    <3>2. Clean({"set", "mixed", "shadowed"}) /\ Clean({"set", "shadowed"})
      BY <2>11, <3>1, CleanBefore DEF Clean
    <3> QED
      BY <2>1, <2>11, <2>20, <3>2 DEF Latest
  <2>22. ASSUME Clean({"set", "shadowed"}), NEW n \in Names, Handle(GetVar(n)')
         PROVE  /\ GetVar(n)' = GetVar(n) /\ GetVar(n) = cg.vars[n] /\ GetVar(n).id \in 1 .. Len(mem)
                /\ scope.saved[n] # NoValue
    <3>1. GetVar(n)' # NoValue
      BY <2>22, NameFacts DEF Handle
    <3>2. GetVar(n)' = GetVar(n)
      BY <2>20, <2>22, <3>1
    <3>3. GetVar(n) = cg.vars[n] /\ GetVar(n).id \in 1 .. Len(mem) /\ cg.slot[n] = NoValue
      BY <2>1, <2>22, <3>2, GetVarFacts
    <3>4. GetVar(n)' = scope.saved[n]
      BY <2>13, <3>3 DEF GetVar
    <3> QED
      BY <3>1, <3>2, <3>3, <3>4
  <2>23. OneName'
    <3>1. SUFFICES ASSUME Clean({"set", "shadowed", "copied"})'
                   PROVE  OneName'
      BY DEF OneName
    <3>2. Clean({"set", "shadowed", "copied"}) /\ Clean({"set", "shadowed"})
      BY <2>11, <3>1, CleanBefore DEF Clean
    <3>3. \A n \in Names : Handle(cg'.vars[n]) => cg'.vars[n] = cg.vars[n]
      BY <2>18, <3>2, NameFacts DEF Handle
    <3>4. ASSUME NEW n \in Names \ path'.freed, Handle(GetVar(n)')
          PROVE  mem'[GetVar(n)'.id].live
      <4>1. /\ GetVar(n)' = GetVar(n) /\ GetVar(n) = cg.vars[n] /\ GetVar(n).id \in 1 .. Len(mem)
            /\ scope.saved[n] # NoValue
        BY <2>22, <3>2, <3>4
      <4>2. n \notin path.freed /\ Handle(GetVar(n))
        BY <2>12, <3>4, <4>1
      <4>3. mem[GetVar(n).id].live /\ GetVar(n).id \notin scope.blocks
        BY <2>1, <2>3, <3>2, <4>1, <4>2 DEF OneName
      <4> QED
        BY <2>15, <4>1, <4>3
    <3>5. /\ \A m, n \in Names : Handle(cg'.vars[m]) /\ Handle(cg'.vars[n]) /\ cg'.vars[m].id = cg'.vars[n].id => m = n
          /\ \A n \in Locals : Handle(cg'.vars[n]) => cg'.vars[n].id >= 3 /\ n \in path'.allocs
      BY <2>1, <2>12, <3>2, <3>3, NameFacts DEF OneName
    <3> QED
      BY <2>14, <3>4, <3>5 DEF OneName
  <2>24. Sized'
    <3>1. SUFFICES ASSUME Clean(LooseBounds)'
                   PROVE  Sized'
      BY DEF Sized
    <3>2. Clean(LooseBounds) /\ Clean({"set", "shadowed"})
      BY <2>11, <3>1, CleanBefore DEF LooseBounds, Clean
    <3>3. ~hist'.bad
      BY <2>1, <2>11, <3>2 DEF Sized
    <3>4. ASSUME NEW n \in Names, Handle(GetVar(n)')
          PROVE  /\ info'[n].size = GetVar(n)'.size /\ mem'[GetVar(n)'.id].size = GetVar(n)'.size
                 /\ n \in path'.stored => mem'[GetVar(n)'.id].init
      <4>1. GetVar(n)' = GetVar(n) /\ GetVar(n).id \in 1 .. Len(mem)
        BY <2>22, <3>2, <3>4
      <4>2. /\ info[n].size = GetVar(n).size /\ mem[GetVar(n).id].size = GetVar(n).size
            /\ n \in path.stored => mem[GetVar(n).id].init
        BY <2>1, <3>2, <3>4, <4>1 DEF Sized
      <4> QED
        BY <2>3, <2>12, <2>15, <4>1, <4>2
    <3> QED
      BY <3>3, <3>4 DEF Sized
  <2>25. Borrowed'
    <3>1. SUFFICES ASSUME Clean(LooseBorrows)'
                   PROVE  Borrowed'
      BY DEF Borrowed
    <3>2. Clean(LooseBorrows) /\ Clean({"set", "shadowed"})
      BY <2>11, <3>1, CleanBefore DEF LooseBorrows, Clean
    <3>3. ~Held(scope.blocks)
      BY <2>1, <3>2 DEF Borrowed, Held
    <3>4. ~hist'.dangling
      BY <2>1, <2>11, <3>2, <3>3 DEF Borrowed
    <3>5. ASSUME NEW t, NEW b, NEW y \in Locals, NEW x \in Names, Lent(t, b, y, x)
          PROVE  Lent(t, b, y, x)'
      <4>1. scope.saved[y] # NoValue /\ y \in path.allocs /\ y \notin path.freed
        BY <2>3, <3>5 DEF Lent
      <4>2. y \notin auto
        BY <2>1, <2>3, <2>4, <3>2, <4>1 DEF Unshadowed
      <4>3. \A n \in Names : Handle(cg'.vars[n]) /\ cg'.vars[n].id = b => n = y
        BY <2>18, <3>2, <3>5, NameFacts DEF Lent, Handle
      <4>4. x \notin reassigned =>
              hist'.meaning[x] # NoValue /\ (cg'.vars[x].kind = "int" => cg'.vars[x].id = t.id)
        BY <2>3, <2>11, <2>13, <3>5 DEF Lent
      <4>5. y \in path'.allocs /\ y \notin path'.freed /\ cg'.vars[y] # NoValue /\ <<y, x>> \in borrows'
        BY <2>3, <2>12, <2>13, <3>5, <4>1, <4>2 DEF Lent
      <4> QED
        BY <2>3, <2>14, <4>3, <4>4, <4>5 DEF Lent
    <3>6. \A t \in tasks : \A b \in t.block : b >= 3 => \E y \in Locals, x \in Names : Lent(t, b, y, x)'
      BY <2>1, <3>2, <3>5 DEF Borrowed
    <3>7. \A t \in tasks' : t.block \cap scope'.blocks = {}
      BY <2>14
    <3> QED
      BY <2>3, <3>4, <3>6, <3>7 DEF Borrowed
  <2> QED
    BY <2>16, <2>17, <2>19, <2>21, <2>23, <2>24, <2>25 DEF IInv
<1> QED
  BY <1>1, <1>2

(* The end of the body: every allocated name has been freed, so nothing is *)
(* lent any more.                                                          *)
LEMMA FinishStep ==
    ASSUME IInv, Finish
    PROVE  IInv'
<1>1. CASE ~(path.allocs \subseteq path.freed)
  BY <1>1, QuietStep DEF Finish
<1>2. CASE path.allocs \subseteq path.freed
  <2>1. Typed /\ Static /\ OneName /\ Sized /\ Borrowed
    BY DEF IInv
  <2>2. PICK blocks : blocks = 3 .. Len(mem)
    OBVIOUS
  <2>3. /\ ~scope.open /\ mem' = Release(blocks)
        /\ hist' = [hist EXCEPT !.dangling = @ \/ Held(blocks)]
        /\ UNCHANGED <<info, path, borrows, scope, reassigned, cg, tasks>>
    BY <1>2, <2>2 DEF Finish
  <2>4. PICK e \in BOOLEAN : e = (hist.dangling \/ Held(blocks))
    BY Zenon
  <2>5. PICK N \in Hist : N = hist
    BY <2>1 DEF Typed
  <2>6. PICK H : H = hist'
    OBVIOUS
  <2>7. H = Dangles(N, e)
    BY <2>3, <2>4, <2>5, <2>6, Zenon DEF Dangles
  <2>8. /\ H \in Hist /\ H.meaning = N.meaning
        /\ H.bad = N.bad /\ H.misread = N.misread /\ H.dangling = e /\ H.loose = N.loose
    <3>1. Dangled(H, N, e)
      BY ONLY <2>7, N \in Hist, e \in BOOLEAN, DanglesHist, Zenon
    <3> QED
      BY ONLY <3>1, Zenon DEF Dangled
  <2>9. /\ hist' \in Hist /\ hist'.meaning = hist.meaning /\ hist'.loose = hist.loose
        /\ (hist'.bad => hist.bad) /\ (hist'.misread => hist.misread)
        /\ (hist'.dangling => hist.dangling \/ Held(blocks))
    BY <2>4, <2>5, <2>6, <2>8
  <2>10. \A S : Clean(S)' <=> Clean(S)
    BY <2>9 DEF Clean
  <2>11. /\ mem' \in Seq(BlockRec) /\ Len(mem') = Len(mem)
         /\ \A i \in 1 .. Len(mem) : mem'[i].size = mem[i].size /\ mem'[i].init = mem[i].init
                                     /\ (i \notin blocks => mem'[i].live = mem[i].live)
    BY <2>1, <2>3, ReleaseFacts
  <2>12. Typed'
    BY <2>1, <2>3, <2>9, <2>11 DEF Typed
  <2>13. Static' /\ Unshadowed' /\ Latest'
    <3>1. SameNames
      BY <2>3, <2>9 DEF SameNames
    <3>2. tasks' \subseteq tasks /\ {} \in SUBSET Names /\ \A n \in {} : GetVar(n) # NoValue
      BY <2>3
    <3> QED
      BY <2>9, <2>11, <3>1, <3>2, SameNamesFacts
  <2>14. /\ \A n \in Names : GetVar(n)' = GetVar(n)
         /\ \A n \in Names : Handle(GetVar(n)) => GetVar(n) = cg.vars[n] /\ GetVar(n).id \in 1 .. Len(mem)
    BY <2>1, <2>3, GetVarFacts DEF GetVar
  <2>15. OneName'
    <3>1. SUFFICES ASSUME Clean({"set", "shadowed", "copied"})
                   PROVE  OneName'
      BY <2>10 DEF OneName
    <3>2. ASSUME NEW n \in Names \ path.freed, Handle(GetVar(n))
          PROVE  mem'[GetVar(n).id].live
      <4>1. n \notin Locals
        BY <1>2, <2>1, <2>14, <3>1, <3>2 DEF OneName
      <4>2. n \in {In, Out}
        BY <4>1, NameFacts
      <4>3. cg.vars[In].id = 1 /\ cg.vars[Out].id = 2
        BY <2>1 DEF Static, Value
      <4>4. GetVar(n).id \notin blocks
        BY <2>2, <2>14, <3>2, <4>2, <4>3
      <4>5. mem[GetVar(n).id].live
        BY <2>1, <3>1, <3>2 DEF OneName
      <4> QED
        BY <2>11, <2>14, <3>2, <4>4, <4>5
    <3> QED
      BY <2>1, <2>3, <2>14, <3>1, <3>2 DEF OneName
  <2>16. Sized'
    <3>1. SUFFICES ASSUME Clean(LooseBounds)
                   PROVE  Sized'
      BY <2>10 DEF Sized, LooseBounds, Clean
    <3>2. ~hist'.bad
      BY <2>1, <2>9, <3>1 DEF Sized
    <3>3. \A n \in Names : Handle(GetVar(n)') =>
            /\ info'[n].size = GetVar(n)'.size /\ mem'[GetVar(n)'.id].size = GetVar(n)'.size
            /\ n \in path'.stored => mem'[GetVar(n)'.id].init
      BY <2>1, <2>3, <2>11, <2>14, <3>1 DEF Sized
    <3> QED
      BY <3>2, <3>3 DEF Sized
  <2>17. Borrowed'
    <3>1. SUFFICES ASSUME Clean(LooseBorrows)
                   PROVE  Borrowed'
      BY <2>9 DEF Borrowed, LooseBorrows, Clean
    <3>2. \A t, b, y, x : Lent(t, b, y, x) => FALSE
      BY <1>2 DEF Lent
    <3>3. ~Held(blocks)
      <4>1. SUFFICES ASSUME NEW t \in tasks, NEW b \in t.block \cap blocks
                     PROVE  FALSE
        BY DEF Held
      <4>2. b >= 3
        BY <2>2, <4>1
      <4> QED
        BY <2>1, <3>1, <3>2, <4>1, <4>2 DEF Borrowed
    <3>4. ~hist'.dangling
      BY <2>1, <2>9, <3>1, <3>3 DEF Borrowed
    <3>5. /\ \A t \in tasks' : t.block \cap scope'.blocks = {}
          /\ \A t \in tasks' : \A b \in t.block : ~(b >= 3)
      BY <2>1, <2>3, <3>1, <3>2 DEF Borrowed
    <3> QED
      BY <3>4, <3>5 DEF Borrowed
  <2> QED
    BY <2>12, <2>13, <2>15, <2>16, <2>17 DEF IInv
<1> QED
  BY <1>1, <1>2

(* x = ALLOC size typ: the block is new, so no other name and no task has  *)
(* it, and the SCOPE that is open owns it.                                 *)
LEMMA AllocStep ==
    ASSUME IInv, NEW s \in Statements, ReadAlloc(s)
    PROVE  IInv'
<1>1. Typed /\ Static /\ Unshadowed /\ Latest /\ OneName /\ Sized /\ Borrowed
  BY DEF IInv
<1>2. s.op = "alloc" /\ Assignable(s.x)
  BY DEF ReadAlloc
<1>3. PICK x \in Locals : x = s.x /\ x \in Names
  BY <1>2, NameFacts DEF IsStatement
<1>4. PICK actual \in Nat : actual = IF s.form = "lit" THEN s.size ELSE DefaultSize
  BY <1>2, NameFacts DEF IsStatement
<1>5. PICK known \in Int : known = IF s.form = "dyn" THEN Unknown ELSE s.size
  BY <1>2, NameFacts DEF IsStatement, Unknown
<1>6. mem \in Seq(BlockRec)
  BY <1>1 DEF Typed
<1>7. PICK k \in Nat : k = Len(mem) + 1 /\ k \notin 1 .. Len(mem) /\ k >= 3
  <2>1. Len(mem) \in Nat /\ Len(mem) >= 2
    BY <1>1, <1>6 DEF Static
  <2> QED
    BY <2>1
<1>8. PICK v \in Val : /\ v = Value("handle", Len(mem) + 1, actual, s.typ)
                       /\ Handle(v) /\ v.id = k /\ v.size = actual /\ v.kind # "none"
  <2>1. s.typ \in {"Bytes", "Int", "Float"}
    BY <1>2, NameFacts DEF IsStatement
  <2>2. PICK w : w = Value("handle", k, actual, s.typ)
    OBVIOUS
  <2>3. w \in Val /\ w.kind = "handle" /\ w.id = k /\ w.size = actual
    BY <1>7, <2>1, <2>2 DEF Val, Value
  <2> QED
    BY <1>7, <2>2, <2>3 DEF Handle
<1>9. PICK i \in InfoRec : i = Info(s.typ, "Alloc", known, "Owned", s.shared) /\ i.state # "" /\ i.size = known
  <2>1. s.typ \in {"Bytes", "Int", "Float"} /\ s.shared \in BOOLEAN
    BY <1>2, NameFacts DEF IsStatement
  <2>2. PICK j : j = Info(s.typ, "Alloc", known, "Owned", s.shared)
    OBVIOUS
  <2>3. j \in InfoRec /\ j.state # "" /\ j.size = known
    BY <1>5, <2>1, <2>2 DEF InfoRec, Info
  <2> QED
    BY <2>2, <2>3
<1>10. PICK L \in SUBSET Loose : L = Uses("folded", s.form # "lit") \cup Uses("stale", x \in path.stored) \cup AssignUses(x, v)
  BY DEF AssignUses, Uses, Loose
<1>11. /\ info' = [info EXCEPT ![x] = i]
       /\ path' = [path EXCEPT !.freed = @ \ {x}, !.allocs = @ \cup {x}]
       /\ scope' = (IF scope.open THEN [scope EXCEPT !.allocs = @ \cup {x}, !.blocks = @ \cup {k}] ELSE scope)
       /\ cg' = Bind(x, v)
       /\ mem' = Append(mem, Block(actual, FALSE))
       /\ UNCHANGED <<borrows, reassigned, tasks>>
  BY <1>3, <1>4, <1>5, <1>7, <1>8, <1>9 DEF ReadAlloc
<1>12. PICK N : N = Note({}, FALSE, L)
  OBVIOUS
<1>13. /\ N \in Hist /\ N.meaning = hist.meaning /\ (N.bad => hist.bad) /\ N.dangling = hist.dangling
       /\ (N.misread => hist.misread \/ Misread({})) /\ \A u : u \in hist.loose \/ u \in L => u \in N.loose
  <2>1. Noted(N, {}, FALSE, L)
    BY <1>1, <1>12, NoteFacts, Zenon
  <2> QED
    BY ONLY <2>1, Zenon DEF Noted
<1>14. PICK H : H = hist'
  OBVIOUS
<1>15. H = Given(N, x, v)
  BY <1>3, <1>4, <1>8, <1>10, <1>12, <1>14 DEF ReadAlloc, Given
<1>16. /\ H \in Hist /\ H.meaning = [N.meaning EXCEPT ![x] = v]
       /\ H.bad = N.bad /\ H.misread = N.misread /\ H.dangling = N.dangling /\ H.loose = N.loose
  BY ONLY <1>3, <1>13, <1>15, v \in Val, GivenHist
<1>17. /\ hist' \in Hist /\ hist'.meaning = [hist.meaning EXCEPT ![x] = v]
       /\ (hist'.bad => hist.bad) /\ (hist'.misread => hist.misread \/ Misread({}))
       /\ (hist'.dangling => hist.dangling) /\ hist.loose \cup L \subseteq hist'.loose
  BY <1>13, <1>14, <1>16
<1>18. /\ mem' \in Seq(BlockRec) /\ Len(mem') = k /\ mem'[k] = Block(actual, FALSE)
       /\ \A j \in 1 .. Len(mem) : mem'[j] = mem[j]
  <2>1. PICK B : B = Block(actual, FALSE)
    OBVIOUS
  <2>2. B \in BlockRec
    BY <2>1 DEF Block, BlockRec
  <2>3. mem' = Append(mem, B)
    BY <1>11, <2>1
  <2>4. Append(mem, B) \in Seq(BlockRec) /\ Len(Append(mem, B)) = Len(mem) + 1
    BY ONLY <1>6, <2>2
  <2>5. Append(mem, B)[Len(mem) + 1] = B /\ \A j \in 1 .. Len(mem) : Append(mem, B)[j] = mem[j]
    BY ONLY <1>6, <2>2
  <2> QED
    BY <1>7, <2>1, <2>3, <2>4, <2>5
<1>19. mem'[k].live /\ mem'[k].size = actual
  BY <1>18 DEF Block
<1>20. /\ path'.freed = path.freed \ {x} /\ path'.stored = path.stored /\ path'.allocs = path.allocs \cup {x}
       /\ path' \in [freed : SUBSET Names, stored : SUBSET Names, allocs : SUBSET Names]
  <2>1. path \in [freed : SUBSET Names, stored : SUBSET Names, allocs : SUBSET Names]
    BY <1>1 DEF Typed
  <2> QED
    BY <1>3, <1>11, <2>1
<1>21. /\ scope'.open = scope.open /\ scope'.saved = scope.saved
       /\ scope.open => scope'.allocs = scope.allocs \cup {x} /\ scope'.blocks = scope.blocks \cup {k}
       /\ ~scope.open => scope' = scope
       /\ scope' \in [open : BOOLEAN, saved : [Names -> Val] \cup {<<>>}, allocs : SUBSET Locals,
                      frees : SUBSET Names, blocks : SUBSET Nat]
  <2>1. scope \in [open : BOOLEAN, saved : [Names -> Val] \cup {<<>>}, allocs : SUBSET Locals,
                   frees : SUBSET Names, blocks : SUBSET Nat]
    BY <1>1 DEF Typed
  <2>2. CASE scope.open
    BY <1>11, <2>1, <2>2
  <2>3. CASE ~scope.open
    BY <1>11, <2>1, <2>3
  <2> QED
    BY <2>2, <2>3
<1>22. Rebinds(x, v)
  <2>1. hist.loose \cup AssignUses(x, v) \subseteq hist'.loose
    BY <1>10, <1>17
  <2> QED
    BY <1>2, <1>3, <1>11, <1>17, <1>21, <2>1 DEF Rebinds
<1>23. Typed'
  <2>1. borrows' \subseteq Names \X Names /\ tasks' \subseteq [id : Nat, block : SUBSET Nat]
    BY <1>1, <1>11 DEF Typed
  <2>2. info' = [info EXCEPT ![x] = i]
    BY <1>11
  <2> QED
    BY <1>1, <1>8, <1>9, <1>17, <1>18, <1>20, <1>21, <1>22, <2>1, <2>2, RebindsTyped
<1>24. Static'
  <2>1. Len(mem) \in Nat /\ Len(mem') = Len(mem) + 1
    BY <1>6, <1>7, <1>18
  <2>2. Len(mem') >= Len(mem) /\ v.id \in 1 .. Len(mem')
    BY <1>7, <1>8, <2>1
  <2>3. scope'.blocks \subseteq 3 .. Len(mem') /\ (~scope.open => scope'.blocks = {})
    <3>1. scope.blocks \subseteq 3 .. Len(mem) /\ (~scope.open => scope.blocks = {})
      BY <1>1 DEF Static
    <3>2. scope.blocks \cup {k} \subseteq 3 .. Len(mem')
      BY <1>7, <2>1, <3>1
    <3> QED
      BY <1>21, <3>1, <3>2
  <2>4. \A n \in Names : n # x => info'[n] = info[n]
    BY <1>1, <1>3, <1>11 DEF Typed
  <2>5. \A t \in tasks' : t.block \subseteq 1 .. Len(mem')
    <3>1. \A t \in tasks : t.block \subseteq 1 .. Len(mem)
      BY <1>1 DEF Static
    <3> QED
      BY <1>11, <2>1, <3>1
  <2> QED
    BY <1>1, <1>8, <1>22, <1>23, <2>2, <2>3, <2>4, <2>5, RebindsStatic
<1>25. Unshadowed'
  <2>1. scope'.allocs \subseteq scope.allocs \cup {x}
    BY <1>21
  <2> QED
    BY <1>1, <1>8, <1>22, <2>1, RebindsUnshadowed
<1>26. Latest'
  <2>1. {} \in SUBSET Names /\ \A n \in {} : GetVar(n) # NoValue
    OBVIOUS
  <2> QED
    BY <1>1, <1>8, <1>17, <1>22, <2>1, RebindsLatest
<1>27. cg'.vars[x] = v /\ cg'.slot[x] = cg.slot[x] /\ \A n \in Names : n # x => cg'.vars[n] = cg.vars[n] /\ cg'.slot[n] = cg.slot[n]
  <2>1. ~IsScalar(v)
    BY <1>8 DEF IsScalar, Handle
  <2> QED
    BY <1>1, <1>8, <1>11, <2>1, BindFacts
<1>28. ASSUME NEW n \in Names, Handle(GetVar(n)')
       PROVE  /\ n = x => GetVar(n)' = v
              /\ n # x => GetVar(n)' = GetVar(n) /\ GetVar(n) = cg.vars[n] /\ GetVar(n).id \in 1 .. Len(mem)
  <2>1. CASE n = x
    <3>1. cg.slot[x] = NoValue
      <4>1. SUFFICES ASSUME cg.slot[x] # NoValue
                     PROVE  FALSE
        OBVIOUS
      <4>2. IsScalar(cg.slot[x]) /\ GetVar(n)' = cg.slot[x]
        BY <1>1, <1>3, <1>27, <2>1, <4>1 DEF Static, GetVar
      <4> QED
        BY <1>28, <4>2 DEF IsScalar, Handle
    <3> QED
      BY <1>27, <2>1, <3>1 DEF GetVar
  <2>2. CASE n # x
    <3>1. GetVar(n)' = GetVar(n)
      BY <1>27, <2>2 DEF GetVar
    <3> QED
      BY <1>1, <1>28, <2>2, <3>1, GetVarFacts
  <2> QED
    BY <2>1, <2>2
<1>29. OneName'
  <2>1. SUFFICES ASSUME Clean({"set", "shadowed", "copied"})'
                 PROVE  OneName'
    BY DEF OneName
  <2>2. Clean({"set", "shadowed", "copied"})
    BY <1>17, <2>1, CleanBefore
  <2>3. \A n \in Names : n # x /\ Handle(cg'.vars[n]) => cg'.vars[n] = cg.vars[n] /\ cg.vars[n].id \in 1 .. Len(mem)
    BY <1>1, <1>27 DEF Static
  <2>4. \A m, n \in Names : Handle(cg'.vars[m]) /\ Handle(cg'.vars[n]) /\ cg'.vars[m].id = cg'.vars[n].id => m = n
    BY <1>1, <1>7, <1>8, <1>27, <2>2, <2>3 DEF OneName
  <2>5. ASSUME NEW n \in Locals, Handle(cg'.vars[n])
        PROVE  cg'.vars[n].id >= 3 /\ n \in path'.allocs
    <3>1. CASE n = x
      BY <1>7, <1>8, <1>20, <1>27, <3>1
    <3>2. CASE n # x
      BY <1>1, <1>20, <2>2, <2>3, <2>5, <3>2, NameFacts DEF OneName
    <3> QED
      BY <3>1, <3>2
  <2>6. ASSUME scope.open, NEW n \in Names, Handle(cg'.vars[n])
        PROVE  scope.saved[n] = NoValue <=> cg'.vars[n].id \in scope'.blocks
    <3>1. CASE n = x
      <4>1. scope.saved[x] = NoValue
        <5>1. "shadowed" \notin AssignUses(x, v)
          BY <1>10, <1>17, <2>1 DEF Clean
        <5>2. ~IsScalar(v)
          BY <1>8 DEF IsScalar, Handle
        <5> QED
          BY <2>6, <5>1, <5>2 DEF AssignUses, Uses
      <4> QED
        BY <1>8, <1>21, <1>27, <2>6, <3>1, <4>1
    <3>2. CASE n # x
      BY <1>1, <1>7, <1>21, <2>2, <2>3, <2>6, <3>2 DEF OneName
    <3> QED
      BY <3>1, <3>2
  <2>7. ASSUME NEW n \in Names \ path'.freed, Handle(GetVar(n)')
        PROVE  mem'[GetVar(n)'.id].live
    <3>1. CASE n = x
      BY <1>8, <1>19, <1>28, <2>7, <3>1
    <3>2. CASE n # x
      <4>1. GetVar(n)' = GetVar(n) /\ GetVar(n).id \in 1 .. Len(mem) /\ n \in Names \ path.freed /\ Handle(GetVar(n))
        BY <1>20, <1>28, <2>7, <3>2
      <4>2. mem[GetVar(n).id].live
        BY <1>1, <2>2, <4>1 DEF OneName
      <4> QED
        BY <1>18, <4>1, <4>2
    <3> QED
      BY <3>1, <3>2
  <2> QED
    BY <1>21, <2>4, <2>5, <2>6, <2>7 DEF OneName
<1>30. Sized'
  <2>1. SUFFICES ASSUME Clean(LooseBounds)'
                 PROVE  Sized'
    BY DEF Sized
  <2>2. Clean(LooseBounds)
    BY <1>17, <2>1, CleanBefore DEF LooseBounds
  <2>3. ~hist'.bad
    BY <1>1, <1>17, <2>2 DEF Sized
  <2>4. s.form = "lit" /\ x \notin path.stored
    BY <1>10, <1>17, <2>1 DEF Clean, LooseBounds, Uses
  <2>5. ASSUME NEW n \in Names, Handle(GetVar(n)')
        PROVE  /\ info'[n].size = GetVar(n)'.size /\ mem'[GetVar(n)'.id].size = GetVar(n)'.size
               /\ n \in path'.stored => mem'[GetVar(n)'.id].init
    <3>1. CASE n = x
      <4>1. info'[x] = i
        BY <1>1, <1>3, <1>11 DEF Typed
      <4>2. known = actual
        BY <1>4, <1>5, <2>4
      <4> QED
        BY <1>8, <1>9, <1>19, <1>20, <1>28, <2>4, <2>5, <3>1, <4>1, <4>2
    <3>2. CASE n # x
      <4>1. GetVar(n)' = GetVar(n) /\ GetVar(n).id \in 1 .. Len(mem)
        BY <1>28, <2>5, <3>2
      <4>2. info'[n] = info[n]
        BY <1>1, <1>11, <3>2 DEF Typed
      <4>3. /\ info[n].size = GetVar(n).size /\ mem[GetVar(n).id].size = GetVar(n).size
            /\ n \in path.stored => mem[GetVar(n).id].init
        BY <1>1, <2>2, <2>5, <4>1 DEF Sized
      <4> QED
        BY <1>18, <1>20, <4>1, <4>2, <4>3
    <3> QED
      BY <3>1, <3>2
  <2> QED
    BY <2>3, <2>5 DEF Sized
<1>31. Borrowed'
  <2>1. SUFFICES ASSUME Clean(LooseBorrows)'
                 PROVE  Borrowed'
    BY DEF Borrowed
  <2>2. Clean(LooseBorrows)
    BY <1>17, <2>1, CleanBefore DEF LooseBorrows
  <2>3. ~hist'.dangling
    BY <1>1, <1>17, <2>2 DEF Borrowed
  <2>4. \A t \in tasks : k \notin t.block
    BY <1>1, <1>7 DEF Static
  <2>5. \A t \in tasks' : t.block \cap scope'.blocks = {}
    <3>1. \A t \in tasks : t.block \cap scope.blocks = {}
      BY <1>1, <2>2 DEF Borrowed
    <3>2. scope'.blocks \subseteq scope.blocks \cup {k}
      BY <1>21
    <3> QED
      BY <1>11, <2>4, <3>1, <3>2
  <2>6. ASSUME NEW t \in tasks, NEW b \in t.block, b >= 3
        PROVE  \E y \in Locals, z \in Names : Lent(t, b, y, z)'
    <3>1. PICK y \in Locals, z \in Names : Lent(t, b, y, z)
      BY <1>1, <2>2, <2>6 DEF Borrowed
    <3>2. <<y, z>> \in borrows'
      BY <1>11, <3>1 DEF Lent
    <3>3. ~(Handle(v) /\ v.id = b)
      BY <1>8, <2>4
    <3>4. path.allocs \subseteq path'.allocs /\ path'.freed \subseteq path.freed
      BY <1>20
    <3>5. Lent(t, b, y, z)'
      BY <1>1, <1>8, <1>22, <3>1, <3>2, <3>3, <3>4, RebindsLent
    <3> QED
      BY <3>5
  <2> QED
    BY <1>11, <2>3, <2>5, <2>6 DEF Borrowed
<1> QED
  BY <1>23, <1>24, <1>25, <1>26, <1>29, <1>30, <1>31 DEF IInv

-----------------------------------------------------------------------------
(* The invariant *)

(* A body that begins. *)
LEMMA InvInit == LeafInit => IInv
<1> SUFFICES ASSUME LeafInit
             PROVE  IInv
  OBVIOUS
<1>1. PICK actual \in {InSize, InSize \div 2} :
        /\ mem = <<Block(actual, TRUE), Block(OutSize, FALSE)>>
        /\ hist = [len |-> 0, meaning |-> cg.vars, bad |-> FALSE, misread |-> FALSE, dangling |-> FALSE,
                   loose |-> IF actual < InSize THEN {"short"} ELSE {}]
  BY DEF LeafInit
<1>2. actual \in Nat /\ InSize \in Nat /\ OutSize \in Nat
  BY <1>1, NameFacts
<1>3. PICK w1 \in Val, w2 \in Val :
        /\ w1 = Value("handle", 1, InSize, "Bytes") /\ w2 = Value("handle", 2, OutSize, "Int")
        /\ Handle(w1) /\ Handle(w2) /\ w1.id = 1 /\ w2.id = 2 /\ w1.size = InSize /\ w2.size = OutSize
  <2>1. PICK u1, u2 : u1 = Value("handle", 1, InSize, "Bytes") /\ u2 = Value("handle", 2, OutSize, "Int")
    OBVIOUS
  <2>2. /\ u1 \in Val /\ u1.kind = "handle" /\ u1.id = 1 /\ u1.size = InSize
        /\ u2 \in Val /\ u2.kind = "handle" /\ u2.id = 2 /\ u2.size = OutSize
    BY <1>2, <2>1 DEF Val, Value
  <2> QED
    BY <2>1, <2>2 DEF Handle
<1>4. /\ cg = [vars |-> [n \in Names |-> CASE n = In -> w1 [] n = Out -> w2 [] OTHER -> NoValue],
               slot |-> [n \in Names |-> NoValue]]
  BY <1>3 DEF LeafInit
<1>5. /\ cg.vars \in [Names -> Val] /\ cg.slot \in [Names -> Val]
      /\ cg.vars[In] = w1 /\ cg.vars[Out] = w2 /\ \A n \in Locals : cg.vars[n] = NoValue
      /\ \A n \in Names : cg.slot[n] = NoValue
      /\ cg \in [vars : [Names -> Val], slot : [Names -> Val]]
  BY <1>3, <1>4, NameFacts
<1>6. PICK i1 \in InfoRec, i2 \in InfoRec :
        /\ i1 = Info("Bytes", "Input", InSize, "Borrowed", FALSE) /\ i2 = Info("Int", "Output", OutSize, "Borrowed", FALSE)
        /\ i1.state = "Borrowed" /\ i2.state = "Borrowed" /\ i1.size = InSize /\ i2.size = OutSize
  <2>1. PICK u1, u2 : /\ u1 = Info("Bytes", "Input", InSize, "Borrowed", FALSE)
                      /\ u2 = Info("Int", "Output", OutSize, "Borrowed", FALSE)
    OBVIOUS
  <2>2. /\ u1 \in InfoRec /\ u1.state = "Borrowed" /\ u1.size = InSize
        /\ u2 \in InfoRec /\ u2.state = "Borrowed" /\ u2.size = OutSize
    BY <1>2, <2>1 DEF InfoRec, Info
  <2> QED
    BY <2>1, <2>2
<1>7. Undefined \in InfoRec
  <2>1. Unknown \in Int
    BY DEF Unknown
  <2> QED
    BY <2>1 DEF Undefined, Info, InfoRec
<1>8. info = [n \in Names |-> CASE n = In -> i1 [] n = Out -> i2 [] OTHER -> Undefined]
  BY <1>6 DEF LeafInit
<1>9. /\ info \in [Names -> InfoRec] /\ info[In] = i1 /\ info[Out] = i2 /\ \A n \in Locals : info[n] = Undefined
  BY <1>6, <1>7, <1>8, NameFacts
<1>10. /\ mem \in Seq(BlockRec) /\ Len(mem) = 2 /\ mem[1] = Block(actual, TRUE) /\ mem[2] = Block(OutSize, FALSE)
       /\ mem[1].live /\ mem[1].init /\ mem[1].size = actual /\ mem[2].live /\ mem[2].size = OutSize
  <2>1. PICK B1, B2 : B1 = Block(actual, TRUE) /\ B2 = Block(OutSize, FALSE)
    OBVIOUS
  <2>2. /\ B1 \in BlockRec /\ B2 \in BlockRec /\ B1.live /\ B1.init /\ B1.size = actual /\ B2.live /\ B2.size = OutSize
    BY <1>2, <2>1 DEF Block, BlockRec
  <2>3. mem = <<B1, B2>>
    BY <1>1, <2>1
  <2>4. mem \in Seq(BlockRec) /\ Len(mem) = 2 /\ mem[1] = B1 /\ mem[2] = B2
    BY ONLY <2>2, <2>3
  <2> QED
    BY <2>1, <2>2, <2>4
<1>11. /\ path = [freed |-> {}, stored |-> {In}, allocs |-> {}] /\ borrows = {} /\ scope = NoScope
       /\ reassigned \subseteq Locals /\ tasks = {}
  BY DEF LeafInit
<1>12. ~scope.open /\ scope.blocks = {} /\ path.stored = {In}
  BY <1>11 DEF NoScope
<1>13. PICK L \in SUBSET Loose : L = (IF actual < InSize THEN {"short"} ELSE {})
  BY DEF Loose
<1>14. /\ hist \in Hist /\ ~hist.bad /\ ~hist.misread /\ ~hist.dangling /\ hist.meaning = cg.vars /\ hist.loose = L
  <2>1. hist = [len |-> 0, meaning |-> cg.vars, bad |-> FALSE, misread |-> FALSE, dangling |-> FALSE, loose |-> L]
    BY <1>1, <1>13
  <2> QED
    BY <1>5, <2>1 DEF Hist
<1>15. Typed
  <2>1. scope \in [open : BOOLEAN, saved : [Names -> Val] \cup {<<>>}, allocs : SUBSET Locals,
                   frees : SUBSET Names, blocks : SUBSET Nat]
    BY <1>11 DEF NoScope
  <2>2. path \in [freed : SUBSET Names, stored : SUBSET Names, allocs : SUBSET Names]
    BY <1>11, NameFacts
  <2>3. \A n \in Names : info[n].state = "" => info[n] = Undefined
    BY <1>6, <1>9, NameFacts
  <2> QED
    BY <1>5, <1>9, <1>10, <1>11, <1>12, <1>14, <2>1, <2>2, <2>3 DEF Typed
<1>16. Static
  <2>1. \A n \in Names : Handle(cg.vars[n]) => cg.vars[n].id \in 1 .. Len(mem)
    BY <1>3, <1>5, <1>10, NameFacts DEF Handle
  <2>2. scope.blocks \subseteq 3 .. Len(mem) /\ \A t \in tasks : t.block \subseteq 1 .. Len(mem)
    BY <1>11, <1>12
  <2>3. info[In].state = "Borrowed" /\ info[Out].state = "Borrowed" /\ Len(mem) >= 2
    <3>1. Len(mem) >= 2
      BY ONLY <1>10
    <3> QED
      BY <1>6, <1>9, <3>1
  <2>4. cg.vars[In] = Value("handle", 1, InSize, "Bytes") /\ cg.vars[Out] = Value("handle", 2, OutSize, "Int")
    BY <1>3, <1>5
  <2> QED
    BY <1>5, <1>12, <1>14, <2>1, <2>2, <2>3, <2>4 DEF Static
<1>17. \A n \in Names : GetVar(n) = cg.vars[n]
  BY <1>5 DEF GetVar
<1>18. Unshadowed /\ Latest
  BY <1>5, <1>11, <1>12, <1>14, <1>17, NameFacts DEF Unshadowed, Latest
<1>19. OneName
  <2>1. \A m, n \in Names : Handle(cg.vars[m]) /\ Handle(cg.vars[n]) /\ cg.vars[m].id = cg.vars[n].id => m = n
    BY <1>3, <1>5, NameFacts DEF Handle
  <2>2. \A n \in Locals : ~Handle(cg.vars[n])
    BY <1>5, NameFacts DEF Handle
  <2>3. ASSUME NEW n \in Names, Handle(GetVar(n))
        PROVE  mem[GetVar(n).id].live
    <3>1. n \in {In, Out}
      BY <1>17, <2>2, <2>3, NameFacts
    <3>2. GetVar(n).id = 1 \/ GetVar(n).id = 2
      BY <1>3, <1>5, <1>17, <3>1
    <3>3. mem[1].live /\ mem[2].live
      BY ONLY <1>10
    <3> QED
      BY ONLY <3>2, <3>3
  <2> QED
    BY <1>12, <2>1, <2>2, <2>3 DEF OneName
<1>20. Sized
  <2>1. SUFFICES ASSUME Clean(LooseBounds)
                 PROVE  Sized
    BY DEF Sized
  <2>2. actual = InSize
    <3>1. ~(actual < InSize)
      BY <1>13, <1>14, <2>1 DEF Clean, LooseBounds
    <3> QED
      BY <1>1, <1>2, <3>1
  <2>3. \A n \in Locals : ~Handle(GetVar(n))
    BY <1>5, <1>17, NameFacts DEF Handle
  <2>4. ASSUME NEW n \in Names, Handle(GetVar(n))
        PROVE  /\ info[n].size = GetVar(n).size /\ mem[GetVar(n).id].size = GetVar(n).size
               /\ n \in path.stored => mem[GetVar(n).id].init
    <3>1. CASE n = In
      <4>1. GetVar(n).id = 1 /\ GetVar(n).size = InSize /\ info[n].size = InSize
        BY <1>3, <1>5, <1>6, <1>9, <1>17, <3>1
      <4>2. mem[1].init /\ mem[1].size = InSize
        BY ONLY <1>10, <2>2
      <4> QED
        BY ONLY <4>1, <4>2
    <3>2. CASE n = Out
      <4>1. GetVar(n).id = 2 /\ GetVar(n).size = OutSize /\ info[n].size = OutSize
        BY <1>3, <1>5, <1>6, <1>9, <1>17, <3>2
      <4>2. mem[2].size = OutSize
        BY ONLY <1>10
      <4>3. n \notin path.stored
        BY <1>12, <3>2, NameFacts
      <4> QED
        BY ONLY <4>1, <4>2, <4>3
    <3> QED
      BY <2>3, <2>4, <3>1, <3>2, NameFacts
  <2> QED
    BY <1>14, <2>4 DEF Sized
<1>21. Borrowed
  BY <1>11, <1>14 DEF Borrowed
<1> QED
  BY <1>15, <1>16, <1>18, <1>19, <1>20, <1>21 DEF IInv

(* Every statement, and the end of the body, keeps the invariant. *)
LEMMA InvStep == IInv /\ [LeafNext]_leafVars => IInv'
<1> SUFFICES ASSUME IInv, [LeafNext]_leafVars
             PROVE  IInv'
  OBVIOUS
<1>1. ASSUME NEW s \in Statements,
             \/ ReadAlloc(s) \/ ReadAssign(s) \/ ReadArith(s) \/ ReadLoad(s) \/ ReadStore(s) \/ ReadSet(s)
             \/ ReadAtomic(s) \/ ReadSpawn(s) \/ ReadWait(s) \/ ReadWaitAll(s) \/ ReadFree(s) \/ ReadScope(s)
             \/ ReadEndScope(s)
      PROVE  IInv'
  BY <1>1, AllocStep, AssignStep, ArithStep, LoadStep, StoreStep, SetStep, AtomicStep, SpawnStep, WaitStep,
     WaitAllStep, FreeStep, ScopeStep, EndScopeStep
<1>2. CASE Finish
  BY <1>2, FinishStep
<1>3. CASE UNCHANGED leafVars
  BY <1>3, QuietStep DEF leafVars
<1> QED
  BY <1>1, <1>2, <1>3 DEF LeafNext

(* The names, sizes and loans of every body. *)
LEMMA Invariance == LeafSpec => []IInv
  BY InvInit, InvStep, PTL DEF LeafSpec

-----------------------------------------------------------------------------
(* Theorems *)

(* Every LOAD, STORE and SET of a body that the analysis accepts is to a   *)
(* live block and within its bounds, and a LOAD finds something there,     *)
(* whatever the sizes, the offsets and the length of the body: check_bounds *)
(* and the emitted check miss only the loose uses that AccessesInBounds    *)
(* names.                                                                  *)
THEOREM BoundsHold == LeafSpec => []AccessesInBounds
<1>1. IInv => AccessesInBounds
  BY DEF IInv, Sized, Clean, LooseBounds, AccessesInBounds
<1> QED
  BY <1>1, Invariance, PTL

(* What get_var finds for a name, in a mutable slot or in `variables`, is  *)
(* the value last assigned to it in the source, in scopes and after them,  *)
(* except after the loose uses that NamesDenoteLatest names.               *)
THEOREM NamesKeepMeaning == LeafSpec => []NamesDenoteLatest
<1>1. IInv => NamesDenoteLatest
  BY DEF IInv, Latest, Clean, NamesDenoteLatest
<1> QED
  BY <1>1, Invariance, PTL

(* The borrows that SPAWN records by name keep the block of a running task *)
(* from FREE, from END_SCOPE and from the end of the body, except after    *)
(* the loose uses that BorrowsHold names.                                  *)
THEOREM TasksKeepBlocks == LeafSpec => []BorrowsHold
<1>1. IInv => BorrowsHold
  BY DEF IInv, Borrowed, Clean, LooseBorrows, BorrowsHold
<1> QED
  BY <1>1, Invariance, PTL
=============================================================================
