------------------------------- MODULE LeafBody -------------------------------
(***************************************************************************)
(* The body of a leaf behavior without branches: the names, sizes and      *)
(* borrows of the semantic analysis (validate_node, check_bounds,          *)
(* context.rs), the value that the code generator keeps for a name, and    *)
(* the memory accesses of the generated code with their run-time bounds    *)
(* checks.  Branches and nested scopes are the subject of Ownership.       *)
(*                                                                         *)
(* A body is read statement by statement; each is analysed, compiled and   *)
(* executed before the next one.  A number is known by the statement that  *)
(* computed it; what a run finds in a dynamic offset is arbitrary.         *)
(***************************************************************************)
EXTENDS Integers, Sequences, FiniteSets

CONSTANTS Locals,       \* the names a body assigns to
          Statements,   \* the statements considered
          Offsets,      \* what a dynamic offset may be at run time
          InSize,       \* the declared size of the INPUT, a bytes parameter
          OutSize,      \* the size of the OUTPUT, an int parameter
          DefaultSize,  \* what an ALLOC gets whose size is not a literal (64)
          WordSize,     \* the modulus of unsigned words
          MaxLen        \* bound: statements of a body

In == "in"
Out == "out"
Names == Locals \cup {In, Out}

(* The operands and offsets of statements (see ExprErrors, OffsetErrors). *)
Operands == {<<"int">>, <<"float">>} \cup ({"var"} \X Names)
OffsetForms == {<<"none">>} \cup ({"lit", "fold"} \X Nat) \cup ({"var"} \X Names)

(* A statement, as the actions below read it: it assigns to a local, and   *)
(* SET takes a LOAD as its operand, too.                                   *)
IsStatement(s) ==
    /\ s.op \in {"alloc", "assign", "arith", "load", "store", "set", "atomic", "spawn", "wait", "waitall",
                 "free", "scope", "end"}
    /\ s.op \in {"alloc", "assign", "arith", "load", "atomic", "spawn", "wait"} => s.x \in Locals
    /\ s.op \in {"arith", "load", "store", "atomic", "spawn", "wait", "waitall", "free"} => s.y \in Names
    /\ s.op \in {"alloc", "load", "store", "atomic"} => s.size \in Nat
    /\ s.op \in {"load", "store"} => s.off \in OffsetForms
    /\ s.op \in {"assign", "store"} => s.e \in Operands
    /\ s.op = "set" => s.x \in Names /\ s.e \in Operands \cup ({"load"} \X Names)
    /\ s.op = "alloc" => s.form \in {"lit", "fold", "dyn"} /\ s.typ \in {"Bytes", "Int", "Float"} /\ s.shared \in BOOLEAN
    /\ s.op = "atomic" => s.kind \in {"load", "store", "add"}

ASSUME LeafAssumption ==
    /\ IsFiniteSet(Locals) /\ {In, Out} \cap Locals = {}
    /\ {InSize, OutSize, DefaultSize, WordSize, MaxLen} \subseteq Nat
    /\ Offsets \subseteq 0 .. WordSize - 1
    /\ \A s \in Statements : IsStatement(s)

VARIABLES info,        \* info[n]: what the analysis knows of a name
          path,        \* names freed, stored to and allocated (validate_ownership_cfg)
          borrows,     \* active SPAWN borrows: <<name, name of the spawn handle>>
          scope,       \* the open SCOPE, or NoScope
          reassigned,  \* the names assigned more than once in the whole body
          cg,          \* the code generator: variables and mutable slots
          mem,         \* the blocks of memory: the INPUT's, the OUTPUT's, then by ALLOC
          tasks,       \* the running tasks: their handle and the block they were given
          hist,        \* history: statements read, meanings of names, what went wrong, loose uses
          status       \* "reading", "rejected", "failed", "aborted" or "returned"

leafVars == <<info, path, borrows, scope, reassigned, cg, mem, tasks, hist, status>>

(* VarInfo.  The size is the allocated size, Unknown if the origin has     *)
(* none or it is not a constant.                                           *)
Unknown == -1
Info(typ, origin, size, state, shared) ==
    [typ |-> typ, origin |-> origin, size |-> size, state |-> state, shared |-> shared]
Undefined == Info("", "", Unknown, "", FALSE)
Number(typ) == Info(typ, "Computed", Unknown, "NotAHandle", FALSE)

(* SigilValue: a handle with its block and size, or a number with the      *)
(* statement that computed it and its width.                               *)
Value(kind, id, size, typ) == [kind |-> kind, id |-> id, size |-> size, typ |-> typ]
NoValue == Value("none", 0, 0, "")

(* A block of memory; init: something was stored to it. *)
Block(size, init) == [size |-> size, live |-> TRUE, init |-> init]

NoScope == [open |-> FALSE, saved |-> <<>>, allocs |-> {}, frees |-> {}, blocks |-> {}]

(* The caller's buffer may be smaller than the declared size of a bytes    *)
(* INPUT (validate_call_args).                                             *)
LeafInit ==
    /\ info = [n \in Names |->
                 CASE n = In  -> Info("Bytes", "Input", InSize, "Borrowed", FALSE)
                   [] n = Out -> Info("Int", "Output", OutSize, "Borrowed", FALSE)
                   [] OTHER   -> Undefined]
    /\ path = [freed |-> {}, stored |-> {In}, allocs |-> {}]
    /\ borrows = {}
    /\ scope = NoScope
    /\ reassigned \in SUBSET Locals
    /\ cg = [vars |-> [n \in Names |->
                         CASE n = In  -> Value("handle", 1, InSize, "Bytes")
                           [] n = Out -> Value("handle", 2, OutSize, "Int")
                           [] OTHER   -> NoValue],
             slot |-> [n \in Names |-> NoValue]]
    /\ \E actual \in {InSize, InSize \div 2} :
         /\ mem = <<Block(actual, TRUE), Block(OutSize, FALSE)>>
         /\ hist = [len |-> 0, meaning |-> cg.vars, bad |-> FALSE, misread |-> FALSE, dangling |-> FALSE,
                    loose |-> IF actual < InSize THEN {"short"} ELSE {}]
    /\ tasks = {}
    /\ status = "reading"

-----------------------------------------------------------------------------
(* The analysis. *)

Error(kind, cond) == IF cond THEN {kind} ELSE {}

Exists(n) == info[n] # Undefined

(* A name that denotes an address. *)
IsHandle(n) == info[n].origin \in {"Input", "Output", "Alloc"}

UsesUndefined(n) == Error("UndefinedVariable", ~Exists(n))

(* Offsets: <<"none">>, <<"lit", n>>, <<"fold", n>> for a constant         *)
(* expression, and <<"var", y>>.                                           *)
OffsetErrors(off) ==
    IF off[1] = "var" THEN UsesUndefined(off[2]) \cup Error("HandleUsedAsValue", IsHandle(off[2])) ELSE {}

Constant(off) == off[1] # "var"
ConstantOffset(off) == IF off[1] = "none" THEN 0 ELSE off[2]

(* Mutation: only the offset is compared. *)
CheckBoundsStart(n, size, off) ==
    Error("PossibleBoundsViolation",
          info[n].size # Unknown /\ Constant(off) /\ ConstantOffset(off) > info[n].size)

(* The sum saturates. *)
CheckBounds(n, size, off) ==
    Error("PossibleBoundsViolation",
          info[n].size # Unknown /\ Constant(off) /\ ConstantOffset(off) + size > info[n].size)

SharedErrors(n) == Error("NonAtomicSharedAccess", info[n].shared)

LoadErrors(n, size, off) == UsesUndefined(n) \cup OffsetErrors(off) \cup CheckBounds(n, size, off) \cup SharedErrors(n)

(* What the path analysis scans of an assigned expression. *)
ScanVar(n) == Error("UseAfterFree", n \in path.freed)
ScanLoad(n) == ScanVar(n) \cup Error("UninitializedLoad", n \notin path.stored)

(* Expressions: <<"int">>, <<"float">>, <<"var", y>>, <<"load", y>> (8 bytes). *)
NoOffset == <<"none">>
ExprErrors(e) ==
    CASE e[1] = "var"  -> UsesUndefined(e[2])
      [] e[1] = "load" -> LoadErrors(e[2], 8, NoOffset)
      [] OTHER         -> {}

Infer(e) ==
    CASE e[1] = "int"   -> Number("Int")
      [] e[1] = "float" -> Number("Float")
      [] e[1] = "var"   -> info[e[2]]
      [] e[1] = "load"  -> Info("Int", "LoadResult", Unknown, "NotAHandle", FALSE)

-----------------------------------------------------------------------------
(* Code generation and execution. *)

(* get_var: a mutable slot comes first. *)
GetVar(n) == IF cg.slot[n] # NoValue THEN cg.slot[n] ELSE cg.vars[n]

IsScalar(v) == v.kind \in {"int", "float"}

(* Mutation: an existing slot is not updated. *)
BindKeepingSlot(x, v) ==
    [cg EXCEPT !.slot[x] = IF x \in reassigned /\ IsScalar(v) /\ @ = NoValue THEN v ELSE @,
               !.vars[x] = IF x \in reassigned /\ IsScalar(v) THEN @ ELSE v]

(* An assignment: a number assigned to a name of `reassigned` goes to its  *)
(* slot, which keeps the type of the first one; a float in an int slot is  *)
(* read back as an int.                                                    *)
Bind(x, v) ==
    LET old == cg.slot[x]
        kept == IF old = NoValue THEN v ELSE [v EXCEPT !.kind = old.kind]
    IN  IF x \in reassigned /\ IsScalar(v) THEN [cg EXCEPT !.slot[x] = kept] ELSE [cg EXCEPT !.vars[x] = v]

(* Storing an int in a float slot panics. *)
BindPanics(x, v) == x \in reassigned /\ v.kind = "int" /\ cg.slot[x].kind = "float"

(* The next statement. *)
Here == hist.len + 1
Word == Value("int", Here, 8, "Int")
Float(w) == Value("float", Here, w, "Float")

(* Unsigned arithmetic: a negative offset makes the sum wrap. *)
EmitBoundsCheck(off, size, allocated) == (off + size) % WordSize > allocated

(* The bytes that a LOAD or STORE really touches: a float keeps its width. *)
LoadWidth(h, size) == IF h.typ = "Float" /\ size # 4 THEN 8 ELSE size
StoreWidth(v, size) == IF v.kind = "float" THEN v.size ELSE size

(* A literal offset, or one computed at run time. *)
RunOffsets(off) == IF off[1] = "var" THEN Offsets ELSE {ConstantOffset(off)}
IsDynamic(off) == off[1] \in {"var", "fold"}

(* Handle size 0 stands for an unknown size: not checked. *)
Aborts(h, off, o, size) == IsDynamic(off) /\ h.kind = "handle" /\ h.size > 0 /\ EmitBoundsCheck(o, size, h.size)

Touches(h, o, width) ==
    h.kind = "handle" /\ mem[h.id].live /\ o + width <= mem[h.id].size

(* A LOAD must also find something there. *)
Reads(h, o, width) == Touches(h, o, width) /\ mem[h.id].init

Written(h) == IF h.kind = "handle" THEN [mem EXCEPT ![h.id].init = TRUE] ELSE mem

(* A number or an address can be accessed through; a float cannot. *)
Accessible(v) == v.kind \in {"handle", "int"}

OffsetCompiles(off) == off[1] = "var" => GetVar(off[2]).kind = "int"

Compiles(e) ==
    CASE e[1] = "var"  -> GetVar(e[2]) # NoValue
      [] e[1] = "load" -> Accessible(GetVar(e[2]))
      [] OTHER         -> TRUE

(* LOAD without offset. *)
Loaded(h, size) ==
    IF h.kind = "handle" /\ h.typ = "Float" THEN Float(LoadWidth(h, size)) ELSE Value("int", Here, size, "Int")

Compiled(e) ==
    CASE e[1] = "int"   -> Word
      [] e[1] = "float" -> Float(8)
      [] e[1] = "var"   -> GetVar(e[2])
      [] e[1] = "load"  -> Loaded(GetVar(e[2]), 8)

-----------------------------------------------------------------------------
(* History.  A loose use is one that some check does not cover:            *)
(*   short     the caller's buffer is smaller than declared                *)
(*   folded    an ALLOC whose size is not a literal                        *)
(*   negative  a dynamic offset whose sum with the size wraps              *)
(*   empty     a dynamic offset into a block of size 0                     *)
(*   float     a float value, or an access to a float block                *)
(*   atomic    an atomic operation                                         *)
(*   number    an access through a number                                  *)
(*   copied    a second name for a block                                   *)
(*   set       SET of a local                                              *)
(*   mixed     values of different kinds assigned to one name              *)
(*   shadowed  a name bound before a SCOPE and assigned within it          *)
(*   unscanned a name freed or not stored to, where the path analysis does *)
(*             not look                                                    *)
(*   scoped    a block of an open SCOPE given to a task                    *)
(*   stale     ALLOC of a name already stored to: the mark is kept         *)
Loose == {"short", "folded", "negative", "empty", "float", "atomic", "number", "copied", "set", "mixed",
          "shadowed", "unscanned", "scoped", "stale"}

Uses(feature, cond) == IF cond THEN {feature} ELSE {}

(* What the check of a dynamic offset misses. *)
Unchecked(h, off, o, size) == Uses("negative", o + size >= WordSize) \cup Uses("empty", IsDynamic(off) /\ h.size = 0)

(* The names that statement or expression e reads. *)
ReadNames(e) == IF e[1] \in {"var", "load"} THEN {e[2]} ELSE {}
Misread(S) == \E n \in S : GetVar(n) # hist.meaning[n]

AssignUses(x, v) ==
    Uses("mixed", cg.slot[x] # NoValue /\ cg.slot[x].kind # v.kind)
      \cup Uses("shadowed", scope.open /\ scope.saved[x] # NoValue /\ ~(x \in reassigned /\ IsScalar(v)))

(* A name outside of `reassigned` is assigned once. *)
Assignable(x) == x \in reassigned \/ hist.meaning[x] = NoValue

-----------------------------------------------------------------------------
(* Statements. *)

Reading == status = "reading" /\ hist.len < MaxLen

Reject == status' = "rejected" /\ UNCHANGED <<info, path, borrows, scope, reassigned, cg, mem, tasks, hist>>
Failed == status' = "failed" /\ UNCHANGED <<info, path, borrows, scope, reassigned, cg, mem, tasks, hist>>
Abort == status' = "aborted" /\ UNCHANGED <<info, path, borrows, scope, reassigned, cg, mem, tasks, hist>>

(* The rest of the history: what was read, what was accessed. *)
Note(read, bad, loose) ==
    [hist EXCEPT !.len = Here, !.misread = @ \/ Misread(read), !.bad = @ \/ bad, !.loose = @ \cup loose]

(* x = e: the analysis defines x, the code generator binds the value. *)
Assign(x, i, v, freed, h) ==
    /\ info' = [info EXCEPT ![x] = i]
    /\ path' = [path EXCEPT !.freed = (@ \ {x}) \cup freed]
    /\ cg' = Bind(x, v)
    /\ hist' = [h EXCEPT !.meaning[x] = v, !.loose = @ \cup AssignUses(x, v)]
    /\ UNCHANGED <<scope, reassigned, tasks, status>>

(* x = ALLOC size typ.  The analysis folds the size, the code generator    *)
(* only knows literals.                                                    *)
ReadAlloc(s) ==
    /\ Reading /\ s.op = "alloc"
    /\ Assignable(s.x)
    /\ LET actual == IF s.form = "lit" THEN s.size ELSE DefaultSize
           v == Value("handle", Len(mem) + 1, actual, s.typ)
           known == IF s.form = "dyn" THEN Unknown ELSE s.size
       IN  /\ info' = [info EXCEPT ![s.x] = Info(s.typ, "Alloc", known, "Owned", s.shared)]
           /\ path' = [path EXCEPT !.freed = @ \ {s.x}, !.allocs = @ \cup {s.x}]
           /\ scope' = IF scope.open THEN [scope EXCEPT !.allocs = @ \cup {s.x}, !.blocks = @ \cup {v.id}] ELSE scope
           /\ cg' = Bind(s.x, v)
           /\ mem' = Append(mem, Block(actual, FALSE))
           /\ hist' = [Note({}, FALSE, Uses("folded", s.form # "lit") \cup Uses("stale", s.x \in path.stored)
                                         \cup AssignUses(s.x, v)) EXCEPT !.meaning[s.x] = v]
    /\ UNCHANGED <<borrows, reassigned, tasks, status>>

(* x = e, for a number or a name. *)
ReadAssign(s) ==
    /\ Reading /\ s.op = "assign"
    /\ Assignable(s.x)
    /\ IF ExprErrors(s.e) # {} \/ (s.e[1] = "var" /\ ScanVar(s.e[2]) # {}) THEN Reject
       ELSE IF ~Compiles(s.e) \/ BindPanics(s.x, Compiled(s.e)) THEN Failed
       ELSE /\ Assign(s.x, Infer(s.e), Compiled(s.e), {},
                      Note(ReadNames(s.e), FALSE,
                           Uses("copied", Compiled(s.e).kind = "handle") \cup Uses("float", Compiled(s.e).kind = "float")))
            /\ UNCHANGED <<borrows, mem>>

(* x = IADD y 1 8. *)
ReadArith(s) ==
    /\ Reading /\ s.op = "arith"
    /\ Assignable(s.x)
    /\ IF UsesUndefined(s.y) # {} \/ IsHandle(s.y) THEN Reject
       ELSE IF GetVar(s.y).kind # "int" \/ BindPanics(s.x, Word) THEN Failed
       ELSE /\ Assign(s.x, Number("Int"), Word, {}, Note({s.y}, FALSE, {}))
            /\ UNCHANGED <<borrows, mem>>

(* x = LOAD y size off. *)
ReadLoad(s) ==
    /\ Reading /\ s.op = "load"
    /\ Assignable(s.x)
    /\ LET h == GetVar(s.y)
           v == Loaded(h, s.size)
       IN  IF LoadErrors(s.y, s.size, s.off) \cup ScanLoad(s.y) # {} THEN Reject
           ELSE IF ~Accessible(h) \/ ~OffsetCompiles(s.off) \/ BindPanics(s.x, v) THEN Failed
           ELSE \E o \in RunOffsets(s.off) :
                  IF Aborts(h, s.off, o, s.size) THEN Abort
                  ELSE /\ Assign(s.x, Infer(<<"load", s.y>>), v, {},
                                 Note({s.y} \cup ReadNames(s.off), ~Reads(h, o, LoadWidth(h, s.size)),
                                      Uses("number", h.kind = "int") \cup Uses("float", v.kind = "float")
                                        \cup Unchecked(h, s.off, o, s.size)))
                       /\ UNCHANGED <<borrows, mem>>

(* STORE y e size off. *)
ReadStore(s) ==
    /\ Reading /\ s.op = "store"
    /\ LET h == GetVar(s.y)
           errors == UsesUndefined(s.y) \cup SharedErrors(s.y) \cup ExprErrors(s.e) \cup OffsetErrors(s.off)
                       \cup CheckBounds(s.y, s.size, s.off)
                       \cup Error("OutputSizeMismatch", s.y = Out /\ s.off = NoOffset /\ s.size # OutSize)
                       \cup ScanVar(s.y)
       IN  IF errors # {} THEN Reject
           ELSE IF ~Accessible(h) \/ ~Compiles(s.e) \/ ~OffsetCompiles(s.off) THEN Failed
           ELSE \E o \in RunOffsets(s.off) :
                  IF Aborts(h, s.off, o, s.size) THEN Abort
                  ELSE /\ hist' = Note({s.y} \cup ReadNames(s.e) \cup ReadNames(s.off),
                                       ~Touches(h, o, StoreWidth(Compiled(s.e), s.size)),
                                       Uses("number", h.kind = "int") \cup Uses("float", Compiled(s.e).kind = "float")
                                         \cup Unchecked(h, s.off, o, s.size))
                       /\ path' = [path EXCEPT !.stored = @ \cup {s.y}]
                       /\ mem' = Written(h)
                       /\ UNCHANGED <<info, borrows, scope, reassigned, cg, tasks, status>>

(* What SET reads is not scanned. *)
Unscanned(x, e, v) ==
    \/ ({x} \cup ReadNames(e)) \cap path.freed # {}
    \/ (v.kind = "handle" \/ e[1] = "load") /\ ~(ReadNames(e) \subseteq path.stored)

(* SET x e: through a handle of `variables`, or by binding the name there. *)
ReadSet(s) ==
    /\ Reading /\ s.op = "set"
    /\ LET d == cg.vars[s.x]
           v == Compiled(s.e)
           errors == UsesUndefined(s.x) \cup ExprErrors(s.e)
                       \cup Error("CallArgTypeMismatch", s.x = Out /\ Infer(s.e).typ # "Int")
           reads == \/ v.kind = "handle" /\ ~Reads(v, 0, LoadWidth(v, IF v.size < 8 THEN v.size ELSE 8))
                    \/ s.e[1] = "load" /\ ~Reads(GetVar(s.e[2]), 0, LoadWidth(GetVar(s.e[2]), 8))
           width == IF v.kind = "handle" /\ v.typ = "Float" THEN LoadWidth(v, v.size) ELSE StoreWidth(v, d.size)
           loose == Uses("set", s.x # Out)
                      \cup Uses("unscanned", Unscanned(s.x, s.e, v))
                      \cup Uses("number", s.e[1] = "load" /\ GetVar(s.e[2]).kind = "int")
                      \cup Uses("float", v.kind = "float" \/ (v.kind = "handle" /\ v.typ = "Float"))
       IN  IF errors # {} THEN Reject
           ELSE IF ~Compiles(s.e) THEN Failed
           ELSE /\ IF d.kind = "handle"
                   THEN /\ hist' = Note(ReadNames(s.e), reads \/ ~Touches(d, 0, width), loose)
                        /\ mem' = Written(d)
                        /\ UNCHANGED cg
                   ELSE /\ cg' = [cg EXCEPT !.vars[s.x] = v]
                        /\ hist' = [Note(ReadNames(s.e), s.e[1] = "load" /\ reads, loose \cup AssignUses(s.x, v)) EXCEPT !.meaning[s.x] = v]
                        /\ UNCHANGED mem
                /\ UNCHANGED <<info, path, borrows, scope, reassigned, tasks, status>>

(* x = ATOMIC_LOAD y size, ATOMIC_STORE y 1 size, ATOMIC_ADD y 1 size: no  *)
(* bounds are checked, and an ATOMIC_ADD has the width of its value.       *)
ReadAtomic(s) ==
    /\ Reading /\ s.op = "atomic"
    /\ Assignable(s.x)
    /\ LET h == GetVar(s.y)
           v == IF s.kind = "load" THEN Loaded(h, s.size) ELSE Word
           width == CASE s.kind = "load" -> LoadWidth(h, s.size) [] s.kind = "store" -> s.size [] s.kind = "add" -> 8
       IN  IF UsesUndefined(s.y) # {} THEN Reject
           ELSE IF h.kind # "handle" \/ BindPanics(s.x, v) THEN Failed
           ELSE /\ Assign(s.x, IF s.kind = "load" THEN Infer(<<"load", s.y>>) ELSE Number("Int"), v, {},
                          Note({s.y}, ~Touches(h, 0, width), {"atomic"}))
                /\ mem' = IF s.kind = "load" THEN mem ELSE Written(h)
                /\ UNCHANGED borrows

(* Mutation: the borrow is not recorded. *)
AddSpawnBorrowNone(y, x) == borrows

AddSpawnBorrow(y, x) == borrows \cup {<<y, x>>}

(* x = SPAWN p y: y is borrowed by name until WAIT x. *)
ReadSpawn(s) ==
    /\ Reading /\ s.op = "spawn"
    /\ Assignable(s.x)
    /\ LET arg == GetVar(s.y)
           block == IF arg.kind = "handle" THEN {arg.id} ELSE {}
           loose == Uses("scoped", block \cap scope.blocks # {}) \cup Uses("unscanned", s.y \in path.freed)
                      \cup Uses("number", arg.kind = "int")
       IN  IF UsesUndefined(s.y) # {} THEN Reject
           ELSE IF arg = NoValue \/ (arg.kind = "float" /\ arg.size = 4) \/ BindPanics(s.x, Word) THEN Failed
           ELSE /\ info' = [info EXCEPT ![s.x] = Info("Int", "Computed", Unknown, "Owned", FALSE)]
                /\ path' = [path EXCEPT !.freed = @ \ {s.x}]
                /\ borrows' = AddSpawnBorrow(s.y, s.x)
                /\ cg' = Bind(s.x, Word)
                /\ tasks' = tasks \cup {[id |-> Here, block |-> block]}
                /\ hist' = [Note({s.y}, FALSE, loose \cup AssignUses(s.x, Word)) EXCEPT
                              !.meaning[s.x] = Word,
                              !.dangling = @ \/ \E b \in block : ~mem[b].live]
                /\ UNCHANGED <<scope, reassigned, mem, status>>

Finished(v) == {t \in tasks : t.id = v.id}

(* x = WAIT y: the task of that handle, if there is one, has ended.  The   *)
(* handle is looked up in `variables` only.                                *)
ReadWait(s) ==
    /\ Reading /\ s.op = "wait"
    /\ Assignable(s.x)
    /\ LET h == cg.vars[s.y]
       IN  IF UsesUndefined(s.y) # {} THEN Reject
           ELSE IF h.kind # "int" \/ BindPanics(s.x, Word) THEN Failed
           ELSE /\ info' = [info EXCEPT ![s.x] = Number("Int")]
                /\ path' = [path EXCEPT !.freed = @ \ {s.x}]
                /\ borrows' = {b \in borrows : b[2] # s.y}
                /\ cg' = Bind(s.x, Word)
                /\ tasks' = tasks \ Finished(h)
                /\ hist' = [Note({s.y}, FALSE, AssignUses(s.x, Word)) EXCEPT !.meaning[s.x] = Word]
                /\ UNCHANGED <<scope, reassigned, mem, status>>

(* WAIT_ALL y: not analysed, so the borrow stays. *)
ReadWaitAll(s) ==
    /\ Reading /\ s.op = "waitall"
    /\ IF cg.vars[s.y].kind # "int" THEN Failed
       ELSE /\ tasks' = tasks \ Finished(cg.vars[s.y])
            /\ hist' = Note({s.y}, FALSE, {})
            /\ UNCHANGED <<info, path, borrows, scope, reassigned, cg, mem, status>>

Release(blocks) == [b \in DOMAIN mem |-> IF b \in blocks THEN [mem[b] EXCEPT !.live = FALSE] ELSE mem[b]]

(* Some task still has one of these blocks. *)
Held(blocks) == \E t \in tasks : t.block \cap blocks # {}

FreeErrors(n) ==
    UsesUndefined(n)
      \cup Error("FreeBorrowedHandle", info[n].state = "Borrowed")
      \cup Error("TypeMismatch", info[n].state = "NotAHandle")
      \cup Error("FreeWhileBorrowed", info[n].state = "Owned" /\ \E b \in borrows : b[1] = n)
      \cup Error("DoubleFree", n \in path.freed)

(* FREE y. *)
ReadFree(s) ==
    /\ Reading /\ s.op = "free"
    /\ LET v == cg.vars[s.y]
           blocks == IF v.kind = "handle" THEN {v.id} ELSE {}
       IN  IF FreeErrors(s.y) # {} THEN Reject
           ELSE /\ path' = [path EXCEPT !.freed = @ \cup {s.y}]
                /\ scope' = IF scope.open THEN [scope EXCEPT !.frees = @ \cup {s.y}] ELSE scope
                /\ mem' = Release(blocks)
                /\ hist' = [Note({}, FALSE, {}) EXCEPT !.dangling = @ \/ Held(blocks)]
                /\ UNCHANGED <<info, borrows, reassigned, cg, tasks, status>>

(* SCOPE. *)
ReadScope(s) ==
    /\ Reading /\ s.op = "scope" /\ ~scope.open
    /\ scope' = [NoScope EXCEPT !.open = TRUE, !.saved = cg.vars]
    /\ hist' = Note({}, FALSE, {})
    /\ UNCHANGED <<info, path, borrows, reassigned, cg, mem, tasks, status>>

(* END_SCOPE: to the path analysis a FREE of what was allocated and not    *)
(* freed in the scope; the generated code frees the blocks and goes back   *)
(* to the bindings before SCOPE.                                           *)
ReadEndScope(s) ==
    /\ Reading /\ s.op = "end" /\ scope.open
    /\ LET auto == scope.allocs \ scope.frees
       IN  IF auto \cap path.freed # {} THEN Reject
           ELSE /\ path' = [path EXCEPT !.freed = @ \cup auto]
                /\ cg' = [cg EXCEPT !.vars = scope.saved]
                /\ mem' = Release(scope.blocks)
                /\ scope' = NoScope
                /\ hist' = [Note({}, FALSE, {}) EXCEPT !.dangling = @ \/ Held(scope.blocks)]
                /\ UNCHANGED <<info, borrows, reassigned, tasks, status>>

(* The end of the body: leaks are rejected, the root scope is destroyed. *)
Finish ==
    /\ status = "reading" /\ ~scope.open
    /\ IF path.allocs \subseteq path.freed
       THEN /\ mem' = Release(3 .. Len(mem))
            /\ hist' = [hist EXCEPT !.dangling = @ \/ Held(3 .. Len(mem))]
            /\ status' = "returned"
       ELSE status' = "rejected" /\ UNCHANGED <<mem, hist>>
    /\ UNCHANGED <<info, path, borrows, scope, reassigned, cg, tasks>>

LeafNext ==
    \/ \E s \in Statements :
         \/ ReadAlloc(s) \/ ReadAssign(s) \/ ReadArith(s) \/ ReadLoad(s) \/ ReadStore(s) \/ ReadSet(s) \/ ReadAtomic(s)
         \/ ReadSpawn(s) \/ ReadWait(s) \/ ReadWaitAll(s) \/ ReadFree(s) \/ ReadScope(s) \/ ReadEndScope(s)
    \/ Finish

LeafSpec == LeafInit /\ [][LeafNext]_leafVars

-----------------------------------------------------------------------------
(* Properties.  They speak of every beginning of a body: it can be         *)
(* continued to a body that is accepted, with a WAIT for every task and a  *)
(* FREE for every block.                                                   *)

(* Every access that a body performs is to a live block and within its     *)
(* bounds, constant offsets by the analysis and dynamic ones by the        *)
(* emitted check, and a LOAD finds a block something was stored to, in     *)
(* every body without one of these loose uses.  (A name ALLOCated, freed   *)
(* and ALLOCated again in a SCOPE counts as live after it, with the size   *)
(* of the last ALLOC, and denotes the block it had before.)                *)
AccessesInBounds ==
    hist.bad => \E u \in hist.loose : u \in {"short", "folded", "negative", "empty", "float", "atomic", "number",
                                           "copied", "set", "stale", "unscanned", "shadowed"}

(* A name denotes the value last assigned to it, whether it is kept in a   *)
(* mutable slot or in `variables`, unless it was SET, has had values of    *)
(* different kinds, or was assigned again within a SCOPE.                  *)
NamesDenoteLatest == hist.misread => \E u \in hist.loose : u \in {"set", "mixed", "shadowed"}

(* No block is released while a task that was given it runs, at the end of *)
(* the body included, unless the block has two names, belongs to a SCOPE,  *)
(* was freed before the SPAWN, its name was assigned again within a SCOPE, *)
(* or the spawn handle was SET.  Assigning the name of a spawn handle      *)
(* again is no exception: its WAIT does not compile.                       *)
BorrowsHold == hist.dangling => \E u \in hist.loose : u \in {"copied", "scoped", "shadowed", "unscanned", "set"}

=============================================================================
