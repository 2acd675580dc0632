----------------------------- MODULE Ownership -----------------------------
(***************************************************************************)
(* The compiler's memory-safety analysis of one behavior body              *)
(* (compiler/src/cfg.rs, validate_ownership_cfg and check_termination in   *)
(* compiler/src/semantic/mod.rs) and the execution of the bodies it        *)
(* accepts.                                                                *)
(*                                                                         *)
(* A body is analysed, and run if it was accepted.  It is a sequence of    *)
(* nodes, tuples <<kind, ...>>; SCOPE and END_SCOPE bracket the nodes      *)
(* between them.  Each name is bound by one ALLOC.  The conditions of      *)
(* BRANCHes and the stored values are left open: a BRANCH goes either way. *)
(***************************************************************************)
EXTENDS Integers, Sequences, FiniteSets

LOCAL INSTANCE SequencesExt

CONSTANTS Handles,    \* the names a body binds with ALLOC
          Labels,     \* the labels a body may declare
          Programs    \* the bodies considered

VARIABLES prog,      \* the body being compiled
          phase,     \* "parsed", "run", "rejected" or "done"
          errors,    \* the kinds of error the analysis reported
          pc,        \* the node executed next
          val,       \* val[h]: the block the name h denotes
          stored,    \* stored[h]: has that block been stored to?
          written,   \* has the OUTPUT been written?
          faults     \* history: what the execution did wrong

ownershipVars == <<prog, phase, errors, pc, val, stored, written, faults>>

Nodes ==
    ({"alloc", "free", "store", "load"} \X Handles)
        \cup ({"label", "jump"} \X Labels)
        \cup ({"branch"} \X Labels \X Labels)
        \cup {<<"scope">>, <<"end">>, <<"set">>}

ErrorKinds == {"UndefinedLabel", "DoubleFree", "UseAfterFree", "UninitializedLoad",
               "MemoryLeak", "OutputNotWritten", "PathDoesNotTerminate", "UndefinedVariable"}

OwnershipTypeOK ==
    /\ prog \in Seq(Nodes)
    /\ phase \in {"parsed", "run", "rejected", "done"}
    /\ errors \subseteq ErrorKinds
    /\ pc \in 1 .. Len(prog) + 1
    /\ val \in [Handles -> {"none", "live", "freed"}]
    /\ stored \in [Handles -> BOOLEAN]
    /\ written \in BOOLEAN
    /\ faults \subseteq {"UseAfterFree", "DoubleFree", "UninitializedLoad", "Unbound"}

OwnershipInit ==
    /\ prog \in Programs
    /\ phase = "parsed"
    /\ errors = {}
    /\ pc = 1
    /\ val = [h \in Handles |-> "none"]
    /\ stored = [h \in Handles |-> FALSE]
    /\ written = FALSE
    /\ faults = {}

-----------------------------------------------------------------------------
(* Positions and nesting. *)

Is(p, i, kinds) == i \in DOMAIN p /\ p[i][1] \in kinds

(* The number of SCOPEs open after the first i nodes. *)
Depth(p, i) ==
    Cardinality({j \in 1 .. i : Is(p, j, {"scope"})})
        - Cardinality({j \in 1 .. i : Is(p, j, {"end"})})

(* The SCOPE that the END_SCOPE at position i closes. *)
ScopeStart(p, i) ==
    Max({j \in 1 .. i - 1 : Is(p, j, {"scope"}) /\ Depth(p, j - 1) = Depth(p, i)})

LabelAt(p, l) == CHOOSE i \in DOMAIN p : p[i] = <<"label", l>>

Defines(p, l) == \E i \in DOMAIN p : p[i] = <<"label", l>>

(* The labels a JUMP or BRANCH names. *)
Targets(n) == IF n[1] \in {"jump", "branch"} THEN {n[i] : i \in 2 .. Len(n)} ELSE {}

(* A body the parser and the code generator can process: names are used    *)
(* after the one ALLOC that binds them, labels are declared once, brackets *)
(* match, and only a LABEL can follow a JUMP or BRANCH, since the          *)
(* generated basic block has ended there.  A control transfer may leave    *)
(* scopes but not enter one: the scope's token is not defined outside.     *)
WellFormed(p) ==
    /\ p \in Seq(Nodes)
    /\ \A i \in DOMAIN p : Depth(p, i) >= 0
    /\ Depth(p, Len(p)) = 0
    /\ \A i \in DOMAIN p :
         /\ Is(p, i - 1, {"jump", "branch"}) => Is(p, i, {"label"})
         /\ Is(p, i, {"free", "store", "load"}) =>
              \E j \in 1 .. i - 1 : p[j] = <<"alloc", p[i][2]>>
         /\ Is(p, i, {"alloc", "label"}) => \A j \in 1 .. i - 1 : p[j] # p[i]
         /\ \A l \in Targets(p[i]) : Defines(p, l) =>
              LET t == LabelAt(p, l)
              IN  \A k \in (i .. t) \cup (t .. i) : Depth(p, k) >= Depth(p, t)

ASSUME OwnershipAssumption ==
    /\ IsFiniteSet(Handles) /\ IsFiniteSet(Labels)
    /\ \A p \in Programs : WellFormed(p)

-----------------------------------------------------------------------------
(* Control flow (cfg.rs). *)

(* The names ALLOCated, or FREEd, directly in the scope ended at i. *)
Direct(p, i, kind) ==
    {p[j][2] : j \in {k \in ScopeStart(p, i) .. i :
                        Is(p, k, {kind}) /\ Depth(p, k) = Depth(p, i) + 1}}

AutoFreed(p, i) == Direct(p, i, "alloc") \ Direct(p, i, "free")

Inline(p, i, freed) ==
    IF p[i][1] = "scope" THEN <<>>
    ELSE IF p[i][1] = "end" THEN SetToSeq({"free"} \X freed)
    ELSE <<p[i]>>

(* Mutation: the scope bodies are inlined without the automatic FREEs. *)
FlattenOnly(p) == FlattenSeq([i \in DOMAIN p |-> Inline(p, i, {})])

(* flatten_scopes: bodies inlined, each END_SCOPE replaced by a FREE of    *)
(* every name allocated directly in the scope and not freed directly in it. *)
Flatten(p) ==
    FlattenSeq([i \in DOMAIN p |->
                  Inline(p, i, IF p[i][1] = "end" THEN AutoFreed(p, i) ELSE {})])

(* Basic blocks, each named by its first position. *)
BasicBlocks(f) ==
    {1} \cup {i \in DOMAIN f : Is(f, i, {"label"}) \/ Is(f, i - 1, {"jump", "branch"})}

(* The last position of block b. *)
BlockEnd(f, b) == Min({c - 1 : c \in {d \in BasicBlocks(f) : d > b}} \cup {Len(f)})

(* Mutation: only a BRANCH's first label becomes a successor. *)
SuccessorsTrueOnly(f, b) ==
    LET e == BlockEnd(f, b)
    IN  IF Is(f, e, {"jump", "branch"})
        THEN {LabelAt(f, l) : l \in {m \in {f[e][2]} : Defines(f, m)}}
        ELSE IF e < Len(f) THEN {e + 1} ELSE {}

(* An undefined label contributes no successor. *)
Successors(f, b) ==
    LET e == BlockEnd(f, b)
    IN  IF Is(f, e, {"jump", "branch"})
        THEN {LabelAt(f, l) : l \in {m \in Targets(f[e]) : Defines(f, m)}}
        ELSE IF e < Len(f) THEN {e + 1} ELSE {}

Exits(f) == {b \in BasicBlocks(f) : Successors(f, b) = {}}

(* all_paths: the walks from the entry to an exit that visit no block      *)
(* twice.                                                                  *)
AllPaths(f) ==
    LET extend(w) == {Append(w, s) : s \in Successors(f, Last(w)) \ ToSet(w)}
        walks[n \in 1 .. Cardinality(BasicBlocks(f))] ==
            IF n = 1 THEN {<<1>>} ELSE UNION {extend(w) : w \in walks[n - 1]}
    IN  {w \in UNION {walks[n] : n \in 1 .. Cardinality(BasicBlocks(f))} : Last(w) \in Exits(f)}

(* The closure of a set of blocks under a step relation. *)
Closure(f, from, Step(_, _)) ==
    LET grow[n \in 0 .. Cardinality(BasicBlocks(f))] ==
            IF n = 0 THEN from
            ELSE LET g == grow[n - 1]
                 IN  g \cup {b \in BasicBlocks(f) : \E c \in g : Step(c, b)}
    IN  grow[Cardinality(BasicBlocks(f))]

(* Mutation: it is enough that the entry reaches an exit. *)
EntryTerminates(f) ==
    1 \in Closure(f, Exits(f), LAMBDA c, b : c \in Successors(f, b))

(* all_paths_terminate: every block reachable from the entry reaches an    *)
(* exit.                                                                   *)
AllPathsTerminate(f) ==
    Closure(f, {1}, LAMBDA c, b : b \in Successors(f, c))
        \subseteq Closure(f, Exits(f), LAMBDA c, b : c \in Successors(f, b))

-----------------------------------------------------------------------------
(* Ownership (validate_ownership_cfg). *)

PathStatements(f, path) ==
    FlattenSeq([i \in DOMAIN path |-> SubSeq(f, path[i], BlockEnd(f, path[i]))])

PathStart == [freed |-> {}, stored |-> {}, alloced |-> {}, output |-> FALSE, errs |-> {}]

Reported(kind, cond) == IF cond THEN {kind} ELSE {}

PathFree(st, n) ==
    [st EXCEPT !.freed = @ \cup {n[2]},
               !.errs = @ \cup Reported("DoubleFree", n[2] \in st.freed)]

PathLoad(st, n) ==
    [st EXCEPT !.errs = @ \cup Reported("UseAfterFree", n[2] \in st.freed)
                          \cup Reported("UninitializedLoad", n[2] \notin st.stored)]

PathStore(st, n) ==
    [st EXCEPT !.stored = @ \cup {n[2]},
               !.errs = @ \cup Reported("UseAfterFree", n[2] \in st.freed)]

PathAlloc(st, n) ==
    [st EXCEPT !.freed = @ \ {n[2]}, !.alloced = @ \cup {n[2]}]

(* One statement of a path. *)
PathStep(st, n) ==
    IF n[1] = "alloc" THEN PathAlloc(st, n)
    ELSE IF n[1] = "free" THEN PathFree(st, n)
    ELSE IF n[1] = "store" THEN PathStore(st, n)
    ELSE IF n[1] = "load" THEN PathLoad(st, n)
    ELSE IF n[1] = "set" THEN [st EXCEPT !.output = TRUE]
    ELSE st

(* A body that writes its OUTPUT somewhere declares writes_output. *)
Guaranteed(p) == \E i \in DOMAIN p : p[i] = <<"set">>

PathErrors(f, path) ==
    LET st == FoldLeft(PathStep, PathStart, PathStatements(f, path))
    IN  st.errs
          \cup Reported("MemoryLeak", ~(st.alloced \subseteq st.freed))
          \cup Reported("OutputNotWritten", Guaranteed(f) /\ ~st.output)

(* Mutation: an output written on one path counts for all. *)
AnalyseSomePath(p) ==
    LET f == Flatten(p)
    IN  UNION {PathErrors(f, w) \ {"OutputNotWritten"} : w \in AllPaths(f)}
          \cup Reported("OutputNotWritten",
                 AllPaths(f) # {} /\ \A w \in AllPaths(f) : "OutputNotWritten" \in PathErrors(f, w))
          \cup Reported("PathDoesNotTerminate", ~AllPathsTerminate(f))
          \cup Reported("UndefinedLabel",
                 \E i \in DOMAIN p : \E l \in Targets(p[i]) : ~Defines(p, l))

(* The errors found in a body. *)
Analyse(p) ==
    LET f == Flatten(p)
    IN  UNION {PathErrors(f, w) : w \in AllPaths(f)}
          \cup Reported("PathDoesNotTerminate", ~AllPathsTerminate(f))
          \cup Reported("UndefinedLabel",
                 \E i \in DOMAIN p : \E l \in Targets(p[i]) : ~Defines(p, l))

-----------------------------------------------------------------------------
(* Compilation and execution. *)

(* Does the code generator know name h at node i?  It forgets the names    *)
(* bound in a SCOPE at its END_SCOPE.                                      *)
Visible(p, i, h) ==
    \E j \in 1 .. i - 1 :
        p[j] = <<"alloc", h>> /\ \A k \in j .. i - 1 : Depth(p, k) >= Depth(p, j)

(* The whole body is analysed; errors stop the build.  The code generator  *)
(* then refuses a STORE or LOAD of a name it does not know.                *)
Compile ==
    /\ phase = "parsed"
    /\ LET found == Analyse(prog)
           unknown == \E i \in DOMAIN prog :
                        Is(prog, i, {"store", "load"}) /\ ~Visible(prog, i, prog[i][2])
       IN  errors' = found \cup Reported("UndefinedVariable", found = {} /\ unknown)
    /\ phase' = IF errors' = {} THEN "run" ELSE "rejected"
    /\ UNCHANGED <<prog, pc, val, stored, written, faults>>

(* Where control goes after node i. *)
Following(p, i) ==
    IF p[i][1] \in {"jump", "branch"} THEN {LabelAt(p, l) : l \in Targets(p[i])} ELSE {i + 1}

(* The node executed next is one of the given kinds.  A run is not         *)
(* followed further once it used a name whose ALLOC it had not executed:   *)
(* the generated code has no value there.                                  *)
At(kinds) == phase = "run" /\ "Unbound" \notin faults /\ Is(prog, pc, kinds)

Node == prog[pc]

Advance == pc' \in Following(prog, pc) /\ UNCHANGED <<prog, phase, errors>>

(* A use of h: what is wrong with it at run time. *)
Misuse(h, kind) == Reported(kind, val[h] = "freed") \cup Reported("Unbound", val[h] = "none")

(* Nothing but control flow: LABEL, JUMP, BRANCH and the start of a SCOPE. *)
Transfer ==
    /\ At({"label", "jump", "branch", "scope"})
    /\ Advance
    /\ UNCHANGED <<val, stored, written, faults>>

RunAlloc ==
    /\ At({"alloc"})
    /\ val' = [val EXCEPT ![Node[2]] = "live"]
    /\ stored' = [stored EXCEPT ![Node[2]] = FALSE]
    /\ Advance
    /\ UNCHANGED <<written, faults>>

(* No code is generated for a FREE of a name that is not known. *)
RunFree ==
    /\ At({"free"})
    /\ IF Visible(prog, pc, Node[2])
       THEN /\ val' = [val EXCEPT ![Node[2]] = "freed"]
            /\ faults' = faults \cup Misuse(Node[2], "DoubleFree")
       ELSE UNCHANGED <<val, faults>>
    /\ Advance
    /\ UNCHANGED <<stored, written>>

RunStore ==
    /\ At({"store"})
    /\ stored' = [stored EXCEPT ![Node[2]] = TRUE]
    /\ faults' = faults \cup Misuse(Node[2], "UseAfterFree")
    /\ Advance
    /\ UNCHANGED <<val, written>>

RunLoad ==
    /\ At({"load"})
    /\ faults' = faults \cup Misuse(Node[2], "UseAfterFree")
                        \cup Reported("UninitializedLoad", ~stored[Node[2]])
    /\ Advance
    /\ UNCHANGED <<val, stored, written>>

RunSet ==
    /\ At({"set"})
    /\ written' = TRUE
    /\ Advance
    /\ UNCHANGED <<val, stored, faults>>

(* What is still live of the blocks allocated at the given nodes is freed. *)
ReleaseFrom(nodes) ==
    val' = [h \in Handles |->
              IF val[h] = "live" /\ \E i \in nodes : prog[i] = <<"alloc", h>>
              THEN "freed" ELSE val[h]]

(* END_SCOPE frees what was allocated between it and its SCOPE, in scopes  *)
(* left by a JUMP too.                                                     *)
RunEndScope ==
    /\ At({"end"})
    /\ ReleaseFrom(ScopeStart(prog, pc) .. pc)
    /\ Advance
    /\ UNCHANGED <<stored, written, faults>>

(* The end of the body: the root scope is destroyed. *)
RunFinish ==
    /\ phase = "run" /\ "Unbound" \notin faults
    /\ pc = Len(prog) + 1
    /\ phase' = "done"
    /\ ReleaseFrom(DOMAIN prog)
    /\ UNCHANGED <<prog, errors, pc, stored, written, faults>>

Execute ==
    \/ Transfer \/ RunAlloc \/ RunFree \/ RunStore \/ RunLoad
    \/ RunSet \/ RunEndScope \/ RunFinish

OwnershipNext == Compile \/ Execute

OwnershipSpec == OwnershipInit /\ [][OwnershipNext]_ownershipVars

-----------------------------------------------------------------------------
(* Every control transfer goes forward. *)
Forward(p) ==
    \A i \in DOMAIN p : \A l \in Targets(p[i]) : Defines(p, l) => LabelAt(p, l) > i

(* No control transfer leaves a scope. *)
Structured(p) ==
    \A i \in DOMAIN p : \A l \in Targets(p[i]) :
        Defines(p, l) => Depth(p, LabelAt(p, l)) = Depth(p, i)

(* No run uses a block after it was freed, whether by FREE or by the end   *)
(* of its scope (semantic/mod.rs:411-413, 449-463, cfg.rs:85-117).         *)
NoUseAfterFree == "UseAfterFree" \notin faults

(* No run frees a block twice (semantic/mod.rs:429-446).                   *)
NoDoubleFree == "DoubleFree" \notin faults

(* No run loads from a block nothing was stored to                         *)
(* (semantic/mod.rs:570-602).                                              *)
NoUninitialisedLoad == "UninitializedLoad" \notin faults

(* At the end nothing is left for the root scope to free                   *)
(* (semantic/mod.rs:518-551).                                              *)
NoLeak == phase = "run" /\ pc = Len(prog) + 1 => \A h \in Handles : val[h] # "live"

(* An accepted body without loops uses no block after its release, frees   *)
(* none twice and loads nothing unwritten, on any run through its branches *)
(* and scopes; and it leaves nothing allocated, unless it jumps out of a   *)
(* scope, which flatten_scopes excepts (cfg.rs:82-84).                     *)
AcceptedIsSafe ==
    /\ OwnershipTypeOK
    /\ Forward(prog) => NoUseAfterFree /\ NoDoubleFree /\ NoUninitialisedLoad
    /\ Forward(prog) /\ Structured(prog) => NoLeak

(* With loops or without, a run that ends has written the OUTPUT of a body *)
(* that guarantees it, although only paths without repetition are examined *)
(* (semantic/mod.rs:526-534, 555-566).                                     *)
OutputsWritten == phase = "done" /\ Guaranteed(prog) => written

(* The nodes of p from which the end can be reached, found node by node.   *)
CanEnd(p) ==
    LET grow[n \in 0 .. Len(p)] ==
            IF n = 0 THEN {Len(p) + 1}
            ELSE LET g == grow[n - 1]
                 IN  g \cup {i \in DOMAIN p : Following(p, i) \cap g # {}}
    IN  grow[Len(p)]

(* With loops or without, no run of an accepted body comes to a point from *)
(* which it cannot end any more: the analysis of blocks agrees with the    *)
(* flow from node to node (cfg.rs:161-201).                                *)
EndStaysReachable == phase = "run" => pc \in CanEnd(prog)

(* The runs of a body without loops, as sets of positions, followed from   *)
(* node to node.                                                           *)
Runs(p) ==
    LET from[i \in 1 .. Len(p) + 1] ==
            IF i > Len(p) THEN {{}}
            ELSE UNION {{{i} \cup S : S \in from[j]} : j \in Following(p, i)}
    IN  from[1]

(* What is wrong with run S, by definition.  The end of its scope frees a  *)
(* block that the run has not freed.                                       *)
Wrong(p, S) ==
    LET on(i, kinds, h) == Is(p, i, kinds) /\ p[i][2] = h
        frees(i, h) ==
            \/ on(i, {"free"}, h)
            \/ /\ Is(p, i, {"end"})
               /\ h \in Direct(p, i, "alloc")
               /\ ~\E j \in S : j < i /\ on(j, {"free"}, h)
        afterFree(kinds, h) ==
            \E i, j \in S : /\ i < j /\ frees(i, h) /\ on(j, kinds, h)
                           /\ ~\E k \in S : i < k /\ k < j /\ on(k, {"alloc"}, h)
    IN  UNION {
          Reported("UseAfterFree", afterFree({"store", "load"}, h))
          \cup Reported("DoubleFree", afterFree({"free"}, h))
          \cup Reported("UninitializedLoad",
            \E j \in S : on(j, {"load"}, h) /\ ~\E i \in S : i < j /\ on(i, {"store"}, h))
          \cup Reported("MemoryLeak",
            \E i \in S : on(i, {"alloc"}, h) /\ ~\E j \in S : i < j /\ frees(j, h))
          : h \in Handles}
        \cup Reported("OutputNotWritten",
               Guaranteed(p) /\ \A i \in S : p[i] # <<"set">>)

(* The body was just analysed, and its runs can be enumerated. *)
Judged ==
    /\ phase \in {"run", "rejected"} /\ pc = 1
    /\ errors \cap {"UndefinedLabel", "UndefinedVariable"} = {}
    /\ Forward(prog) /\ Structured(prog)

(* For bodies without loops whose scoped blocks are left to their scopes   *)
(* the analysis is exact: it reports an error of some kind if and only if  *)
(* some run makes it (semantic/mod.rs:363-364, cfg.rs:71-84).              *)
VerdictExact ==
    Judged /\ (\A i \in DOMAIN prog : Is(prog, i, {"free"}) => Depth(prog, i) = 0)
    => errors = UNION {Wrong(prog, S) : S \in Runs(prog)}

(* "Loops eventually exit through a non-loop path, which will be checked"  *)
(* (cfg.rs:139), so that use of a freed handle "is a compile error"        *)
(* (SIGIL-LANGUAGE-REFERENCE.md:324).  It does not hold for bodies with    *)
(* loops: no path examined goes round.                                     *)
FurtherUseRejected == "UseAfterFree" \notin faults
=============================================================================
