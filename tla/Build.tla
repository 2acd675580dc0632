-------------------------------- MODULE Build --------------------------------
(***************************************************************************)
(* The build pipeline (compiler/src/main.rs, cache.rs, hash.rs, linker.rs):*)
(* an executable or a library is built from source files that authors edit *)
(* at any time, through an on-disk cache of object files.                  *)
(*                                                                         *)
(* Contents are their own hashes: two hashes are equal exactly when what   *)
(* is hashed is equal.  A contract is its signature, one of Versions, and  *)
(* its REQUIRES with their pins; a pin or a HASH line may be missing       *)
(* (None).  Contract versions differ in ways that leave the callers'       *)
(* source valid.  Guarantees, native behaviors and the purity check are    *)
(* not here (see BehaviorGraph).                                           *)
(***************************************************************************)
EXTENDS Integers, Sequences, FiniteSets, SequencesExt

CONSTANTS Behaviors,    \* the project's behaviors, one .beh file each
          Library,      \* the behaviors of the library passed with --link
          Patterns,     \* the patterns that ENTRY spawns
          Calls,        \* Calls[u]: what u, a pattern or ENTRY, CALLs
          Requirable,   \* Requirable[b]: what the author may make b REQUIRE (a name without a file too)
          Versions,     \* the signatures a file may declare
          Start,        \* the source files at first
          MaxEdits,     \* bound: edits of source files
          MaxTroubles,  \* bound: edits while a build runs, crashes and failed saves
          MaxBuilds,    \* bound: builds started
          StackLimit    \* bound: the frames of the loader that fit on the stack

Entry == "entry"
Files == Behaviors \cup Library \cup Patterns \cup {Entry}
None == <<>>

(* What a source file says: its signature, the names it REQUIRES, each     *)
(* with its pin, and its HASH line.                                        *)
IsSource(f, s) ==
    /\ s = [ver |-> s.ver, req |-> s.req, hash |-> s.hash]
    /\ s.ver \in Versions /\ DOMAIN s.req \subseteq Requirable[f]

(* Behaviors, library behaviors, patterns and ENTRY are different files.   *)
ASSUME BuildAssumption ==
    /\ IsFiniteSet(Files) /\ Behaviors \cap Library = {} /\ Entry \notin Behaviors \cup Library \cup Patterns
    /\ Patterns \cap (Behaviors \cup Library) = {}
    /\ DOMAIN Calls = Patterns \cup {Entry} /\ \A u \in DOMAIN Calls : Calls[u] \subseteq Behaviors \cup Library
    /\ DOMAIN Start = Files /\ \A f \in Files : IsFiniteSet(Requirable[f]) /\ IsSource(f, Start[f])
    /\ {MaxEdits, MaxTroubles, MaxBuilds, StackLimit} \subseteq Nat

VARIABLES src,       \* src[f]: the text of a source file
          disk,      \* the cache directories, the library and its .generated files
          proc,      \* the compiler process
          exe,       \* the executable last linked, or NoExe
          used       \* how much of each bound is used; changes since the last saved link

vars == <<src, disk, proc, exe, used>>

(* Everything the contract hash covers. *)
ContractHash(s) == <<s.ver, s.req>>

Put(g, x, v) == [y \in DOMAIN g \cup {x} |-> IF y = x THEN v ELSE g[y]]

(* The name and the first 16 digits of the source hash. *)
ObjectPath(f, s) == <<f, s>>

(* An object file: what was compiled, and the signatures of its callees    *)
(* that the code was generated for.  torn: a crash interrupted the write.  *)
Object(s, sigs, t) == [src |-> s, seen |-> sigs, torn |-> t]

CacheEntry(s, h, d) == [source |-> s, contract |-> h, deps |-> d]

NoProc == [pc |-> "idle", mode |-> "exe", fix |-> FALSE, stack |-> <<>>, ast |-> <<>>, loaded |-> {},
           order |-> <<>>, contracts |-> <<>>, symbols |-> {}, manifest |-> <<>>, todo |-> <<>>,
           objs |-> <<>>, wrote |-> {}, raced |-> {}]
NoExe == [ast |-> <<>>, objs |-> <<>>, archive |-> <<>>, registry |-> <<>>, suspect |-> {}]

Modes == {"exe", "lib"}

TypeOK ==
    /\ DOMAIN src = Files /\ \A f \in Files : src[f].ver \in Versions
    /\ \A d \in Modes : DOMAIN disk.manifest[d] \subseteq Files
    /\ \A p \in DOMAIN disk.objects : disk.objects[p].torn \in BOOLEAN
    /\ DOMAIN disk.registry \subseteq Library /\ disk.index \subseteq Library
    /\ proc.pc \in {"idle", "load", "validate", "graph", "compile", "save",
                    "link", "parse", "archive", "index", "registry", "recursing"}
    /\ DOMAIN proc.ast \subseteq Files /\ DOMAIN proc.objs \subseteq Files
    /\ proc.loaded \subseteq Behaviors \cup Library
    /\ DOMAIN exe.objs \subseteq Files \ Library

(* The blocks of the registry that parse: every hash and pin is there. *)
Registered(ast) ==
    Restrict(ast, {f \in DOMAIN ast : ast[f].hash # None /\ \A d \in DOMAIN ast[f].req : ast[f].req[d] # None})

(* The library has been built from its sources before; the project has not. *)
Init ==
    /\ src = Start
    /\ LET built == Restrict(Start, Library)
           object(f) == Object(built[f], Restrict([d \in Library |-> built[d].ver], DOMAIN built[f].req), FALSE)
           deps(f) == {<<d, ContractHash(built[d])>> : d \in DOMAIN built[f].req}
       IN  disk = [manifest |-> [m \in Modes |->
                      IF m = "exe" THEN <<>> ELSE [f \in Library |-> CacheEntry(built[f], built[f].hash, deps(f))]],
                   objects |-> [p \in {ObjectPath(f, built[f]) : f \in Library} |-> object(p[1])],
                   archive |-> [f \in Library |-> object(f)],
                   index |-> Library, registry |-> Registered(built), overwritten |-> {}]
    /\ proc = NoProc
    /\ exe = NoExe
    /\ used = [edits |-> 0, troubles |-> 0, builds |-> 0, changed |-> TRUE]

-----------------------------------------------------------------------------
(* Authors. *)

Idle == proc.pc = "idle"

(* An edit changes the signature, or adds, re-pins, unpins or removes a    *)
(* requirement; its author writes the HASH that --hash prints, leaves the  *)
(* line as it is, or removes it (a library's; the project has a behavior   *)
(* without HASH from the start).  A file that the loader is inside of is   *)
(* not edited until the loader is done with it.                            *)
Revised(f) ==
    LET s == src[f]
        signed(t) == {t} \cup {[t EXCEPT !.hash = None] : l \in Library \cap {f}}
                         \cup {[t EXCEPT !.hash = ContractHash(t)] : b \in (Behaviors \cup Library) \cap {f}}
    IN  (UNION {signed([s EXCEPT !.ver = v]) : v \in Versions})
          \cup (UNION {signed([s EXCEPT !.req = Put(@, e, None)]) : e \in Requirable[f]})
          \cup (UNION {signed([s EXCEPT !.req = Put(@, e, ContractHash(src[e]))]) : e \in Requirable[f] \cap Files})
          \cup {[s EXCEPT !.req = Restrict(@, DOMAIN @ \ {d})] : d \in DOMAIN s.req}

Edit(f) ==
    /\ used.edits < MaxEdits
    /\ ~Idle => used.troubles < MaxTroubles
    /\ \A i \in DOMAIN proc.stack : proc.stack[i].file # f
    /\ \E s \in Revised(f) \ {src[f]} : src' = [src EXCEPT ![f] = s]
    /\ used' = [used EXCEPT !.edits = @ + 1, !.troubles = @ + (IF Idle THEN 0 ELSE 1), !.changed = TRUE]
    /\ UNCHANGED <<disk, proc, exe>>

-----------------------------------------------------------------------------
(* The end of a process.  What it wrote and did not enter in a saved       *)
(* manifest is remembered as overwritten (history).                        *)

Quit(objects, p) ==
    /\ disk' = [disk EXCEPT !.objects = objects, !.overwritten = @ \cup p.wrote]
    /\ proc' = NoProc
    /\ UNCHANGED exe

Fail == Quit(disk.objects, proc) /\ used' = [used EXCEPT !.changed = TRUE] /\ UNCHANGED src

(* The process is killed: between two steps, or while it writes an object  *)
(* file, the archive, or the manifest.                                     *)
Crash ==
    /\ ~Idle /\ used.troubles < MaxTroubles
    /\ used' = [used EXCEPT !.troubles = @ + 1, !.changed = TRUE]
    /\ \/ Quit(disk.objects, proc)
       \/ /\ proc.pc = "compile"
          /\ LET p == ObjectPath(Head(proc.todo), src[Head(proc.todo)])
             IN  Quit(Put(disk.objects, p, Object(p[2], <<>>, TRUE)), [proc EXCEPT !.wrote = @ \cup {p}])
       \/ /\ proc.pc = "archive"
          /\ disk' = [disk EXCEPT !.archive = <<>>] /\ proc' = NoProc /\ UNCHANGED exe
       \/ /\ proc.pc = "save"
          /\ disk' = [disk EXCEPT !.manifest[proc.mode] = <<>>, !.overwritten = @ \cup proc.wrote]
          /\ proc' = NoProc /\ UNCHANGED exe
    /\ UNCHANGED src

-----------------------------------------------------------------------------
(* Reading a source file. *)

Declared(s) == s.hash # None

(* parse_behavior: with --fix-hashes a wrong HASH line is rewritten. *)
Fixed(s) == IF proc.fix /\ Declared(s) THEN [s EXCEPT !.hash = ContractHash(s)] ELSE s

WellHashed(s) == Declared(s) => s.hash = ContractHash(s)

Frame(f, names) == [file |-> f, rest |-> SetToSeq(names)]

(* The library's index and registry are read, ENTRY is parsed. *)
StartExe(fix) ==
    /\ Idle /\ used.builds < MaxBuilds
    /\ used' = [used EXCEPT !.builds = @ + 1]
    /\ proc' = [NoProc EXCEPT !.pc = "load", !.fix = fix,
                  !.symbols = disk.index, !.contracts = disk.registry,
                  !.ast = [f \in {Entry} |-> src[f]],
                  !.stack = <<Frame(Entry, Calls[Entry])>>]
    /\ UNCHANGED <<src, disk, exe>>

Top == Head(proc.stack)
Wanted == Head(Top.rest)

PopName == [proc EXCEPT !.stack[1].rest = Tail(@)]

(* The name is loaded already (its pin is not looked at), or a library has it. *)
LoadKnown ==
    /\ proc.pc = "load" /\ proc.stack # <<>> /\ Top.rest # <<>>
    /\ Wanted \in proc.loaded \cup proc.symbols
    /\ proc' = [PopName EXCEPT !.loaded = @ \cup {Wanted}]
    /\ UNCHANGED <<src, disk, exe, used>>

PinFails(s) ==
    /\ Top.file \in Behaviors
    /\ LET pin == proc.ast[Top.file].req[Wanted] IN pin # None /\ Declared(s) /\ pin # s.hash

(* Mutation: a name is marked as loaded before its own requirements are. *)
LoadFileEarly ==
    /\ proc.pc = "load" /\ proc.stack # <<>> /\ Top.rest # <<>>
    /\ Wanted \notin proc.loaded \cup proc.symbols
    /\ Wanted \in Behaviors
    /\ LET s == Fixed(src[Wanted])
       IN  /\ src' = [src EXCEPT ![Wanted] = s]
           /\ proc' = [PopName EXCEPT !.ast = Put(@, Wanted, s),
                          !.loaded = @ \cup {Wanted},
                          !.stack = <<Frame(Wanted, DOMAIN s.req)>> \o @]
    /\ UNCHANGED <<disk, exe, used>>

(* load_dependencies, load_behavior_by_name: the file is parsed, its pin   *)
(* compared, and its requirements come first.  A file that is still being  *)
(* loaded is not recognised: it is entered again.                          *)
LoadFile ==
    /\ proc.pc = "load" /\ proc.stack # <<>> /\ Top.rest # <<>>
    /\ Wanted \notin proc.loaded \cup proc.symbols
    /\ Wanted \in Behaviors
    /\ LET s == Fixed(src[Wanted])
       IN  /\ src' = [src EXCEPT ![Wanted] = s]
           /\ IF PinFails(s) THEN Quit(disk.objects, proc)
              ELSE /\ proc' = [PopName EXCEPT
                                 !.pc = IF \E i \in DOMAIN proc.stack : proc.stack[i].file = Wanted
                                        THEN "recursing" ELSE "load",
                                 !.ast = Put(@, Wanted, s),
                                 !.stack = <<Frame(Wanted, DOMAIN s.req)>> \o @]
                   /\ UNCHANGED <<disk, exe>>
    /\ UNCHANGED used

LoadMissing ==
    /\ proc.pc = "load" /\ proc.stack # <<>> /\ Top.rest # <<>>
    /\ Wanted \notin proc.loaded \cup proc.symbols \cup Behaviors
    /\ Fail

(* Mutation: the frame is not left. *)
LoadReturnStuck ==
    /\ proc.pc = "load" /\ proc.stack # <<>> /\ Top.rest = <<>>
    /\ proc' = [proc EXCEPT !.loaded = IF Top.file \in Behaviors THEN @ \cup {Top.file} ELSE @]
    /\ UNCHANGED <<src, disk, exe, used>>

(* All requirements of a file are loaded: it comes after them. *)
LoadReturn ==
    /\ proc.pc = "load" /\ proc.stack # <<>> /\ Top.rest = <<>>
    /\ proc' = [proc EXCEPT !.stack = Tail(@),
                  !.loaded = IF Top.file \in Behaviors THEN @ \cup {Top.file} ELSE @,
                  !.order = IF Top.file \in Behaviors THEN Append(@, Top.file) ELSE @]
    /\ UNCHANGED <<src, disk, exe, used>>

(* On a cycle the recursion goes round: the frame that came before the     *)
(* last one of the same file comes again.                                  *)
Recurse ==
    /\ proc.pc = "recursing" /\ Len(proc.stack) < StackLimit
    /\ \E i \in DOMAIN proc.stack :
         /\ i + 1 \in DOMAIN proc.stack /\ proc.stack[i + 1].file = Top.file
         /\ \A j \in 2 .. i : proc.stack[j].file # Top.file
         /\ proc' = [proc EXCEPT !.stack = <<proc.stack[i]>> \o @]
    /\ UNCHANGED <<src, disk, exe, used>>

(* The stack overflows: the process is killed. *)
Overflow == proc.pc = "recursing" /\ Len(proc.stack) >= StackLimit /\ Fail

(* Phases 3 and 3.5: the patterns are parsed, then what they call is loaded. *)
LoadPatterns ==
    /\ proc.pc = "load" /\ proc.stack = <<>>
    /\ IF Patterns \subseteq DOMAIN proc.ast
       THEN proc' = [proc EXCEPT !.pc = "validate", !.fix = FALSE, !.loaded = {}, !.symbols = {}]
       ELSE proc' = [proc EXCEPT
                       !.ast = [f \in DOMAIN @ \cup Patterns |-> IF f \in Patterns THEN src[f] ELSE @[f]],
                       !.stack = <<Frame(Entry, UNION {Calls[p] : p \in Patterns})>>]
    /\ UNCHANGED <<src, disk, exe, used>>

-----------------------------------------------------------------------------
(* Checks. *)

Local == ToSet(proc.order)

Validate ==
    /\ proc.pc = "validate"
    /\ IF \A f \in Local : WellHashed(proc.ast[f])
       THEN proc' = [proc EXCEPT !.pc = "graph"] /\ UNCHANGED <<src, disk, exe, used>>
       ELSE Fail

(* What a name's contract is: local behaviors and the library's share no name. *)
Known(d) == d \in Local \cup DOMAIN proc.contracts
Contract(d) == IF d \in Local THEN proc.ast[d] ELSE proc.contracts[d]

Undefined == {f \in Local : \E d \in DOMAIN proc.ast[f].req : ~Known(d)}

(* Mutation: library behaviors are not looked up. *)
StaleLocal ==
    {f \in Local : \E d \in DOMAIN proc.ast[f].req \cap Local :
        LET pin == proc.ast[f].req[d] IN pin # None /\ pin # ContractHash(Contract(d))}

Stale ==
    {f \in Local : \E d \in DOMAIN proc.ast[f].req :
        LET pin == proc.ast[f].req[d] IN pin # None /\ Known(d) /\ pin # ContractHash(Contract(d))}

(* Phase 5.5; then the cache is opened. *)
CheckGraph ==
    /\ proc.pc = "graph"
    /\ IF Undefined \cup Stale # {} THEN Fail
       ELSE /\ proc' = [proc EXCEPT !.pc = "compile", !.manifest = disk.manifest["exe"],
                          !.todo = proc.order \o SetToSeq(Patterns) \o <<Entry>>]
            /\ UNCHANGED <<src, disk, exe, used>>

-----------------------------------------------------------------------------
(* Compilation through the cache. *)

(* The behaviors and patterns that the code of f calls or spawns. *)
Uses(f) ==
    IF f = Entry THEN Calls[f] \cup Patterns
    ELSE IF f \in Patterns THEN Calls[f] ELSE DOMAIN proc.ast[f].req

Signature(d) == IF d \in Patterns THEN proc.ast[d].ver ELSE Contract(d).ver

Seen(f) == [d \in Uses(f) |-> Signature(d)]

(* Mutation: the pins as written stand for the contracts. *)
DepsHashAsWritten(f) ==
    CASE f \in Patterns -> {}
      [] f = Entry      -> {<<d, proc.ast[d].hash>> : d \in Local}
      [] OTHER          -> {<<d, proc.ast[f].req[d]>> : d \in {e \in DOMAIN proc.ast[f].req : Known(e)}}

(* A behavior's direct dependencies with their contracts' hashes; nothing  *)
(* for a pattern; for ENTRY the HASH lines of the loaded behaviors.        *)
DepsHash(f) ==
    CASE f \in Patterns -> {}
      [] f = Entry      -> {<<d, proc.ast[d].hash>> : d \in Local}
      [] OTHER          -> {<<d, ContractHash(Contract(d))>> : d \in {e \in DOMAIN proc.ast[f].req : Known(e)}}

(* The HASH line, which patterns and ENTRY do not have. *)
OwnHash(f) == IF f \in Behaviors \cup Library THEN proc.ast[f].hash ELSE None

(* Mutation: every file is compiled. *)
NeedsRecompileAlways(f) == f \in Files

NeedsRecompile(f) ==
    ~(/\ f \in DOMAIN proc.manifest
      /\ proc.manifest[f] = CacheEntry(src[f], OwnHash(f), DepsHash(f))
      /\ ObjectPath(f, src[f]) \in DOMAIN disk.objects)

Compiling == proc.pc = "compile"
Current == Head(proc.todo)

(* The file is hashed as it is now, not as it was parsed. *)
Linking(p) ==
    [proc EXCEPT !.todo = Tail(@),
                 !.pc = IF Tail(proc.todo) = <<>> THEN "save" ELSE "compile",
                 !.objs = Put(@, Current, p),
                 !.raced = @ \cup (IF src[Current] # proc.ast[Current] THEN {Current} ELSE {})]

UseCached ==
    /\ Compiling /\ ~NeedsRecompile(Current)
    /\ proc' = Linking(ObjectPath(Current, src[Current]))
    /\ UNCHANGED <<src, disk, exe, used>>

Compile ==
    /\ Compiling /\ NeedsRecompile(Current)
    /\ \A d \in Uses(Current) : d \in Patterns \/ Known(d)
    /\ LET p == ObjectPath(Current, src[Current])
           o == Object(proc.ast[Current], Seen(Current), FALSE)
           e == CacheEntry(src[Current], OwnHash(Current), DepsHash(Current))
       IN  /\ disk' = [disk EXCEPT !.objects = Put(@, p, o)]
           /\ proc' = [Linking(p) EXCEPT
                         !.manifest = Put(@, Current, e),
                         !.wrote = @ \cup {p}]
    /\ UNCHANGED <<src, exe, used>>

(* The generated code calls a behavior that was not declared. *)
CompileFails ==
    /\ Compiling /\ NeedsRecompile(Current)
    /\ \E d \in Uses(Current) : ~(d \in Patterns \/ Known(d))
    /\ Fail

AfterSave == [proc EXCEPT !.pc = IF proc.mode = "lib" THEN "archive" ELSE "link"]

Save ==
    /\ proc.pc = "save"
    /\ disk' = [disk EXCEPT !.manifest[proc.mode] = proc.manifest, !.overwritten = @ \ proc.wrote]
    /\ proc' = AfterSave
    /\ used' = [used EXCEPT !.changed = IF proc.mode = "lib" THEN @
                                         ELSE proc.raced # {} \/ \E f \in DOMAIN proc.ast : src[f] # proc.ast[f]]
    /\ UNCHANGED <<src, exe>>

(* A failed save is reported and the build goes on; the file is as before, *)
(* or truncated.                                                           *)
SaveFails ==
    /\ proc.pc = "save" /\ used.troubles < MaxTroubles
    /\ used' = [used EXCEPT !.troubles = @ + 1, !.changed = TRUE]
    /\ \E m \in {disk.manifest[proc.mode], <<>>} :
         disk' = [disk EXCEPT !.manifest[proc.mode] = m, !.overwritten = @ \cup proc.wrote]
    /\ proc' = AfterSave
    /\ UNCHANGED <<src, exe>>

Chosen == [f \in DOMAIN proc.objs |-> disk.objects[proc.objs[f]]]

(* link_objects: the linker reads the objects and the archive as they are. *)
Link ==
    /\ proc.pc = "link"
    /\ IF /\ \A f \in DOMAIN Chosen : ~Chosen[f].torn
          /\ \A f \in DOMAIN Chosen : \A d \in DOMAIN Chosen[f].seen \cap Library :
               d \in DOMAIN disk.archive /\ ~disk.archive[d].torn
       THEN exe' = [ast |-> proc.ast, objs |-> Chosen, archive |-> disk.archive, registry |-> proc.contracts,
                    suspect |-> proc.raced \cup {f \in DOMAIN Chosen : Chosen[f].src # proc.objs[f][2]
                                                                      \/ proc.objs[f] \in disk.overwritten}]
       ELSE UNCHANGED exe
    /\ proc' = NoProc
    /\ UNCHANGED <<src, disk, used>>

-----------------------------------------------------------------------------
(* sigil --lib: every file of the library is parsed, checked, compiled and *)
(* archived; then the index and the registry are written.                  *)

StartLib(fix) ==
    /\ Library # {}    \* a directory without .beh files is an error
    /\ Idle /\ used.builds < MaxBuilds
    /\ used' = [used EXCEPT !.builds = @ + 1, !.changed = TRUE]
    /\ proc' = [NoProc EXCEPT !.pc = "parse", !.mode = "lib", !.fix = fix]
    /\ UNCHANGED <<src, disk, exe>>

ParseLib ==
    /\ proc.pc = "parse"
    /\ LET parsed == [f \in Library |-> Fixed(src[f])]
       IN  /\ src' = [f \in Files |-> IF f \in Library THEN parsed[f] ELSE src[f]]
           /\ IF \A f \in Library : WellHashed(parsed[f])
              THEN /\ proc' = [proc EXCEPT !.pc = "compile", !.fix = FALSE, !.ast = parsed, !.order = SetToSeq(Library),
                                 !.manifest = disk.manifest["lib"], !.todo = SetToSeq(Library)]
                   /\ UNCHANGED disk
              ELSE Quit(disk.objects, proc)
    /\ UNCHANGED <<exe, used>>

Archive ==
    /\ proc.pc = "archive"
    /\ disk' = [disk EXCEPT !.archive = Chosen]
    /\ proc' = [proc EXCEPT !.pc = "index"]
    /\ UNCHANGED <<src, exe, used>>

WriteIndex ==
    /\ proc.pc = "index"
    /\ disk' = [disk EXCEPT !.index = DOMAIN proc.ast]
    /\ proc' = [proc EXCEPT !.pc = "registry"]
    /\ UNCHANGED <<src, exe, used>>

WriteRegistry ==
    /\ proc.pc = "registry"
    /\ disk' = [disk EXCEPT !.registry = Registered(proc.ast)]
    /\ proc' = NoProc
    /\ UNCHANGED <<src, exe, used>>

-----------------------------------------------------------------------------
Step ==
    \/ LoadKnown \/ LoadFile \/ LoadMissing \/ LoadReturn \/ Recurse \/ Overflow \/ LoadPatterns
    \/ Validate \/ CheckGraph
    \/ UseCached \/ Compile \/ CompileFails \/ Save \/ SaveFails \/ Link
    \/ ParseLib \/ Archive \/ WriteIndex \/ WriteRegistry

Next ==
    \/ \E f \in Files : Edit(f)
    \/ \E fix \in BOOLEAN : StartExe(fix) \/ StartLib(fix)
    \/ Step
    \/ Crash

Spec == Init /\ [][Next]_vars

-----------------------------------------------------------------------------
(* Properties. *)

Code(d) == IF d \in Library THEN exe.archive[d] ELSE exe.objs[d]

(* Nothing interfered with the linked code of f: the file was not edited   *)
(* between parsing and hashing in the build that compiled or linked it,    *)
(* no build that did not save its manifest overwrote the object, and the   *)
(* registry describes what the archive holds (the library build was not    *)
(* interrupted between the two, nor its objects raced).                    *)
Sound(f) ==
    /\ f \notin exe.suspect
    /\ f \in Library => f \in DOMAIN exe.registry /\ exe.registry[f] = exe.archive[f].src

(* The code of f was generated for the signature that the linked d has. *)
Agrees(f, d) == exe.objs[f].seen[d] = Code(d).src.ver

(* In a linked executable every behavior was compiled for the signatures   *)
(* of the code it is linked with, however edits, rebuilds of the library,  *)
(* failed builds and cache hits came before; so was ENTRY, for the local   *)
(* behaviors that have a HASH line (main.rs, phase 6).                     *)
CallsAgree ==
    \A f \in DOMAIN exe.objs \ Patterns : \A d \in DOMAIN exe.objs[f].seen :
        /\ Sound(f) /\ Sound(d)
        /\ f = Entry => d \in Behaviors /\ Declared(exe.ast[d])
        => Agrees(f, d)

(* A pin is kept to the end: the code linked for a pinned requirement has  *)
(* the contract whose hash the REQUIRES line names, whether the project    *)
(* or the library provides it (check_hash_consistency).                    *)
PinsHold ==
    \A f \in DOMAIN exe.objs \cap Behaviors : \A d \in DOMAIN exe.objs[f].src.req :
        LET pin == exe.objs[f].src.req[d]
        IN  pin # None /\ Sound(f) /\ Sound(d) => ContractHash(Code(d).src) = pin

(* Behaviors are validated and compiled after what they require, so        *)
(* requirements that form a cycle never get past the loader.               *)
DependenciesFirst ==
    /\ TypeOK
    /\ proc.mode = "exe" =>
        \A i \in DOMAIN proc.order : \A d \in DOMAIN proc.ast[proc.order[i]].req \cap Behaviors :
            \E j \in 1 .. i - 1 : proc.order[j] = d

(* Building again, with nothing changed since a build that saved its       *)
(* manifest, compiles no behavior and no pattern again, whatever was built *)
(* and edited before (needs_recompile).  Of ENTRY nothing is said, which   *)
(* main.rs means to "always recompile for now".                            *)
UnchangedIsCached ==
    Compiling /\ proc.mode = "exe" /\ ~used.changed /\ Current # Entry => ~NeedsRecompile(Current)

(* The files as parsed require each other in a cycle: in some set of them  *)
(* every file requires a file of the set.                                  *)
Cyclic(ast) ==
    \E C \in SUBSET (DOMAIN ast \cap Behaviors) \ {{}} : \A f \in C : DOMAIN ast[f].req \cap C # {}

(* Every build comes to an end, unless requirements form a cycle: each     *)
(* step of the compiler leaves a smaller rest of the work, in this order:  *)
(* the phases, the files not parsed yet, the names and frames of the       *)
(* loader's stack, the files to compile.  Only in the recursion of the     *)
(* loader (load_dependencies) nothing gets less, and it is entered only    *)
(* by files that really require each other.                                *)
Phase == [idle |-> 0, registry |-> 1, index |-> 2, archive |-> 3, link |-> 4, save |-> 5, compile |-> 6,
          graph |-> 7, validate |-> 8, recursing |-> 9, load |-> 10, parse |-> 11]

WorkLeft(p) ==
    << Phase[p.pc],
       Cardinality((Behaviors \cup Patterns) \ DOMAIN p.ast),
       Len(p.stack) + Cardinality(UNION {{i} \X DOMAIN p.stack[i].rest : i \in DOMAIN p.stack}),
       Len(p.todo) >>

(* v comes before w in the lexicographic order. *)
Less(v, w) == \E i \in 1 .. 4 : v[i] < w[i] /\ \A j \in 1 .. i - 1 : v[j] = w[j]

BuildProgresses ==
    [][~Idle /\ proc' # proc =>
          IF proc'.pc = "recursing" THEN Cyclic(proc'.ast) ELSE Less(WorkLeft(proc'), WorkLeft(proc))]_vars

(* "The deps_hash changes if any dependency's contract changes, triggering *)
(* recompilation of dependents" (cache.rs): patterns and ENTRY are         *)
(* dependents too, even if every callee has its HASH line.                 *)
DependentsRecompiled ==
    \A f \in DOMAIN exe.objs : \A d \in DOMAIN exe.objs[f].seen :
        Sound(f) /\ Sound(d) /\ (d \in Behaviors => Declared(exe.ast[d])) => Agrees(f, d)

(* "CircularDependency: REQUIRES must form a DAG" (main.rs, phase 5.5):    *)
(* requirements in a cycle are an error that the compiler reports, so the  *)
(* loader does not run out of stack on them.                               *)
CyclesReported == ~(proc.pc = "recursing" /\ Len(proc.stack) >= StackLimit)

=============================================================================
