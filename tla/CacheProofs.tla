----------------------------- MODULE CacheProofs -----------------------------
(***************************************************************************)
(* Proofs about module Build: a build of what has not changed since a      *)
(* build that saved its manifest compiles nothing (UnchangedIsCached), for *)
(* every project, library and bound.                                       *)
(***************************************************************************)
EXTENDS BuildProofs

-----------------------------------------------------------------------------
(* The inductive invariant *)

(* The behaviors that ENTRY and the patterns call. *)
Roots == (UNION {Calls[u] : u \in DOMAIN Calls}) \cap Behaviors

(* T has the roots and, by the texts in a, all that its behaviors require. *)
Closed(T, a) ==
    /\ Roots \subseteq T
    /\ \A f \in T \cap DOMAIN a : DOMAIN a[f].req \cap Behaviors \subseteq T

(* The behaviors that a build of what is there now is made of. *)
Needed == {b \in Behaviors : \A T \in SUBSET Behaviors : Closed(T, src) => b \in T}

Loaded == {"validate", "graph"} \cup Late

(* The registry does not change under an executable's build. *)
Stable ==
    proc.mode = "exe" /\ proc.pc # "idle" => proc.contracts = disk.registry /\ Entry \in DOMAIN proc.ast

(* Nothing is loaded that is not needed. *)
Least ==
    proc.pc \in {"load"} \cup Loaded /\ proc.mode = "exe" =>
        \A T \in SUBSET Behaviors : Closed(T, proc.ast) =>
            /\ Local \subseteq T
            /\ \A i \in DOMAIN proc.stack : /\ proc.stack[i].file \in T \cup {Entry}
                                            /\ ToSet(proc.stack[i].rest) \cap Behaviors \subseteq T

(* What ENTRY, and then the patterns too, need loaded. *)
Wants == IF Patterns \subseteq DOMAIN proc.ast THEN Roots ELSE Calls[Entry] \cap Behaviors

(* All that is needed is loaded or will be; a file is parsed once. *)
Complete ==
    /\ proc.pc = "load" =>
         /\ \A i \in DOMAIN proc.stack : proc.stack[i].file = Entry => i = Len(proc.stack)
         /\ proc.stack # <<>> => proc.stack[Len(proc.stack)].file = Entry
         /\ \A d \in Wants :
              \/ d \in Local
              \/ \E i \in DOMAIN proc.stack :
                    /\ i = Len(proc.stack)
                    /\ d \in ToSet(proc.stack[i].rest) \/ (i > 1 /\ proc.stack[i - 1].file = d)
         /\ \A f \in DOMAIN proc.ast \cap Behaviors : f \in Local \/ \E i \in DOMAIN proc.stack : proc.stack[i].file = f
    /\ proc.pc \in Loaded /\ proc.mode = "exe" => Roots \subseteq Local /\ Patterns \subseteq DOMAIN proc.ast

(* A file that the process has dealt with is in its manifest as it was parsed. *)
Entered ==
    proc.pc \in {"compile", "save"} /\ proc.mode = "exe" =>
    \A f \in DOMAIN proc.objs \ proc.raced :
        /\ f \in DOMAIN proc.manifest
        /\ proc.manifest[f] = CacheEntry(proc.ast[f], OwnHash(f), DepsHash(f))
        /\ ObjectPath(f, proc.ast[f]) \in DOMAIN disk.objects

(* OwnHash and DepsHash of a build that starts now. *)
NowHash(f) == IF f \in Behaviors \cup Library THEN src[f].hash ELSE None
NowContract(d) == IF d \in Needed THEN src[d] ELSE disk.registry[d]
NowDeps(f) ==
    CASE f \in Patterns -> {}
      [] f = Entry      -> {<<d, src[d].hash>> : d \in Needed}
      [] OTHER          -> {<<d, ContractHash(NowContract(d))>> :
                               d \in {e \in DOMAIN src[f].req : e \in Needed \cup DOMAIN disk.registry}}

(* Manifest m describes f as it is now, and the object is there. *)
UpToDate(f, m) ==
    /\ f \in DOMAIN m /\ m[f] = CacheEntry(src[f], NowHash(f), NowDeps(f))
    /\ ObjectPath(f, src[f]) \in DOMAIN disk.objects

Targets == Needed \cup Patterns \cup {Entry}

(* Nothing has changed since a build that saved its manifest. *)
Fresh ==
    ~used.changed =>
        /\ proc.mode = "exe"
        /\ \A f \in Needed : WellHashed(src[f])
        /\ \A f \in Targets : UpToDate(f, disk.manifest["exe"])
        /\ proc.pc \in {"compile", "save"} => \A f \in Targets : UpToDate(f, proc.manifest)
        /\ proc.pc # "idle" => \A f \in DOMAIN proc.ast : proc.ast[f] = src[f]

CInv == Stable /\ Least /\ Complete /\ Entered /\ Fresh

-----------------------------------------------------------------------------
(* What is needed, and when the cache is up to date *)

(* What is needed is the least set that is closed under requirements. *)
LEMMA NeededFacts ==
    ASSUME SrcTyped
    PROVE  Needed \subseteq Behaviors /\ Closed(Needed, src) /\ \A T \in SUBSET Behaviors : Closed(T, src) => Needed \subseteq T
  <1>1. Needed \subseteq Behaviors /\ \A T \in SUBSET Behaviors : Closed(T, src) => Needed \subseteq T
    BY DEF Needed
  <1>2. Roots \subseteq Needed
    BY DEF Needed, Closed, Roots
  <1>3. ASSUME NEW f \in Needed \cap DOMAIN src, NEW d \in DOMAIN src[f].req \cap Behaviors
        PROVE  d \in Needed
    <2>1. ASSUME NEW T \in SUBSET Behaviors, Closed(T, src)  PROVE d \in T
      <3>1. f \in T
        BY <1>1, <2>1
      <3> QED BY <2>1, <3>1 DEF Closed
    <2> QED BY <2>1 DEF Needed
  <1>4. Closed(Needed, src)
    BY <1>2, <1>3 DEF Closed
  <1> QED BY <1>1, <1>4

(* A set that is closed under what the files say now is closed under what  *)
(* a process has parsed of them.                                           *)
LEMMA ClosedParsed ==
    ASSUME SrcTyped, NEW a, DOMAIN a \subseteq Files, \A f \in DOMAIN a : a[f] = src[f], NEW T, Closed(T, src)
    PROVE  Closed(T, a)
  BY DEF Closed, SrcTyped

(* When the texts are as they were parsed, the loaded behaviors are the    *)
(* needed ones.                                                            *)
LEMMA LocalNeeded ==
    ASSUME IInv, CInv, proc.pc \in Loaded, proc.mode = "exe", \A f \in DOMAIN proc.ast : proc.ast[f] = src[f]
    PROVE  Needed = Local
  <1>1. SrcTyped /\ DOMAIN proc.ast \subseteq Files /\ Local \subseteq Behaviors \cap DOMAIN proc.ast
    BY DEF IInv, Typed, ProcTyped, Phased
  <1>2. Local \subseteq Needed
    <2>1. Closed(Needed, proc.ast) /\ Needed \in SUBSET Behaviors
      BY <1>1, NeededFacts, ClosedParsed
    <2> QED BY <2>1 DEF CInv, Least
  <1>3. Closed(Local, src)
    <2>1. Roots \subseteq Local
      BY DEF CInv, Complete
    <2>2. ASSUME NEW f \in Local, NEW d \in DOMAIN src[f].req \cap Behaviors  PROVE d \in Local
      <3>1. PICK i \in DOMAIN proc.order : proc.order[i] = f
        BY DEF Local, ToSet
      <3>2. proc.ast[f] = src[f]
        BY <1>1
      <3>3. PICK j \in 1 .. i - 1 : proc.order[j] = d
        BY <3>1, <3>2 DEF IInv, Ordered
      <3>4. j \in DOMAIN proc.order
        <4>1. proc.order \in Seq(Behaviors \cup Library)
          BY DEF IInv, Typed, ProcTyped
        <4>2. DOMAIN proc.order = 1 .. Len(proc.order) /\ Len(proc.order) \in Nat
          BY <4>1
        <4> QED BY <3>1, <3>3, <4>2
      <3> QED BY <3>3, <3>4 DEF Local, ToSet
    <2> QED BY <2>1, <2>2 DEF Closed
  <1>4. Local \in SUBSET Behaviors
    BY <1>1
  <1> QED BY <1>1, <1>2, <1>3, <1>4, NeededFacts

(* Then a build computes the hashes that NowHash and NowDeps give. *)
LEMMA HashesNow ==
    ASSUME IInv, CInv, proc.pc \in Loaded, proc.mode = "exe", \A f \in DOMAIN proc.ast : proc.ast[f] = src[f],
           NEW f \in Targets
    PROVE  /\ f \in DOMAIN proc.ast /\ proc.ast[f] = src[f]
           /\ OwnHash(f) = NowHash(f) /\ DepsHash(f) = NowDeps(f)
  <1>1. Needed = Local /\ Local \subseteq Behaviors \cap DOMAIN proc.ast
    BY LocalNeeded DEF IInv, Phased
  <1>2. /\ Patterns \subseteq DOMAIN proc.ast /\ Entry \in DOMAIN proc.ast /\ proc.contracts = disk.registry
    BY DEF CInv, Complete, Stable, Loaded, Late
  <1>3. f \in DOMAIN proc.ast /\ proc.ast[f] = src[f]
    BY <1>1, <1>2 DEF Targets
  <1>4. OwnHash(f) = NowHash(f)
    BY <1>3 DEF OwnHash, NowHash
  <1>5. CASE f \in Patterns
    <2>1. f # Entry
      BY <1>5, FileFacts
    <2>2. DepsHash(f) = {}
      BY <1>5, <2>1 DEF DepsHash
    <2>3. NowDeps(f) = {}
      BY <1>5, <2>1 DEF NowDeps
    <2> QED BY <1>3, <1>4, <2>2, <2>3
  <1>6. CASE f = Entry
    <2>1. f \notin Patterns
      BY <1>6, FileFacts
    <2>2. DepsHash(f) = {<<d, proc.ast[d].hash>> : d \in Local}
      BY <1>6, <2>1 DEF DepsHash
    <2>3. NowDeps(f) = {<<d, src[d].hash>> : d \in Local}
      BY <1>1, <1>6, <2>1 DEF NowDeps
    <2>4. \A d \in Local : proc.ast[d] = src[d]
      BY <1>1
    <2> QED BY <1>3, <1>4, <2>2, <2>3, <2>4
  <1>7. CASE f \in Local
    <2>1. f \notin Patterns /\ f # Entry
      BY <1>1, <1>7, FileFacts
    <2> DEFINE A == {e \in DOMAIN proc.ast[f].req : Known(e)}
               B == {e \in DOMAIN src[f].req : e \in Needed \cup DOMAIN disk.registry}
               c(d) == ContractHash(Contract(d))
               n(d) == ContractHash(NowContract(d))
    <2>2. A = B
      BY <1>1, <1>2, <1>3 DEF Known
    <2>3. \A d : Contract(d) = NowContract(d)
      BY <1>1, <1>2 DEF Contract, NowContract
    <2>4. DepsHash(f) = {<<d, c(d)>> : d \in A}
      BY <2>1 DEF DepsHash
    <2>5. NowDeps(f) = {<<d, n(d)>> : d \in B}
      BY <2>1 DEF NowDeps
    <2>6. \A d : c(d) = n(d)
      BY <2>3
    <2> HIDE DEF A, B, c, n
    <2> QED BY <1>3, <1>4, <2>2, <2>4, <2>5, <2>6
  <1> QED BY <1>1, <1>5, <1>6, <1>7 DEF Targets

(* What UnchangedIsCached says follows from the invariant. *)
LEMMA Hit ==
    ASSUME IInv, CInv, Compiling, proc.mode = "exe", ~used.changed
    PROVE  ~NeedsRecompile(Current)
  <1>1. proc.pc = "compile" /\ proc.pc \in Loaded
    BY DEF Compiling, Loaded, Late
  <1>2. /\ \A f \in DOMAIN proc.ast : proc.ast[f] = src[f]
        /\ \A f \in Targets : UpToDate(f, proc.manifest)
    BY <1>1 DEF CInv, Fresh
  <1>3. Current \in Targets
    BY <1>1, <1>2, CurrentFacts, LocalNeeded DEF Targets
  <1> QED BY <1>1, <1>2, <1>3, HashesNow DEF UpToDate, NeedsRecompile

(* The texts and the registry as they were: what is needed, and what is    *)
(* up to date, is so still.                                                *)
LEMMA SameTexts ==
    ASSUME DOMAIN src' = DOMAIN src, DOMAIN src = Files, \A f \in Files : src'[f] = src[f],
           disk'.registry = disk.registry, DOMAIN disk.objects \subseteq DOMAIN disk'.objects
    PROVE  Needed' = Needed /\ \A f \in Targets : \A m : UpToDate(f, m) => UpToDate(f, m)'
  <1>1. \A T : Closed(T, src') <=> Closed(T, src)
    BY DEF Closed
  <1>2. Needed' = Needed
    BY <1>1 DEF Needed
  <1>3. ASSUME NEW f \in Targets, NEW m, UpToDate(f, m)  PROVE UpToDate(f, m)'
    <2>1. f \in Files /\ Needed \subseteq Files
      BY FileFacts DEF Targets, Needed
    <2>2. NowHash(f)' = NowHash(f)
      BY <2>1 DEF NowHash
    <2>3. \A d : NowContract(d)' = NowContract(d)
      BY <1>2, <2>1 DEF NowContract
    <2>4. NowDeps(f)' = NowDeps(f)
      <3>1. CASE f \in Patterns
        <4>1. f # Entry
          BY <3>1, FileFacts
        <4>2. NowDeps(f) = {}
          BY <3>1, <4>1 DEF NowDeps
        <4>3. NowDeps(f)' = {}
          BY <3>1, <4>1 DEF NowDeps
        <4> QED BY <4>2, <4>3
      <3>2. CASE f \notin Patterns /\ f = Entry
        <4>1. NowDeps(f)' = {<<d, src'[d].hash>> : d \in Needed}
          BY <1>2, <3>2 DEF NowDeps
        <4>2. NowDeps(f) = {<<d, src[d].hash>> : d \in Needed}
          BY <3>2 DEF NowDeps
        <4> QED BY <2>1, <4>1, <4>2
      <3>3. CASE f \notin Patterns /\ f # Entry
        <4> DEFINE B == {e \in DOMAIN src[f].req : e \in Needed \cup DOMAIN disk.registry}
        <4>1. NowDeps(f)' = {<<d, ContractHash(NowContract(d)')>> : d \in B}
          BY <1>2, <2>1, <3>3 DEF NowDeps
        <4>2. NowDeps(f) = {<<d, ContractHash(NowContract(d))>> : d \in B}
          BY <3>3 DEF NowDeps
        <4> QED BY <2>3, <4>1, <4>2
      <3> QED BY <3>1, <3>2, <3>3
    <2>5. f \in DOMAIN m /\ m[f] = CacheEntry(src[f], NowHash(f), NowDeps(f)) /\ ObjectPath(f, src[f]) \in DOMAIN disk.objects
      BY <1>3 DEF UpToDate
    <2> QED BY <2>1, <2>2, <2>4, <2>5 DEF UpToDate
  <1> QED BY <1>2, <1>3

-----------------------------------------------------------------------------
(* Steps that leave most of it alone *)

(* A process that has ended asks nothing of the cache. *)
LEMMA NoProcessCache == proc = NoProc => Stable /\ Least /\ Complete /\ Entered
  <1> SUFFICES ASSUME proc = NoProc  PROVE Stable /\ Least /\ Complete /\ Entered
    OBVIOUS
  <1>1. proc.pc = "idle"
    BY DEF NoProc
  <1>2. proc.pc \notin {"load"} \cup Loaded
    BY <1>1 DEF Loaded, Late
  <1> QED BY <1>1, <1>2 DEF Stable, Least, Complete, Entered

(* A step that ends the process (an error, a crash, the last phase). *)
LEMMA EndCache == ASSUME proc' = NoProc  PROVE Stable' /\ Least' /\ Complete' /\ Entered'
  <1>1. (proc = NoProc => Stable /\ Least /\ Complete /\ Entered)'
    BY NoProcessCache, PTL
  <1> QED BY <1>1

(* A step that counts as a change: the next build may compile. *)
LEMMA ChangedFresh == ASSUME used'.changed  PROVE Fresh'
  BY DEF Fresh

(* A step that leaves the texts and the manifest on disk as they are, and  *)
(* parses what is there.                                                   *)
LEMMA FreshKept ==
    ASSUME IInv, Fresh, used'.changed = used.changed,
           ~used.changed => DOMAIN src' = Files /\ \A f \in Files : src'[f] = src[f],
           disk'.registry = disk.registry, disk'.manifest = disk.manifest,
           DOMAIN disk.objects \subseteq DOMAIN disk'.objects,
           proc'.mode = "exe", DOMAIN proc'.ast \subseteq Files,
           proc'.pc \in {"compile", "save"} =>
               \/ proc'.manifest = disk.manifest["exe"]
               \/ proc.pc \in {"compile", "save"} /\ proc'.manifest = proc.manifest,
           ~used.changed /\ proc'.pc # "idle" => \A f \in DOMAIN proc'.ast : proc'.ast[f] = src[f]
    PROVE  Fresh'
  <1> SUFFICES ASSUME ~used.changed  PROVE Fresh'
    BY DEF Fresh
  <1>1. /\ DOMAIN src' = Files /\ DOMAIN src = Files /\ \A f \in Files : src'[f] = src[f]
    BY DEF IInv, Typed, SrcTyped
  <1>2. Needed' = Needed /\ \A f \in Targets : \A m : UpToDate(f, m) => UpToDate(f, m)'
    BY <1>1, SameTexts
  <1>3. Targets' = Targets /\ Needed \subseteq Files
    BY <1>2, FileFacts DEF Targets, Needed
  <1>4. /\ \A f \in Needed : WellHashed(src[f])
        /\ \A f \in Targets : UpToDate(f, disk.manifest["exe"])
        /\ proc.pc \in {"compile", "save"} => \A f \in Targets : UpToDate(f, proc.manifest)
    BY DEF Fresh
  <1>5. \A f \in Needed' : WellHashed(src'[f])
    BY <1>1, <1>2, <1>3, <1>4 DEF WellHashed, Declared
  <1>6. \A f \in Targets' : UpToDate(f, disk.manifest["exe"])'
    <2>1. ASSUME NEW f \in Targets, NEW m, m = disk.manifest["exe"]  PROVE UpToDate(f, disk.manifest["exe"])'
      <3>1. UpToDate(f, m) /\ disk'.manifest["exe"] = m
        BY <1>4, <2>1
      <3>2. UpToDate(f, m)'
        BY <1>2, <3>1
      <3> QED BY <3>1, <3>2 DEF UpToDate
    <2> QED BY <1>3, <2>1
  <1>7. proc'.pc \in {"compile", "save"} => \A f \in Targets' : UpToDate(f, proc.manifest)'
    <2>1. ASSUME proc'.pc \in {"compile", "save"}, NEW f \in Targets, NEW m, m = proc'.manifest
          PROVE  UpToDate(f, proc.manifest)'
      <3>1. UpToDate(f, m)
        BY <1>4, <2>1
      <3>2. UpToDate(f, m)'
        BY <1>2, <3>1
      <3> QED BY <2>1, <3>2 DEF UpToDate
    <2> QED BY <1>3, <2>1
  <1>8. proc'.pc # "idle" => \A f \in DOMAIN proc'.ast : proc'.ast[f] = src'[f]
    BY <1>1
  <1> QED BY <1>5, <1>6, <1>7, <1>8 DEF Fresh

(* A step that only takes names or frames off the loader's stack. *)
LEMMA LeastKept ==
    ASSUME Least, proc.pc \in {"load"} \cup Loaded, proc.mode = "exe", proc'.ast = proc.ast, proc'.order = proc.order,
           \A i \in DOMAIN proc'.stack : \E j \in DOMAIN proc.stack :
               /\ proc'.stack[i].file = proc.stack[j].file
               /\ ToSet(proc'.stack[i].rest) \subseteq ToSet(proc.stack[j].rest)
    PROVE  Least'
  <1> SUFFICES ASSUME NEW T \in SUBSET Behaviors, Closed(T, proc'.ast)
               PROVE  /\ Local' \subseteq T
                      /\ \A i \in DOMAIN proc'.stack : /\ proc'.stack[i].file \in T \cup {Entry}
                                                       /\ ToSet(proc'.stack[i].rest) \cap Behaviors \subseteq T
    BY DEF Least, Closed, Roots
  <1>1. Closed(T, proc.ast) /\ Local' = Local
    BY DEF Local
  <1>2. /\ Local \subseteq T
        /\ \A i \in DOMAIN proc.stack : /\ proc.stack[i].file \in T \cup {Entry}
                                        /\ ToSet(proc.stack[i].rest) \cap Behaviors \subseteq T
    BY <1>1 DEF Least
  <1> QED BY <1>1, <1>2

(* A step past the loader that keeps what was parsed and loaded. *)
LEMMA LoadedKept ==
    ASSUME CInv, proc.pc \in Loaded, proc.mode = "exe", proc'.pc \in Loaded, proc'.mode = "exe",
           proc'.ast = proc.ast, proc'.order = proc.order, proc'.stack = proc.stack,
           proc'.contracts = proc.contracts, disk'.registry = disk.registry
    PROVE  Stable' /\ Least' /\ Complete'
  <1>1. proc.pc # "idle" /\ proc'.pc # "load"
    BY DEF Loaded, Late
  <1>2. Stable'
    BY <1>1 DEF CInv, Stable
  <1>3. Least'
    BY LeastKept DEF CInv
  <1>4. Local' = Local
    BY DEF Local
  <1>5. Complete'
    BY <1>1, <1>4 DEF CInv, Complete, Roots
  <1> QED BY <1>2, <1>3, <1>5

-----------------------------------------------------------------------------
(* The loader *)

(* A build starts: ENTRY is parsed, and wants what it calls. *)
LEMMA StartExeCache == ASSUME IInv, CInv, NEW fix \in BOOLEAN, StartExe(fix)  PROVE CInv'
  <1> DEFINE fr == Frame(Entry, Calls[Entry])
  <1>1. /\ src' = src /\ disk' = disk /\ proc.pc = "idle" /\ proc'.pc = "load" /\ proc'.mode = "exe"
        /\ proc'.stack = <<fr>> /\ proc'.ast = [f \in {Entry} |-> src[f]] /\ proc'.order = <<>>
        /\ proc'.contracts = disk.registry
    BY DEF StartExe, Idle, NoProc
  <1>2. used'.changed = used.changed
    BY DEF StartExe, IInv, Typed, UsedFields
  <1>3. fr.file = Entry /\ ToSet(fr.rest) = Calls[Entry]
    BY FrameFacts, CallFacts
  <1> HIDE DEF fr
  <1>4. DOMAIN proc'.stack = {1} /\ Len(proc'.stack) = 1 /\ proc'.stack[1] = fr /\ proc'.stack # <<>>
    BY <1>1
  <1>5. Local' = {} /\ DOMAIN proc'.ast = {Entry} /\ proc'.ast[Entry] = src[Entry]
    BY <1>1 DEF Local, ToSet
  <1>6. Stable' /\ Entered'
    BY <1>1, <1>5 DEF Stable, Entered
  <1>7. Calls[Entry] \cap Behaviors \subseteq Roots
    BY FileFacts DEF Roots
  <1>8. Least'
    <2> SUFFICES ASSUME NEW T \in SUBSET Behaviors, Roots \subseteq T
                 PROVE  /\ Local' \subseteq T
                        /\ \A i \in DOMAIN proc'.stack : /\ proc'.stack[i].file \in T \cup {Entry}
                                                         /\ ToSet(proc'.stack[i].rest) \cap Behaviors \subseteq T
      BY DEF Least, Closed, Roots
    <2> QED BY <1>3, <1>4, <1>5, <1>7
  <1>9. Complete'
    <2>1. Wants' \subseteq Calls[Entry]
      <3>1. CASE Patterns \subseteq DOMAIN proc'.ast
        <4>1. Patterns = {}
          BY <1>5, <3>1, FileFacts
        <4>2. DOMAIN Calls = {Entry}
          BY <4>1, FileFacts
        <4>3. Roots = Calls[Entry] \cap Behaviors
          BY <4>2 DEF Roots
        <4> QED BY <3>1, <4>3 DEF Wants, Roots
      <3>2. CASE ~(Patterns \subseteq DOMAIN proc'.ast)
        BY <3>2 DEF Wants
      <3> QED BY <3>1, <3>2
    <2>2. \A f \in DOMAIN proc'.ast \cap Behaviors : FALSE
      BY <1>5, FileFacts
    <2>3. proc'.pc \notin Loaded
      BY <1>1 DEF Loaded, Late
    <2> QED BY <1>3, <1>4, <2>1, <2>2, <2>3 DEF Complete
  <1>10. Fresh'
    <2>1. DOMAIN src = Files
      BY DEF IInv, Typed, SrcTyped
    <2> QED BY <1>1, <1>2, <1>5, <2>1, FileFacts, FreshKept DEF CInv
  <1> QED BY <1>6, <1>8, <1>9, <1>10 DEF CInv

(* The stack when a name is taken off its top frame. *)
LEMMA PopStack ==
    ASSUME ProcTyped, proc.stack # <<>>, Top.rest # <<>>
    PROVE  /\ DOMAIN PopName.stack = 1 .. Len(proc.stack) /\ DOMAIN proc.stack = 1 .. Len(proc.stack)
           /\ Len(PopName.stack) = Len(proc.stack) /\ Len(proc.stack) \in Nat /\ Len(proc.stack) > 0
           /\ PopName.stack # <<>> /\ Top = proc.stack[1] /\ Wanted \in ToSet(Top.rest)
           /\ \A i \in DOMAIN proc.stack :
                /\ PopName.stack[i].file = proc.stack[i].file
                /\ ToSet(PopName.stack[i].rest) \subseteq ToSet(proc.stack[i].rest)
                /\ \A d \in ToSet(proc.stack[i].rest) : d \in ToSet(PopName.stack[i].rest) \/ (i = 1 /\ d = Wanted)
  <1>1. /\ PopName.stack \in Seq(Frames) /\ Len(PopName.stack) = Len(proc.stack)
        /\ PopName.stack[1].file = Top.file /\ PopName.stack[1].rest = Tail(Top.rest)
        /\ \A i \in 2 .. Len(proc.stack) : PopName.stack[i] = proc.stack[i]
    BY PopFacts
  <1>2. /\ DOMAIN proc.stack = 1 .. Len(proc.stack) /\ Len(proc.stack) \in Nat /\ Len(proc.stack) > 0
        /\ Top = proc.stack[1] /\ ToSet(Top.rest) = ToSet(Tail(Top.rest)) \cup {Wanted}
    BY TopFacts
  <1>3. DOMAIN PopName.stack = 1 .. Len(proc.stack) /\ PopName.stack # <<>>
    BY <1>1, <1>2
  <1>4. ASSUME NEW i \in DOMAIN proc.stack
        PROVE  /\ PopName.stack[i].file = proc.stack[i].file
               /\ ToSet(PopName.stack[i].rest) \subseteq ToSet(proc.stack[i].rest)
               /\ \A d \in ToSet(proc.stack[i].rest) : d \in ToSet(PopName.stack[i].rest) \/ (i = 1 /\ d = Wanted)
    <2>1. CASE i = 1
      BY <1>1, <1>2, <2>1
    <2>2. CASE i # 1
      <3>1. i \in 2 .. Len(proc.stack)
        BY <1>2, <2>2
      <3> QED BY <1>1, <3>1
    <2> QED BY <2>1, <2>2
  <1> QED BY <1>1, <1>2, <1>3, <1>4

(* The name is loaded already, or a library's: nothing is missed. *)
LEMMA LoadKnownCache == ASSUME IInv, CInv, LoadKnown  PROVE CInv'
  <1>1. /\ src' = src /\ disk' = disk /\ used' = used /\ proc.pc = "load" /\ proc.stack # <<>> /\ Top.rest # <<>>
        /\ Wanted \in proc.loaded \cup proc.symbols /\ proc' = [PopName EXCEPT !.loaded = @ \cup {Wanted}]
    BY DEF LoadKnown
  <1>2. ProcTyped /\ proc.mode = "exe" /\ DOMAIN src = Files
    BY <1>1 DEF IInv, Typed, Phased, SrcTyped
  <1>3. /\ proc'.pc = "load" /\ proc'.mode = "exe" /\ proc'.stack = PopName.stack
        /\ proc'.ast = proc.ast /\ proc'.order = proc.order /\ proc'.contracts = proc.contracts
    BY <1>1, <1>2, PopFacts DEF ProcFields
  <1>4. Wanted \in Behaviors => Wanted \in Local
    BY <1>1, <1>2, FileFacts DEF IInv, Loading, ProcTyped
  <1>5. Stable' /\ Entered'
    BY <1>1, <1>2, <1>3 DEF CInv, Stable, Entered
  <1>6. Least'
    <2>1. \A i \in DOMAIN proc'.stack : \E j \in DOMAIN proc.stack :
               /\ proc'.stack[i].file = proc.stack[j].file
               /\ ToSet(proc'.stack[i].rest) \subseteq ToSet(proc.stack[j].rest)
      BY <1>1, <1>2, <1>3, PopStack
    <2>2. proc.pc \in {"load"} \cup Loaded
      BY <1>1
    <2> QED BY <1>2, <1>3, <2>1, <2>2, LeastKept DEF CInv
  <1>7. Complete'
    <2> DEFINE N == Len(proc.stack)
    <2>1. /\ DOMAIN proc'.stack = 1 .. N /\ DOMAIN proc.stack = 1 .. N /\ Len(proc'.stack) = N /\ N \in Nat /\ N > 0
          /\ proc'.stack # <<>>
          /\ \A i \in 1 .. N :
               /\ proc'.stack[i].file = proc.stack[i].file
               /\ \A d \in ToSet(proc.stack[i].rest) : d \in ToSet(proc'.stack[i].rest) \/ d = Wanted
      BY <1>1, <1>2, <1>3, PopStack
    <2>2. Wants' = Wants /\ Local' = Local /\ Wants \subseteq Behaviors /\ proc'.pc \notin Loaded
      BY <1>3 DEF Wants, Roots, Local, Loaded, Late
    <2>3. /\ \A i \in 1 .. N : proc.stack[i].file = Entry => i = N
          /\ proc.stack[N].file = Entry
          /\ \A d \in Wants :
               \/ d \in Local
               \/ d \in ToSet(proc.stack[N].rest) \/ (N > 1 /\ proc.stack[N - 1].file = d)
          /\ \A f \in DOMAIN proc.ast \cap Behaviors : f \in Local \/ \E i \in 1 .. N : proc.stack[i].file = f
      <3> HIDE DEF N
      <3> QED BY <1>1, <2>1 DEF CInv, Complete, N
    <2> HIDE DEF N
    <2>4. N \in 1 .. N /\ (N > 1 => N - 1 \in 1 .. N)
      BY <2>1
    <2>5. ASSUME NEW d \in Wants
          PROVE  \/ d \in Local
                 \/ d \in ToSet(proc'.stack[N].rest) \/ (N > 1 /\ proc'.stack[N - 1].file = d)
      <3>1. CASE d \in ToSet(proc.stack[N].rest)
        <4>1. d \in ToSet(proc'.stack[N].rest) \/ d = Wanted
          BY <2>1, <2>4, <3>1
        <4> QED BY <1>4, <2>2, <4>1
      <3>2. CASE N > 1 /\ proc.stack[N - 1].file = d
        <4>1. proc'.stack[N - 1].file = proc.stack[N - 1].file
          BY <2>1, <2>4, <3>2
        <4> QED BY <3>2, <4>1
      <3> QED BY <2>3, <3>1, <3>2
    <2>6. /\ \A i \in DOMAIN proc'.stack : proc'.stack[i].file = Entry => i = Len(proc'.stack)
          /\ proc'.stack[Len(proc'.stack)].file = Entry
      BY <2>1, <2>3, <2>4
    <2>7. \A d \in Wants' :
             \/ d \in Local'
             \/ \E i \in DOMAIN proc'.stack :
                   /\ i = Len(proc'.stack)
                   /\ d \in ToSet(proc'.stack[i].rest) \/ (i > 1 /\ proc'.stack[i - 1].file = d)
      BY <2>1, <2>2, <2>4, <2>5
    <2>8. \A f \in DOMAIN proc'.ast \cap Behaviors : f \in Local' \/ \E i \in DOMAIN proc'.stack : proc'.stack[i].file = f
      BY <1>3, <2>1, <2>2, <2>3
    <2> QED BY <2>2, <2>6, <2>7, <2>8 DEF Complete
  <1>8. Fresh'
    <2>1. proc.pc # "idle" /\ proc'.pc # "idle" /\ DOMAIN proc'.ast \subseteq Files
      BY <1>1, <1>2, <1>3 DEF ProcTyped
    <2>2. ~used.changed => \A f \in DOMAIN proc'.ast : proc'.ast[f] = src[f]
      BY <1>3, <2>1 DEF CInv, Fresh
    <2> QED BY <1>1, <1>2, <1>3, <2>1, <2>2, FreshKept DEF CInv
  <1> QED BY <1>5, <1>6, <1>7, <1>8 DEF CInv

(* On a cycle the stack grows, and nothing else changes. *)
LEMMA RecurseCache == ASSUME IInv, CInv, Recurse  PROVE CInv'
  <1>1. proc.pc = "recursing" /\ src' = src /\ disk' = disk /\ used' = used
    BY DEF Recurse
  <1>2. ProcTyped /\ proc.mode = "exe" /\ DOMAIN src = Files
    BY <1>1 DEF IInv, Typed, Phased, SrcTyped
  <1>3. PICK i \in DOMAIN proc.stack : proc' = [proc EXCEPT !.stack = <<proc.stack[i]>> \o @]
    BY DEF Recurse
  <1>4. /\ proc'.pc = "recursing" /\ proc'.mode = "exe"
        /\ proc'.ast = proc.ast /\ proc'.order = proc.order /\ proc'.contracts = proc.contracts
    BY <1>1, <1>2, <1>3 DEF ProcTyped, ProcFields
  <1>5. Stable' /\ Entered'
    BY <1>1, <1>2, <1>4 DEF CInv, Stable, Entered
  <1>6. Least' /\ Complete'
    BY <1>4 DEF Least, Complete, Loaded, Late
  <1>7. Fresh'
    <2>1. proc.pc # "idle" /\ proc'.pc # "idle" /\ DOMAIN proc'.ast \subseteq Files
      BY <1>1, <1>2, <1>4 DEF ProcTyped
    <2>2. ~used.changed => \A f \in DOMAIN proc'.ast : proc'.ast[f] = src[f]
      BY <1>4, <2>1 DEF CInv, Fresh
    <2> QED BY <1>1, <1>2, <1>4, <2>1, <2>2, FreshKept DEF CInv
  <1> QED BY <1>5, <1>6, <1>7 DEF CInv

(* Nothing has changed: a file that is loaded is one that is needed, and   *)
(* --fix-hashes leaves it as it is.                                        *)
LEMMA NothingFixed ==
    ASSUME IInv, CInv, proc.pc = "load", proc.stack # <<>>, Top.rest # <<>>, Wanted \in Behaviors, ~used.changed
    PROVE  Fixed(src[Wanted]) = src[Wanted]
  <1>1. ProcTyped /\ proc.mode = "exe" /\ SrcTyped /\ Wanted \in Files
    BY FileFacts DEF IInv, Typed, Phased
  <1>2. \A f \in DOMAIN proc.ast : proc.ast[f] = src[f]
    BY DEF CInv, Fresh
  <1>3. Closed(Needed, proc.ast) /\ Needed \in SUBSET Behaviors
    BY <1>1, <1>2, NeededFacts, ClosedParsed DEF ProcTyped
  <1>4. ToSet(proc.stack[1].rest) \cap Behaviors \subseteq Needed
    BY <1>1, <1>3, TopFacts DEF CInv, Least
  <1>5. Wanted \in Needed
    BY <1>1, <1>4, PopStack
  <1>6. WellHashed(src[Wanted]) /\ IsSource(Wanted, src[Wanted])
    BY <1>1, <1>5 DEF CInv, Fresh, SrcTyped
  <1> DEFINE s == src[Wanted]
             h == ContractHash(s)
  <1>7. s = [ver |-> s.ver, req |-> s.req, hash |-> s.hash] /\ (Declared(s) => s.hash = h)
    BY <1>6 DEF IsSource, WellHashed
  <1> HIDE DEF s, h
  <1>8. Declared(s) => [s EXCEPT !.hash = h] = s
    BY <1>7
  <1> QED BY <1>8 DEF Fixed, s, h

(* A file is parsed: it was wanted, and now its requirements are. *)
LEMMA LoadFileCache == ASSUME IInv, CInv, LoadFile  PROVE CInv'
  <1> DEFINE s == Fixed(src[Wanted])
             fr == Frame(Wanted, DOMAIN s.req)
  <1>1. /\ proc.pc = "load" /\ proc.stack # <<>> /\ Top.rest # <<>> /\ used' = used
        /\ Wanted \notin proc.loaded \cup proc.symbols /\ Wanted \in Behaviors
        /\ src' = [src EXCEPT ![Wanted] = s]
    BY DEF LoadFile
  <1>2. ProcTyped /\ proc.mode = "exe" /\ SrcTyped /\ DOMAIN src = Files /\ Wanted \in Files
    BY <1>1, FileFacts DEF IInv, Typed, Phased, SrcTyped
  <1>3. IsSource(Wanted, s) /\ DOMAIN s.req \subseteq Requirable[Wanted]
    BY <1>2, FixedTyped, SourceFacts DEF SrcTyped
  <1>4. ToSet(fr.rest) = DOMAIN s.req /\ fr.file = Wanted /\ fr \in Frames
    BY <1>1, <1>2, <1>3, FrameFacts, FileFacts, FS_Subset
  <1>5. ~used.changed => s = src[Wanted]
    BY <1>1, NothingFixed
  <1> HIDE DEF s, fr
  <1>6. ~used.changed => DOMAIN src' = Files /\ \A f \in Files : src'[f] = src[f]
    BY <1>1, <1>2, <1>5
  <1>7. CASE PinFails(s)
    <2>1. disk' = [disk EXCEPT !.objects = disk.objects, !.overwritten = @ \cup proc.wrote] /\ proc' = NoProc
      BY <1>7 DEF LoadFile, Quit, s
    <2>2. DOMAIN disk = DiskFields
      BY DEF IInv, Typed, DiskTyped
    <2>3. disk'.manifest = disk.manifest /\ disk'.objects = disk.objects /\ disk'.registry = disk.registry
      BY <2>1, <2>2 DEF DiskFields
    <2>4. proc'.mode = "exe" /\ proc'.pc = "idle" /\ DOMAIN proc'.ast = {}
      BY <2>1 DEF NoProc
    <2>5. Fresh'
      BY <1>1, <1>6, <2>3, <2>4, FreshKept DEF CInv
    <2> QED BY <2>1, <2>5, EndCache DEF CInv
  <1>8. CASE ~PinFails(s)
    <2> DEFINE cyclic == \E i \in DOMAIN proc.stack : proc.stack[i].file = Wanted
               N == Len(proc.stack)
    <2>1. /\ proc' = [PopName EXCEPT !.pc = IF cyclic THEN "recursing" ELSE "load",
                        !.ast = Put(@, Wanted, s), !.stack = <<fr>> \o @]
          /\ disk' = disk
      BY <1>8 DEF LoadFile, s, fr
    <2>2. /\ proc'.pc \in {"load", "recursing"} /\ (proc'.pc = "load" => ~cyclic)
          /\ proc'.mode = "exe" /\ proc'.stack = <<fr>> \o PopName.stack
          /\ proc'.ast = Put(proc.ast, Wanted, s) /\ proc'.order = proc.order
          /\ proc'.contracts = proc.contracts
      <3> HIDE DEF cyclic
      <3> QED BY <1>1, <1>2, <2>1, PopFacts DEF ProcFields
    <2>3. /\ DOMAIN proc'.ast = DOMAIN proc.ast \cup {Wanted} /\ proc'.ast[Wanted] = s
          /\ \A f \in DOMAIN proc.ast \ {Wanted} : proc'.ast[f] = proc.ast[f]
      <3>1. /\ DOMAIN Put(proc.ast, Wanted, s) = DOMAIN proc.ast \cup {Wanted} /\ Put(proc.ast, Wanted, s)[Wanted] = s
            /\ \A f \in DOMAIN proc.ast \ {Wanted} : Put(proc.ast, Wanted, s)[f] = proc.ast[f]
        BY DEF Put
      <3> QED BY <2>2, <3>1
    <2>4. /\ DOMAIN PopName.stack = 1 .. N /\ DOMAIN proc.stack = 1 .. N /\ Len(PopName.stack) = N /\ N \in Nat /\ N > 0
          /\ \A i \in 1 .. N :
               /\ PopName.stack[i].file = proc.stack[i].file
               /\ ToSet(PopName.stack[i].rest) \subseteq ToSet(proc.stack[i].rest)
               /\ \A d \in ToSet(proc.stack[i].rest) : d \in ToSet(PopName.stack[i].rest) \/ (i = 1 /\ d = Wanted)
          /\ Wanted \in ToSet(proc.stack[1].rest) /\ PopName.stack \in Seq(Frames)
      BY <1>1, <1>2, PopStack, PopFacts
    <2>5. /\ proc'.stack \in Seq(Frames) /\ DOMAIN proc'.stack = 1 .. N + 1
          /\ proc'.stack[1] = fr /\ \A i \in 2 .. N + 1 : proc'.stack[i] = PopName.stack[i - 1]
      BY <1>4, <2>2, <2>4, PushFacts
    <2>6. Len(proc'.stack) = N + 1 /\ proc'.stack # <<>>
      <3> HIDE DEF N
      <3> QED BY <2>4, <2>5
    <2> HIDE DEF N
    <2>7. \A i \in 1 .. N : i + 1 \in DOMAIN proc'.stack /\ proc'.stack[i + 1] = PopName.stack[i]
      BY <2>4, <2>5
    <2>8. \A i \in DOMAIN proc'.stack : i = 1 \/ \E j \in 1 .. N : i = j + 1 /\ proc'.stack[i] = PopName.stack[j]
      <3> SUFFICES ASSUME NEW i \in DOMAIN proc'.stack, i # 1
                   PROVE  \E j \in 1 .. N : i = j + 1 /\ proc'.stack[i] = PopName.stack[j]
        OBVIOUS
      <3>1. i \in 2 .. N + 1 /\ i - 1 \in 1 .. N /\ i = (i - 1) + 1
        BY <2>4, <2>5
      <3> QED BY <2>5, <3>1
    <2>9. Local' = Local /\ Wanted \notin Local /\ Local = proc.loaded \cap Behaviors
      BY <1>1, <2>2 DEF Local, IInv, Loading
    <2>10. Stable' /\ Entered'
      BY <1>1, <1>2, <2>1, <2>2, <2>3 DEF CInv, Stable, Entered
    <2>11. /\ \A i \in 1 .. N : proc.stack[i].file = Entry => i = N
           /\ proc.stack[N].file = Entry
           /\ \A d \in Wants :
                \/ d \in Local
                \/ d \in ToSet(proc.stack[N].rest) \/ (N > 1 /\ proc.stack[N - 1].file = d)
           /\ \A f \in DOMAIN proc.ast \cap Behaviors : f \in Local \/ \E i \in 1 .. N : proc.stack[i].file = f
      BY <1>1, <2>4 DEF CInv, Complete, N
    <2>12. Least'
      <3> SUFFICES ASSUME proc'.pc = "load", NEW T \in SUBSET Behaviors, Closed(T, proc'.ast)
                   PROVE  /\ Local' \subseteq T
                          /\ \A i \in DOMAIN proc'.stack : /\ proc'.stack[i].file \in T \cup {Entry}
                                                           /\ ToSet(proc'.stack[i].rest) \cap Behaviors \subseteq T
        BY <2>2 DEF Least, Closed, Roots, Loaded, Late
      <3>1. Wanted \notin DOMAIN proc.ast
        BY <1>1, <2>2, <2>4, <2>9, <2>11
      <3>2. Closed(T, proc.ast)
        BY <2>3, <3>1 DEF Closed
      <3>3. /\ Local \subseteq T
            /\ \A i \in 1 .. N : proc.stack[i].file \in T \cup {Entry} /\ ToSet(proc.stack[i].rest) \cap Behaviors \subseteq T
        BY <1>1, <1>2, <2>4, <3>2 DEF CInv, Least
      <3>4. 1 \in 1 .. N
        BY <2>4
      <3>5. Wanted \in T
        BY <1>1, <2>4, <3>3, <3>4
      <3>6. DOMAIN s.req \cap Behaviors \subseteq T
        BY <2>3, <3>5 DEF Closed
      <3>7. \A j \in 1 .. N : /\ PopName.stack[j].file \in T \cup {Entry}
                              /\ ToSet(PopName.stack[j].rest) \cap Behaviors \subseteq T
        BY <2>4, <3>3
      <3> QED BY <1>4, <2>5, <2>8, <2>9, <3>3, <3>5, <3>6, <3>7
    <2>13. Complete'
      <3>1. Wants' = Wants /\ proc'.pc \notin Loaded
        BY <1>1, <2>2, <2>3, FileFacts DEF Wants, Roots, Loaded, Late
      <3>2. N \in 1 .. N /\ (N > 1 => N - 1 \in 1 .. N /\ (N - 1) + 1 = N) /\ N + 1 > 1 /\ (N + 1) - 1 = N
        BY <2>4
      <3>3. Wanted # Entry
        BY <1>1, FileFacts
      <3>4. /\ \A i \in DOMAIN proc'.stack : proc'.stack[i].file = Entry => i = N + 1
            /\ proc'.stack[N + 1].file = Entry
        <4>1. ASSUME NEW i \in DOMAIN proc'.stack, proc'.stack[i].file = Entry  PROVE i = N + 1
          <5>1. i # 1
            BY <1>4, <2>5, <3>3, <4>1
          <5>2. PICK j \in 1 .. N : i = j + 1 /\ proc'.stack[i] = PopName.stack[j]
            BY <2>8, <5>1
          <5>3. j = N
            BY <2>4, <2>11, <4>1, <5>2
          <5> QED BY <5>2, <5>3
        <4>2. proc'.stack[N + 1] = PopName.stack[N] /\ PopName.stack[N].file = proc.stack[N].file
          BY <2>4, <2>7, <3>2
        <4> QED BY <2>11, <4>1, <4>2
      <3>5. ASSUME NEW d \in Wants
            PROVE  \/ d \in Local
                   \/ d \in ToSet(proc'.stack[N + 1].rest) \/ proc'.stack[N].file = d
        <4>1. CASE d \in ToSet(PopName.stack[N].rest)
          BY <2>7, <3>2, <4>1
        <4>2. CASE N = 1 /\ d = Wanted
          BY <1>4, <2>5, <4>2
        <4>3. CASE N > 1 /\ proc.stack[N - 1].file = d
          <5>1. PopName.stack[N - 1].file = d
            BY <2>4, <3>2, <4>3
          <5>2. proc'.stack[N] = PopName.stack[N - 1]
            BY <2>7, <3>2, <4>3
          <5> QED BY <5>1, <5>2
        <4> QED BY <2>4, <2>11, <3>2, <4>1, <4>2, <4>3
      <3>6. \A d \in Wants' :
               \/ d \in Local'
               \/ \E i \in DOMAIN proc'.stack :
                     /\ i = Len(proc'.stack)
                     /\ d \in ToSet(proc'.stack[i].rest) \/ (i > 1 /\ proc'.stack[i - 1].file = d)
        BY <2>6, <2>7, <2>9, <3>1, <3>2, <3>5
      <3>7. \A f \in DOMAIN proc'.ast \cap Behaviors : f \in Local' \/ \E i \in DOMAIN proc'.stack : proc'.stack[i].file = f
        <4> SUFFICES ASSUME NEW f \in DOMAIN proc'.ast \cap Behaviors, f \notin Local
                     PROVE  \E i \in DOMAIN proc'.stack : proc'.stack[i].file = f
          BY <2>9
        <4>1. CASE f = Wanted
          <5>1. 1 \in DOMAIN proc'.stack
            BY <2>4, <2>5
          <5> QED BY <1>4, <2>5, <4>1, <5>1
        <4>2. CASE f # Wanted
          <5>1. PICK i \in 1 .. N : proc.stack[i].file = f
            BY <2>3, <2>11, <4>2
          <5>2. i + 1 \in DOMAIN proc'.stack /\ proc'.stack[i + 1] = PopName.stack[i] /\ PopName.stack[i].file = f
            BY <2>4, <2>7, <5>1
          <5> QED BY <5>2
        <4> QED BY <4>1, <4>2
      <3> QED BY <2>6, <3>1, <3>4, <3>6, <3>7 DEF Complete
    <2>14. Fresh'
      <3>1. DOMAIN proc'.ast \subseteq Files /\ proc'.pc \notin {"compile", "save"}
        BY <1>2, <2>2, <2>3 DEF ProcTyped
      <3>2. ~used.changed => \A f \in DOMAIN proc'.ast : proc'.ast[f] = src[f]
        BY <1>1, <1>5, <2>3 DEF CInv, Fresh
      <3>3. used'.changed = used.changed
        BY <1>1
      <3> QED BY <1>6, <2>1, <2>2, <3>1, <3>2, <3>3, FreshKept DEF CInv
    <2> QED BY <2>10, <2>12, <2>13, <2>14 DEF CInv
  <1> QED BY <1>7, <1>8

(* A file whose requirements are loaded: it is needed, as its frame was. *)
LEMMA LoadReturnCache == ASSUME IInv, CInv, LoadReturn  PROVE CInv'
  <1> DEFINE N == Len(proc.stack)
  <1>1. /\ src' = src /\ disk' = disk /\ used' = used /\ proc.pc = "load" /\ proc.stack # <<>> /\ Top.rest = <<>>
        /\ proc' = [proc EXCEPT !.stack = Tail(@),
                  !.loaded = IF Top.file \in Behaviors THEN @ \cup {Top.file} ELSE @,
                  !.order = IF Top.file \in Behaviors THEN Append(@, Top.file) ELSE @]
    BY DEF LoadReturn
  <1>2. ProcTyped /\ proc.mode = "exe" /\ DOMAIN src = Files
    BY <1>1 DEF IInv, Typed, Phased, SrcTyped
  <1>3. /\ proc'.pc = "load" /\ proc'.mode = "exe" /\ proc'.stack = Tail(proc.stack) /\ proc'.ast = proc.ast
        /\ proc'.order = (IF Top.file \in Behaviors THEN Append(proc.order, Top.file) ELSE proc.order)
        /\ proc'.contracts = proc.contracts
    BY <1>1, <1>2 DEF ProcFields, ProcTyped
  <1>4. /\ Top = proc.stack[1] /\ DOMAIN proc.stack = 1 .. N /\ N \in Nat /\ N > 0 /\ 1 \in 1 .. N
        /\ proc.stack \in Seq(Frames) /\ proc.order \in Seq(Behaviors \cup Library)
        /\ Top.file \in Behaviors \cup {Entry}
    BY <1>1, <1>2, TopFacts DEF ProcTyped
  <1>5. /\ proc'.stack \in Seq(Frames) /\ DOMAIN proc'.stack = 1 .. N - 1 /\ Len(proc'.stack) = N - 1
        /\ \A i \in 1 .. N - 1 : proc'.stack[i] = proc.stack[i + 1]
    BY <1>1, <1>3, <1>4
  <1>6. Local' = IF Top.file \in Behaviors THEN Local \cup {Top.file} ELSE Local
    <2>1. CASE Top.file \in Behaviors
      <3>1. ToSet(Append(proc.order, Top.file)) = ToSet(proc.order) \cup {Top.file}
        BY <1>4, <2>1, AppendFacts
      <3> QED BY <1>3, <2>1, <3>1 DEF Local
    <2>2. CASE Top.file \notin Behaviors
      BY <1>3, <2>2 DEF Local
    <2> QED BY <2>1, <2>2
  <1>7. Stable' /\ Entered'
    BY <1>1, <1>2, <1>3 DEF CInv, Stable, Entered
  <1>8. /\ \A i \in 1 .. N : proc.stack[i].file = Entry => i = N
        /\ proc.stack[N].file = Entry
        /\ \A d \in Wants :
             \/ d \in Local
             \/ d \in ToSet(proc.stack[N].rest) \/ (N > 1 /\ proc.stack[N - 1].file = d)
        /\ \A f \in DOMAIN proc.ast \cap Behaviors : f \in Local \/ \E i \in 1 .. N : proc.stack[i].file = f
    BY <1>1, <1>4 DEF CInv, Complete
  <1> HIDE DEF N
  <1>9. \A i \in 2 .. N : i - 1 \in DOMAIN proc'.stack /\ proc'.stack[i - 1] = proc.stack[i]
    <2> SUFFICES ASSUME NEW i \in 2 .. N
                 PROVE  i - 1 \in DOMAIN proc'.stack /\ proc'.stack[i - 1] = proc.stack[i]
      OBVIOUS
    <2>1. i - 1 \in 1 .. N - 1 /\ (i - 1) + 1 = i
      BY <1>4
    <2> QED BY <1>5, <2>1
  <1>10. \A i \in DOMAIN proc'.stack : \E j \in 2 .. N : i = j - 1 /\ proc'.stack[i] = proc.stack[j]
    <2> SUFFICES ASSUME NEW i \in DOMAIN proc'.stack
                 PROVE  \E j \in 2 .. N : i = j - 1 /\ proc'.stack[i] = proc.stack[j]
      OBVIOUS
    <2>1. i + 1 \in 2 .. N /\ i = (i + 1) - 1
      BY <1>4, <1>5
    <2> QED BY <1>5, <2>1
  <1>11. \A j \in 2 .. N : j \in 1 .. N
    BY <1>4
  <1>12. Least'
    <2> SUFFICES ASSUME NEW T \in SUBSET Behaviors, Closed(T, proc.ast)
                 PROVE  /\ Local' \subseteq T
                        /\ \A i \in DOMAIN proc'.stack : /\ proc'.stack[i].file \in T \cup {Entry}
                                                         /\ ToSet(proc'.stack[i].rest) \cap Behaviors \subseteq T
      BY <1>3 DEF Least, Closed, Roots
    <2>1. /\ Local \subseteq T
          /\ \A i \in 1 .. N : proc.stack[i].file \in T \cup {Entry} /\ ToSet(proc.stack[i].rest) \cap Behaviors \subseteq T
      BY <1>1, <1>2, <1>4 DEF CInv, Least
    <2>2. Top.file \in Behaviors => Top.file \in T
      BY <1>4, <2>1, FileFacts
    <2> QED BY <1>6, <1>10, <1>11, <2>1, <2>2
  <1>13. Complete'
    <2>1. Wants' = Wants /\ proc'.pc \notin Loaded
      BY <1>3 DEF Wants, Roots, Loaded, Late
    <2>2. ToSet(<<>>) = {}
      BY DEF ToSet
    <2>3. N = 1 => proc'.stack = <<>>
      BY <1>5
    <2>4. /\ \A i \in DOMAIN proc'.stack : proc'.stack[i].file = Entry => i = Len(proc'.stack)
          /\ proc'.stack # <<>> => proc'.stack[Len(proc'.stack)].file = Entry
      <3>1. ASSUME NEW i \in DOMAIN proc'.stack, proc'.stack[i].file = Entry  PROVE i = N - 1
        <4>1. PICK j \in 2 .. N : i = j - 1 /\ proc'.stack[i] = proc.stack[j]
          BY <1>10
        <4>2. j = N
          BY <1>8, <1>11, <3>1, <4>1
        <4> QED BY <4>1, <4>2
      <3>2. ASSUME N # 1  PROVE proc'.stack[N - 1].file = Entry
        <4>1. N \in 2 .. N
          BY <1>4, <3>2
        <4> QED BY <1>8, <1>9, <4>1
      <3> QED BY <1>5, <2>3, <3>1, <3>2
    <2>5. ASSUME NEW d \in Wants'
          PROVE  \/ d \in Local'
                 \/ \E i \in DOMAIN proc'.stack :
                       /\ i = Len(proc'.stack)
                       /\ d \in ToSet(proc'.stack[i].rest) \/ (i > 1 /\ proc'.stack[i - 1].file = d)
      <3>1. d \in Local \/ d \in ToSet(proc.stack[N].rest) \/ (N > 1 /\ proc.stack[N - 1].file = d)
        BY <1>8, <2>1
      <3>2. CASE d \in Local
        BY <1>6, <3>2
      <3>3. CASE d \in ToSet(proc.stack[N].rest)
        <4>1. N # 1
          BY <1>1, <1>4, <2>2, <3>3
        <4>2. N \in 2 .. N
          BY <1>4, <4>1
        <4> QED BY <1>5, <1>9, <3>3, <4>2
      <3>4. CASE N > 1 /\ proc.stack[N - 1].file = d
        <4>1. N \in 2 .. N
          BY <1>4, <3>4
        <4>2. CASE N = 2
          <5>1. d = Top.file /\ d \in Behaviors
            BY <1>4, <2>1, <3>4, <4>2 DEF Wants, Roots
          <5> QED BY <1>6, <5>1
        <4>3. CASE N # 2
          <5>1. N - 1 \in 2 .. N /\ N - 1 > 1
            BY <1>4, <3>4, <4>3
          <5>2. proc'.stack[(N - 1) - 1] = proc.stack[N - 1] /\ N - 1 \in DOMAIN proc'.stack
            BY <1>9, <4>1, <5>1
          <5> QED BY <1>5, <3>4, <5>1, <5>2
        <4> QED BY <4>2, <4>3
      <3> QED BY <3>1, <3>2, <3>3, <3>4
    <2>6. ASSUME NEW f \in DOMAIN proc'.ast \cap Behaviors, f \notin Local'
          PROVE  \E i \in DOMAIN proc'.stack : proc'.stack[i].file = f
      <3>1. f \notin Local /\ f # Top.file
        BY <1>6, <2>6
      <3>2. PICK i \in 1 .. N : proc.stack[i].file = f
        BY <1>3, <1>8, <3>1
      <3>3. i # 1
        BY <1>4, <3>1, <3>2
      <3>4. i \in 2 .. N
        BY <1>4, <3>3
      <3> QED BY <1>9, <3>2, <3>4
    <2> QED BY <2>1, <2>4, <2>5, <2>6 DEF Complete
  <1>14. Fresh'
    <2>1. proc.pc # "idle" /\ proc'.pc # "idle" /\ DOMAIN proc'.ast \subseteq Files
      BY <1>1, <1>2, <1>3 DEF ProcTyped
    <2>2. ~used.changed => \A f \in DOMAIN proc'.ast : proc'.ast[f] = src[f]
      BY <1>3, <2>1 DEF CInv, Fresh
    <2> QED BY <1>1, <1>2, <1>3, <2>1, <2>2, FreshKept DEF CInv
  <1> QED BY <1>7, <1>12, <1>13, <1>14 DEF CInv

(* ENTRY has what it calls; now the patterns are parsed, or have theirs. *)
LEMMA LoadPatternsCache == ASSUME IInv, CInv, LoadPatterns  PROVE CInv'
  <1>1. src' = src /\ disk' = disk /\ used' = used /\ proc.pc = "load" /\ proc.stack = <<>>
    BY DEF LoadPatterns
  <1>2. ProcTyped /\ proc.mode = "exe" /\ DOMAIN <<>> = {} /\ DOMAIN src = Files /\ proc.pc # "idle"
    BY <1>1 DEF IInv, Typed, Phased, SrcTyped
  <1>3. Wants \subseteq Local /\ \A f \in DOMAIN proc.ast \cap Behaviors : f \in Local
    BY <1>1, <1>2 DEF CInv, Complete
  <1>4. CASE Patterns \subseteq DOMAIN proc.ast
    <2>1. proc' = [proc EXCEPT !.pc = "validate", !.fix = FALSE, !.loaded = {}, !.symbols = {}]
      BY <1>4 DEF LoadPatterns
    <2>2. /\ proc'.pc = "validate" /\ proc'.mode = "exe" /\ proc'.stack = proc.stack
          /\ proc'.ast = proc.ast /\ proc'.order = proc.order /\ proc'.contracts = proc.contracts
      BY <1>2, <2>1 DEF ProcFields, ProcTyped
    <2>3. Stable' /\ Entered'
      BY <1>1, <1>2, <2>2 DEF CInv, Stable, Entered
    <2>4. Least'
      BY <1>1, <1>2, <2>2, LeastKept DEF CInv
    <2>5. Complete'
      <3>1. Roots \subseteq Local /\ Local' = Local
        BY <1>3, <1>4, <2>2 DEF Wants, Local
      <3> QED BY <1>4, <2>2, <3>1 DEF Complete, Roots
    <2>6. Fresh'
      <3>1. DOMAIN proc'.ast \subseteq Files /\ proc'.pc \notin {"compile", "save"}
        BY <1>2, <2>2 DEF ProcTyped
      <3>2. ~used.changed => \A f \in DOMAIN proc'.ast : proc'.ast[f] = src[f]
        BY <1>2, <2>2 DEF CInv, Fresh
      <3> QED BY <1>1, <1>2, <2>2, <3>1, <3>2, FreshKept DEF CInv
    <2> QED BY <2>3, <2>4, <2>5, <2>6 DEF CInv
  <1>5. CASE ~(Patterns \subseteq DOMAIN proc.ast)
    <2> DEFINE called == UNION {Calls[p] : p \in Patterns}
               fr == Frame(Entry, called)
    <2>1. proc' = [proc EXCEPT
                     !.ast = [f \in DOMAIN @ \cup Patterns |-> IF f \in Patterns THEN src[f] ELSE @[f]],
                     !.stack = <<fr>>]
      BY <1>5 DEF LoadPatterns
    <2>2. /\ proc'.pc = "load" /\ proc'.mode = "exe" /\ proc'.stack = <<fr>>
          /\ proc'.ast = [f \in DOMAIN proc.ast \cup Patterns |-> IF f \in Patterns THEN src[f] ELSE proc.ast[f]]
          /\ proc'.order = proc.order /\ proc'.contracts = proc.contracts
      <3> HIDE DEF fr
      <3> QED BY <1>1, <1>2, <2>1 DEF ProcFields, ProcTyped
    <2>3. fr.file = Entry /\ ToSet(fr.rest) = called
      BY FrameFacts, CallFacts
    <2>4. Roots = (called \cup Calls[Entry]) \cap Behaviors
      <3>1. DOMAIN Calls = Patterns \cup {Entry}
        BY FileFacts
      <3> QED BY <3>1 DEF Roots
    <2> HIDE DEF fr, called
    <2>5. DOMAIN proc'.stack = {1} /\ Len(proc'.stack) = 1 /\ proc'.stack[1] = fr /\ proc'.stack # <<>>
      BY <2>2
    <2>6. /\ DOMAIN proc'.ast = DOMAIN proc.ast \cup Patterns
          /\ \A f \in Patterns : proc'.ast[f] = src[f]
          /\ \A f \in DOMAIN proc.ast \ Patterns : proc'.ast[f] = proc.ast[f]
      BY <2>2
    <2>7. Local' = Local /\ proc'.pc \notin Loaded
      BY <2>2 DEF Local, Loaded, Late
    <2>8. Stable' /\ Entered'
      BY <1>1, <1>2, <2>2, <2>6 DEF CInv, Stable, Entered
    <2>9. Least'
      <3> SUFFICES ASSUME NEW T \in SUBSET Behaviors, Closed(T, proc'.ast)
                   PROVE  /\ Local' \subseteq T
                          /\ \A i \in DOMAIN proc'.stack : /\ proc'.stack[i].file \in T \cup {Entry}
                                                           /\ ToSet(proc'.stack[i].rest) \cap Behaviors \subseteq T
        BY DEF Least, Closed, Roots
      <3>1. Closed(T, proc.ast)
        BY <2>6, FileFacts DEF Closed
      <3>2. Local \subseteq T
        BY <1>1, <1>2, <3>1 DEF CInv, Least
      <3>3. called \cap Behaviors \subseteq T
        BY <2>4, <3>1 DEF Closed
      <3> QED BY <2>3, <2>5, <2>7, <3>2, <3>3
    <2>10. Complete'
      <3>1. Calls[Entry] \cap Behaviors \subseteq Local
        BY <1>3, <1>5 DEF Wants
      <3>2. Wants' \subseteq Local \cup called
        BY <2>4, <2>6, <3>1 DEF Wants, Roots
      <3>3. \A f \in DOMAIN proc'.ast \cap Behaviors : f \in Local'
        BY <1>3, <2>6, <2>7, FileFacts
      <3> QED BY <2>3, <2>5, <2>7, <3>2, <3>3 DEF Complete
    <2>11. Fresh'
      <3>1. DOMAIN proc'.ast \subseteq Files /\ proc'.pc \notin {"compile", "save"}
        BY <1>2, <2>2, <2>6, FileFacts DEF ProcTyped
      <3>2. ~used.changed => \A f \in DOMAIN proc.ast : proc.ast[f] = src[f]
        BY <1>2 DEF CInv, Fresh
      <3>3. ~used.changed => \A f \in DOMAIN proc'.ast : proc'.ast[f] = src[f]
        BY <2>6, <3>2
      <3> QED BY <1>1, <1>2, <2>2, <3>1, <3>3, FreshKept DEF CInv
    <2> QED BY <2>8, <2>9, <2>10, <2>11 DEF CInv
  <1> QED BY <1>4, <1>5

-----------------------------------------------------------------------------
(* Checks, compilation and the rest *)

(* A build that fails ends, and counts as a change. *)
LEMMA FailCache == ASSUME IInv, Fail  PROVE CInv'
  <1>1. proc' = NoProc
    BY DEF Fail, Quit
  <1>2. used'.changed
    BY DEF Fail, IInv, Typed, UsedFields
  <1> QED BY <1>1, <1>2, EndCache, ChangedFresh DEF CInv

(* The hashes that a build compares depend on what it parsed and loaded. *)
LEMMA SameHashes ==
    ASSUME proc'.ast = proc.ast, proc'.order = proc.order, proc'.contracts = proc.contracts
    PROVE  \A f : OwnHash(f)' = OwnHash(f) /\ DepsHash(f)' = DepsHash(f)
  <1>1. Local' = Local
    BY DEF Local
  <1>2. \A d : (Known(d)' <=> Known(d)) /\ Contract(d)' = Contract(d)
    BY <1>1 DEF Known, Contract
  <1>3. ASSUME NEW f  PROVE DepsHash(f)' = DepsHash(f)
    <2> DEFINE A == {e \in DOMAIN proc.ast[f].req : Known(e)}
               B == {e \in DOMAIN proc'.ast[f].req : Known(e)'}
               c(d) == ContractHash(Contract(d))
               n(d) == ContractHash(Contract(d)')
    <2>1. A = B /\ \A d : c(d) = n(d)
      BY <1>2
    <2>2. DepsHash(f) = CASE f \in Patterns -> {}
                          [] f = Entry -> {<<d, proc.ast[d].hash>> : d \in Local}
                          [] OTHER -> {<<d, c(d)>> : d \in A}
      BY DEF DepsHash
    <2>3. DepsHash(f)' = CASE f \in Patterns -> {}
                          [] f = Entry -> {<<d, proc'.ast[d].hash>> : d \in Local'}
                          [] OTHER -> {<<d, n(d)>> : d \in B}
      BY DEF DepsHash
    <2> HIDE DEF A, B, c, n
    <2>4. CASE f \in Patterns
      <3>1. f # Entry
        BY <2>4, FileFacts
      <3> QED BY <2>2, <2>3, <2>4, <3>1
    <2>5. CASE f \notin Patterns /\ f = Entry
      BY <1>1, <2>2, <2>3, <2>5
    <2>6. CASE f \notin Patterns /\ f # Entry
      <3>1. DepsHash(f) = {<<d, c(d)>> : d \in A}
        BY <2>2, <2>6
      <3>2. DepsHash(f)' = {<<d, n(d)>> : d \in B}
        BY <2>3, <2>6
      <3> QED BY <2>1, <3>1, <3>2
    <2> QED BY <2>4, <2>5, <2>6
  <1>4. \A f : OwnHash(f)' = OwnHash(f)
    BY DEF OwnHash
  <1> QED BY <1>3, <1>4

(* The process goes on with the same files; the cache on disk may grow. *)
LEMMA EnteredKept ==
    ASSUME Entered, proc.pc \in {"compile", "save"}, proc.mode = "exe",
           proc'.ast = proc.ast, proc'.order = proc.order, proc'.contracts = proc.contracts,
           DOMAIN disk.objects \subseteq DOMAIN disk'.objects,
           \A f \in DOMAIN proc'.objs \ proc'.raced :
               \/ f \in DOMAIN proc.objs \ proc.raced /\ f \in DOMAIN proc'.manifest /\ proc'.manifest[f] = proc.manifest[f]
               \/ /\ f \in DOMAIN proc'.manifest
                  /\ proc'.manifest[f] = CacheEntry(proc.ast[f], OwnHash(f), DepsHash(f))
                  /\ ObjectPath(f, proc.ast[f]) \in DOMAIN disk'.objects
    PROVE  Entered'
  <1>1. \A f : OwnHash(f)' = OwnHash(f) /\ DepsHash(f)' = DepsHash(f)
    BY SameHashes
  <1>2. ASSUME NEW f \in DOMAIN proc'.objs \ proc'.raced
        PROVE  /\ f \in DOMAIN proc'.manifest
               /\ proc'.manifest[f] = CacheEntry(proc.ast[f], OwnHash(f), DepsHash(f))
               /\ ObjectPath(f, proc.ast[f]) \in DOMAIN disk'.objects
    BY DEF Entered
  <1>3. ASSUME NEW f \in DOMAIN proc'.objs \ proc'.raced
        PROVE  /\ f \in DOMAIN proc'.manifest
               /\ proc'.manifest[f] = CacheEntry(proc'.ast[f], OwnHash(f)', DepsHash(f)')
               /\ ObjectPath(f, proc'.ast[f]) \in DOMAIN disk'.objects
    BY <1>1, <1>2
  <1> QED BY <1>3 DEF Entered, CacheEntry, ObjectPath

(* Nothing but the authors moves. *)
LEMMA SameProcess ==
    ASSUME CInv, proc' = proc, disk' = disk
    PROVE  Stable' /\ Least' /\ Complete' /\ Entered'
  <1>1. Stable' /\ Least'
    BY DEF CInv, Stable, Least, Local, Closed, Roots
  <1>2. Complete'
    BY DEF CInv, Complete, Wants, Local, Roots
  <1>3. Entered'
    <2>1. CASE proc.pc \in {"compile", "save"} /\ proc.mode = "exe"
      BY <2>1, EnteredKept DEF CInv, Entered
    <2>2. CASE ~(proc.pc \in {"compile", "save"} /\ proc.mode = "exe")
      BY <2>2 DEF Entered
    <2> QED BY <2>1, <2>2
  <1> QED BY <1>1, <1>2, <1>3

(* An author edits a file: a change. *)
LEMMA EditCache == ASSUME IInv, CInv, NEW f \in Files, Edit(f)  PROVE CInv'
  <1>1. proc' = proc /\ disk' = disk
    BY DEF Edit
  <1>2. used'.changed
    BY DEF Edit, IInv, Typed, UsedFields
  <1> QED BY <1>1, <1>2, SameProcess, ChangedFresh DEF CInv

(* Nothing happens. *)
LEMMA StutterCache == ASSUME IInv, CInv, UNCHANGED vars  PROVE CInv'
  <1>1. src' = src /\ disk' = disk /\ proc' = proc /\ used' = used
    BY DEF vars
  <1>2. Fresh'
    <2>1. CASE used.changed
      BY <1>1, <2>1, ChangedFresh
    <2>2. CASE ~used.changed
      <3>1. /\ proc.mode = "exe" /\ DOMAIN src = Files /\ DOMAIN proc.ast \subseteq Files
            /\ proc.pc # "idle" => \A f \in DOMAIN proc.ast : proc.ast[f] = src[f]
        BY <2>2 DEF CInv, Fresh, IInv, Typed, SrcTyped, ProcTyped
      <3> QED BY <1>1, <3>1, FreshKept DEF CInv
    <2> QED BY <2>1, <2>2
  <1> QED BY <1>1, <1>2, SameProcess DEF CInv

(* The HASH lines are right, or the build ends. *)
LEMMA ValidateCache == ASSUME IInv, CInv, Validate  PROVE CInv'
  <1>1. CASE Fail
    BY <1>1, FailCache
  <1>2. CASE ~Fail
    <2>1. src' = src /\ disk' = disk /\ used' = used /\ proc.pc = "validate" /\ proc' = [proc EXCEPT !.pc = "graph"]
      BY <1>2 DEF Validate
    <2>2. ProcTyped /\ proc.mode = "exe" /\ DOMAIN src = Files
      BY <2>1 DEF IInv, Typed, Phased, SrcTyped
    <2>3. /\ proc'.pc = "graph" /\ proc'.mode = "exe" /\ proc'.stack = proc.stack
          /\ proc'.ast = proc.ast /\ proc'.order = proc.order /\ proc'.contracts = proc.contracts
      BY <2>1, <2>2 DEF ProcFields, ProcTyped
    <2>4. proc.pc \in Loaded /\ proc'.pc \in Loaded /\ proc.pc # "idle" /\ proc'.pc \notin {"compile", "save"}
      BY <2>1, <2>3 DEF Loaded
    <2>5. Stable' /\ Least' /\ Complete'
      BY <2>1, <2>2, <2>3, <2>4, LoadedKept
    <2>6. Entered'
      BY <2>4 DEF Entered
    <2>7. Fresh'
      <3>1. DOMAIN proc'.ast \subseteq Files
        BY <2>2, <2>3 DEF ProcTyped
      <3>2. ~used.changed => \A f \in DOMAIN proc'.ast : proc'.ast[f] = src[f]
        BY <2>3, <2>4 DEF CInv, Fresh
      <3> QED BY <2>1, <2>2, <2>3, <2>4, <3>1, <3>2, FreshKept DEF CInv
    <2> QED BY <2>5, <2>6, <2>7 DEF CInv
  <1> QED BY <1>1, <1>2

(* The manifest that the process reads is the one on disk. *)
LEMMA CheckGraphCache == ASSUME IInv, CInv, CheckGraph  PROVE CInv'
  <1>1. CASE Fail
    BY <1>1, FailCache
  <1>2. CASE ~Fail
    <2> DEFINE t == proc.order \o SetToSeq(Patterns) \o <<Entry>>
    <2>1. /\ src' = src /\ disk' = disk /\ used' = used /\ proc.pc = "graph"
          /\ proc' = [proc EXCEPT !.pc = "compile", !.manifest = disk.manifest["exe"], !.todo = t]
      BY <1>2 DEF CheckGraph
    <2> HIDE DEF t
    <2>2. ProcTyped /\ proc.mode = "exe" /\ DOMAIN src = Files /\ DOMAIN proc.objs = {}
      BY <2>1 DEF IInv, Typed, Phased, SrcTyped, Early
    <2>3. /\ proc'.pc = "compile" /\ proc'.mode = "exe" /\ proc'.stack = proc.stack /\ proc'.objs = proc.objs
          /\ proc'.ast = proc.ast /\ proc'.order = proc.order /\ proc'.contracts = proc.contracts
          /\ proc'.manifest = disk.manifest["exe"]
      BY <2>1, <2>2 DEF ProcFields, ProcTyped
    <2>4. proc.pc \in Loaded /\ proc'.pc \in Loaded /\ proc.pc # "idle"
      BY <2>1, <2>3 DEF Loaded, Late
    <2>5. Stable' /\ Least' /\ Complete'
      BY <2>1, <2>2, <2>3, <2>4, LoadedKept
    <2>6. Entered'
      BY <2>2, <2>3 DEF Entered
    <2>7. Fresh'
      <3>1. DOMAIN proc'.ast \subseteq Files
        BY <2>2, <2>3 DEF ProcTyped
      <3>2. ~used.changed => \A f \in DOMAIN proc'.ast : proc'.ast[f] = src[f]
        BY <2>3, <2>4 DEF CInv, Fresh
      <3> QED BY <2>1, <2>2, <2>3, <3>1, <3>2, FreshKept DEF CInv
    <2> QED BY <2>5, <2>6, <2>7 DEF CInv
  <1> QED BY <1>1, <1>2

(* A library build counts as a change from its start. *)
LEMMA LibKept ==
    ASSUME CInv, proc.mode = "lib", proc'.mode = "lib", proc'.pc # "load", used'.changed = used.changed
    PROVE  CInv'
  <1>1. used.changed
    BY DEF CInv, Fresh
  <1> QED BY <1>1, ChangedFresh DEF CInv, Stable, Least, Complete, Entered

(* An object is taken from the cache: its file is in the manifest as it is. *)
LEMMA UseCachedCache == ASSUME IInv, CInv, UseCached  PROVE CInv'
  <1> DEFINE p == ObjectPath(Current, src[Current])
  <1>1. /\ Compiling /\ proc' = Linking(p) /\ src' = src /\ disk' = disk /\ used' = used
        /\ Current \in DOMAIN proc.manifest /\ p \in DOMAIN disk.objects
        /\ proc.manifest[Current] = CacheEntry(src[Current], OwnHash(Current), DepsHash(Current))
    BY DEF UseCached, NeedsRecompile
  <1>2. proc.pc = "compile" /\ ProcTyped /\ DOMAIN src = Files
    BY <1>1 DEF IInv, Typed, SrcTyped, Compiling
  <1>3. /\ proc'.pc \in {"compile", "save"} /\ proc'.mode = proc.mode /\ proc'.stack = proc.stack
        /\ proc'.ast = proc.ast /\ proc'.order = proc.order /\ proc'.contracts = proc.contracts
        /\ proc'.manifest = proc.manifest
        /\ proc'.raced = proc.raced \cup (IF src[Current] # proc.ast[Current] THEN {Current} ELSE {})
        /\ DOMAIN proc'.objs = DOMAIN proc.objs \cup {Current}
    BY <1>1, LinkingFacts
  <1>4. CASE proc.mode = "lib"
    BY <1>1, <1>3, <1>4, LibKept
  <1>5. CASE proc.mode = "exe"
    <2>1. proc.pc \in Loaded /\ proc'.pc \in Loaded /\ proc.pc # "idle" /\ proc'.pc # "idle"
      BY <1>2, <1>3 DEF Loaded, Late
    <2>2. Stable' /\ Least' /\ Complete'
      BY <1>1, <1>3, <1>5, <2>1, LoadedKept
    <2>3. Entered'
      <3>1. ASSUME NEW f \in DOMAIN proc'.objs \ proc'.raced
            PROVE  /\ f \in DOMAIN proc.manifest
                   /\ proc.manifest[f] = CacheEntry(proc.ast[f], OwnHash(f), DepsHash(f))
                   /\ ObjectPath(f, proc.ast[f]) \in DOMAIN disk.objects
        <4>1. CASE f = Current
          <5>1. src[Current] = proc.ast[Current]
            BY <1>3, <3>1, <4>1
          <5> QED BY <1>1, <4>1, <5>1
        <4>2. CASE f # Current
          <5>1. f \in DOMAIN proc.objs \ proc.raced
            BY <1>3, <3>1, <4>2
          <5> QED BY <1>2, <1>5, <5>1 DEF CInv, Entered
        <4> QED BY <4>1, <4>2
      <3> QED BY <1>1, <1>2, <1>3, <1>5, <3>1, EnteredKept DEF CInv
    <2>4. Fresh'
      <3>1. DOMAIN proc'.ast \subseteq Files
        BY <1>2, <1>3 DEF ProcTyped
      <3>2. ~used.changed => \A f \in DOMAIN proc'.ast : proc'.ast[f] = src[f]
        BY <1>3, <2>1 DEF CInv, Fresh
      <3> QED BY <1>1, <1>2, <1>3, <1>5, <3>1, <3>2, FreshKept DEF CInv
    <2> QED BY <2>2, <2>3, <2>4 DEF CInv
  <1> QED BY <1>2, <1>4, <1>5 DEF ProcTyped, Modes

(* A file is compiled: something had changed, and its entry is now right. *)
LEMMA CompileCache == ASSUME IInv, CInv, Compile  PROVE CInv'
  <1> DEFINE p == ObjectPath(Current, src[Current])
             o == Object(proc.ast[Current], Seen(Current), FALSE)
             e == CacheEntry(src[Current], OwnHash(Current), DepsHash(Current))
  <1>1. /\ Compiling /\ NeedsRecompile(Current) /\ src' = src /\ used' = used
        /\ disk' = [disk EXCEPT !.objects = Put(@, p, o)]
        /\ proc' = [Linking(p) EXCEPT !.manifest = Put(@, Current, e), !.wrote = @ \cup {p}]
    BY DEF Compile
  <1> HIDE DEF p, o, e
  <1>2. proc.pc = "compile" /\ ProcTyped /\ DOMAIN disk = DiskFields
    BY <1>1 DEF IInv, Typed, DiskTyped, Compiling
  <1>3. disk'.registry = disk.registry /\ disk'.objects = Put(disk.objects, p, o)
    BY <1>1, <1>2 DEF DiskFields
  <1>4. DOMAIN disk'.objects = DOMAIN disk.objects \cup {p}
    BY <1>3 DEF Put
  <1>5. /\ proc'.pc = Linking(p).pc /\ proc'.mode = Linking(p).mode
        /\ proc'.stack = Linking(p).stack /\ proc'.ast = Linking(p).ast
        /\ proc'.order = Linking(p).order /\ proc'.contracts = Linking(p).contracts
        /\ proc'.manifest = Put(Linking(p).manifest, Current, e)
        /\ proc'.objs = Linking(p).objs /\ proc'.raced = Linking(p).raced
    <2>1. DOMAIN Linking(p) = ProcFields
      BY <1>1, LinkingFacts
    <2> QED BY <1>1, <2>1 DEF ProcFields
  <1>6. /\ proc'.pc \in {"compile", "save"} /\ proc'.mode = proc.mode
        /\ proc'.stack = proc.stack /\ proc'.ast = proc.ast /\ proc'.order = proc.order
        /\ proc'.contracts = proc.contracts /\ proc'.manifest = Put(proc.manifest, Current, e)
        /\ proc'.raced = proc.raced \cup (IF src[Current] # proc.ast[Current] THEN {Current} ELSE {})
        /\ DOMAIN proc'.objs = DOMAIN proc.objs \cup {Current}
    BY <1>1, <1>5, LinkingFacts
  <1>7. /\ DOMAIN proc'.manifest = DOMAIN proc.manifest \cup {Current} /\ proc'.manifest[Current] = e
        /\ \A f \in DOMAIN proc.manifest \ {Current} : proc'.manifest[f] = proc.manifest[f]
    BY <1>6 DEF Put
  <1>8. CASE proc.mode = "lib"
    BY <1>1, <1>6, <1>8, LibKept
  <1>9. CASE proc.mode = "exe"
    <2>1. proc.pc \in Loaded /\ proc'.pc \in Loaded
      BY <1>2, <1>6 DEF Loaded, Late
    <2>2. Stable' /\ Least' /\ Complete'
      BY <1>3, <1>6, <1>9, <2>1, LoadedKept
    <2>3. Entered'
      <3>1. ASSUME NEW f \in DOMAIN proc'.objs \ proc'.raced
            PROVE  \/ /\ f \in DOMAIN proc.objs \ proc.raced /\ f \in DOMAIN proc'.manifest
                      /\ proc'.manifest[f] = proc.manifest[f]
                   \/ /\ f \in DOMAIN proc'.manifest
                      /\ proc'.manifest[f] = CacheEntry(proc.ast[f], OwnHash(f), DepsHash(f))
                      /\ ObjectPath(f, proc.ast[f]) \in DOMAIN disk'.objects
        <4>1. CASE f = Current
          <5>1. src[Current] = proc.ast[Current]
            BY <1>6, <3>1, <4>1
          <5>2. /\ e = CacheEntry(proc.ast[f], OwnHash(f), DepsHash(f))
                /\ p = ObjectPath(f, proc.ast[f])
            BY <4>1, <5>1 DEF e, p
          <5> QED BY <1>4, <1>7, <4>1, <5>2
        <4>2. CASE f # Current
          <5>1. f \in DOMAIN proc.objs \ proc.raced
            BY <1>6, <3>1, <4>2
          <5>2. f \in DOMAIN proc.manifest
            BY <1>2, <1>9, <5>1 DEF CInv, Entered
          <5> QED BY <1>7, <4>2, <5>1, <5>2
        <4> QED BY <4>1, <4>2
      <3> QED BY <1>2, <1>4, <1>6, <1>9, <3>1, EnteredKept DEF CInv
    <2>4. used'.changed
      BY <1>1, <1>9, Hit
    <2> QED BY <2>2, <2>3, <2>4, ChangedFresh DEF CInv
  <1> QED BY <1>2, <1>8, <1>9 DEF ProcTyped, Modes

(* The manifest as it will be on disk describes all that is needed. *)
LEMMA SavedIsFresh ==
    ASSUME IInv, CInv, proc.pc = "save", proc.mode = "exe", proc.raced = {},
           \A f \in DOMAIN proc.ast : src[f] = proc.ast[f]
    PROVE  /\ \A f \in Needed : WellHashed(src[f])
           /\ \A f \in Targets : UpToDate(f, proc.manifest)
  <1>1. proc.pc \in Loaded /\ proc.pc \in Late
    BY DEF Loaded, Late
  <1>2. Needed = Local /\ Local \subseteq DOMAIN proc.ast
    BY <1>1, LocalNeeded DEF IInv, Phased
  <1>3. \A f \in Needed : WellHashed(src[f])
    BY <1>1, <1>2 DEF IInv, Checked
  <1>4. DOMAIN proc.objs = Targets
    <2>1. ToSet(proc.todo) = {}
      BY DEF IInv, Listed, ToSet
    <2> QED BY <1>1, <1>2, <2>1 DEF IInv, Listed, Targets
  <1>5. ASSUME NEW f \in Targets  PROVE UpToDate(f, proc.manifest)
    <2>1. /\ f \in DOMAIN proc.manifest
          /\ proc.manifest[f] = CacheEntry(proc.ast[f], OwnHash(f), DepsHash(f))
          /\ ObjectPath(f, proc.ast[f]) \in DOMAIN disk.objects
      BY <1>4 DEF CInv, Entered
    <2>2. proc.ast[f] = src[f] /\ OwnHash(f) = NowHash(f) /\ DepsHash(f) = NowDeps(f)
      BY <1>1, HashesNow
    <2> QED BY <2>1, <2>2 DEF UpToDate
  <1> QED BY <1>3, <1>5

(* The process after it has tried to save its manifest. *)
LEMMA AfterSaveCache ==
    ASSUME IInv, CInv, proc.pc = "save", proc' = AfterSave, disk'.registry = disk.registry
    PROVE  Stable' /\ Least' /\ Complete' /\ Entered'
  <1> DEFINE pc == IF proc.mode = "lib" THEN "archive" ELSE "link"
  <1>1. proc' = [proc EXCEPT !.pc = pc]
    BY DEF AfterSave
  <1>2. ProcTyped /\ proc.mode \in {"exe", "lib"}
    BY DEF IInv, Typed, ProcTyped, Modes
  <1> HIDE DEF pc
  <1>3. /\ proc'.pc = pc /\ proc'.mode = proc.mode /\ proc'.stack = proc.stack
        /\ proc'.ast = proc.ast /\ proc'.order = proc.order /\ proc'.contracts = proc.contracts
    BY <1>1, <1>2 DEF ProcFields, ProcTyped
  <1>4. pc \in {"archive", "link"} /\ (pc = "link" <=> proc.mode = "exe")
    BY <1>2 DEF pc
  <1>5. CASE proc.mode = "lib"
    BY <1>3, <1>4, <1>5 DEF Stable, Least, Complete, Entered
  <1>6. CASE proc.mode = "exe"
    <2>1. proc.pc \in Loaded /\ proc'.pc \in Loaded
      BY <1>3, <1>4, <1>6 DEF Loaded, Late
    <2>2. Entered'
      BY <1>3, <1>4 DEF Entered
    <2> QED BY <1>3, <1>6, <2>1, <2>2, LoadedKept
  <1> QED BY <1>2, <1>5, <1>6

(* The manifest is saved: from here on nothing has changed, unless a file  *)
(* was edited after it was parsed.                                         *)
LEMMA SaveCache == ASSUME IInv, CInv, Save  PROVE CInv'
  <1>1. /\ proc.pc = "save" /\ proc' = AfterSave /\ src' = src
        /\ disk' = [disk EXCEPT !.manifest[proc.mode] = proc.manifest, !.overwritten = @ \ proc.wrote]
    BY DEF Save
  <1>2. ProcTyped /\ DiskTyped /\ proc.mode \in Modes /\ DOMAIN used = UsedFields /\ DOMAIN src = Files
    BY DEF IInv, Typed, ProcTyped, SrcTyped
  <1> DEFINE ms == [disk.manifest EXCEPT ![proc.mode] = proc.manifest]
  <1>3. disk' = [disk EXCEPT !.manifest = ms, !.overwritten = @ \ proc.wrote]
    BY <1>1
  <1>4. ms[proc.mode] = proc.manifest
    BY <1>2 DEF DiskTyped
  <1> HIDE DEF ms
  <1>5. disk'.manifest = ms /\ disk'.objects = disk.objects /\ disk'.registry = disk.registry
    BY <1>2, <1>3 DEF DiskTyped, DiskFields
  <1>6. Stable' /\ Least' /\ Complete' /\ Entered'
    BY <1>1, <1>5, AfterSaveCache
  <1>7. CASE proc.mode = "lib"
    <2>1. used.changed
      BY <1>7 DEF CInv, Fresh
    <2>2. used' = [used EXCEPT !.changed = used.changed]
      BY <1>7 DEF Save
    <2>3. used'.changed = used.changed
      BY <1>2, <2>2 DEF UsedFields
    <2> QED BY <1>6, <2>1, <2>3, ChangedFresh DEF CInv
  <1>8. CASE proc.mode = "exe"
    <2> SUFFICES ASSUME ~used'.changed  PROVE Fresh'
      BY <1>6, ChangedFresh DEF CInv
    <2> DEFINE raced == proc.raced # {} \/ \E f \in DOMAIN proc.ast : src[f] # proc.ast[f]
    <2>1. used' = [used EXCEPT !.changed = raced]
      BY <1>8 DEF Save
    <2>2. used'.changed = raced
      <3> HIDE DEF raced
      <3> QED BY <1>2, <2>1 DEF UsedFields
    <2>3. proc.raced = {} /\ \A f \in DOMAIN proc.ast : src[f] = proc.ast[f]
      BY <2>2
    <2>4. /\ \A f \in Needed : WellHashed(src[f])
          /\ \A f \in Targets : UpToDate(f, proc.manifest)
      BY <1>1, <1>8, <2>3, SavedIsFresh
    <2>5. Needed' = Needed /\ \A f \in Targets : \A m : UpToDate(f, m) => UpToDate(f, m)'
      BY <1>1, <1>2, <1>5, SameTexts
    <2>6. Targets' = Targets
      BY <2>5 DEF Targets
    <2>7. \A f \in Needed' : WellHashed(src'[f])
      BY <1>1, <2>4, <2>5 DEF WellHashed, Declared
    <2>8. \A f \in Targets' : UpToDate(f, disk.manifest["exe"])'
      <3>1. ASSUME NEW f \in Targets, NEW m, m = proc.manifest  PROVE UpToDate(f, disk.manifest["exe"])'
        <4>1. UpToDate(f, m) /\ disk'.manifest["exe"] = m
          BY <1>4, <1>5, <1>8, <2>4, <3>1
        <4>2. UpToDate(f, m)'
          BY <2>5, <4>1
        <4> QED BY <4>1, <4>2 DEF UpToDate
      <3> QED BY <2>6, <3>1
    <2>9. /\ proc'.mode = "exe" /\ proc'.pc = "link" /\ proc'.ast = proc.ast
      BY <1>1, <1>2, <1>8 DEF AfterSave, ProcTyped, ProcFields
    <2> QED BY <1>1, <2>3, <2>7, <2>8, <2>9 DEF Fresh
  <1> QED BY <1>2, <1>7, <1>8 DEF Modes

(* The save fails: a change, as the next build starts from the old manifest. *)
LEMMA SaveFailsCache == ASSUME IInv, CInv, SaveFails  PROVE CInv'
  <1>1. proc.pc = "save" /\ proc' = AfterSave
    BY DEF SaveFails
  <1>2. DOMAIN disk = DiskFields /\ DOMAIN used = UsedFields
    BY DEF IInv, Typed, DiskTyped
  <1>3. PICK m : disk' = [disk EXCEPT !.manifest[proc.mode] = m, !.overwritten = @ \cup proc.wrote]
    BY DEF SaveFails
  <1>4. disk'.registry = disk.registry
    BY <1>2, <1>3 DEF DiskFields
  <1>5. used'.changed
    BY <1>2 DEF SaveFails, UsedFields
  <1> QED BY <1>1, <1>4, <1>5, AfterSaveCache, ChangedFresh DEF CInv

(* The link ends the build; it leaves the cache as it is. *)
LEMMA LinkCache == ASSUME IInv, CInv, Link  PROVE CInv'
  <1>1. src' = src /\ disk' = disk /\ used' = used /\ proc' = NoProc
    BY DEF Link
  <1>2. proc'.mode = "exe" /\ proc'.pc = "idle" /\ DOMAIN proc'.ast = {} /\ DOMAIN src = Files
    BY <1>1 DEF NoProc, IInv, Typed, SrcTyped
  <1>3. Fresh'
    BY <1>1, <1>2, FreshKept DEF CInv
  <1> QED BY <1>1, <1>3, EndCache DEF CInv

(* A library build starts: a change. *)
LEMMA StartLibCache == ASSUME IInv, CInv, NEW fix \in BOOLEAN, StartLib(fix)  PROVE CInv'
  <1>1. proc'.mode = "lib" /\ proc'.pc = "parse"
    BY DEF StartLib, NoProc
  <1>2. used'.changed
    BY DEF StartLib, IInv, Typed, UsedFields
  <1> QED BY <1>1, <1>2, ChangedFresh DEF CInv, Stable, Least, Complete, Entered

(* The steps of a library build. *)
LEMMA LibraryCache == ASSUME IInv, CInv, ParseLib \/ Archive \/ WriteIndex \/ WriteRegistry  PROVE CInv'
  <1>1. used' = used /\ proc.pc \in {"parse", "archive", "index", "registry"}
    BY DEF ParseLib, Archive, WriteIndex, WriteRegistry
  <1>2. proc.mode = "lib" /\ DOMAIN proc = ProcFields
    BY <1>1 DEF IInv, Phased, Typed, ProcTyped
  <1>3. used'.changed
    BY <1>1, <1>2 DEF CInv, Fresh
  <1>4. CASE proc' = NoProc
    BY <1>3, <1>4, EndCache, ChangedFresh DEF CInv
  <1>5. CASE proc' # NoProc
    <2>1. proc'.mode = "lib" /\ proc'.pc # "load"
      <3>1. CASE ParseLib
        <4> DEFINE parsed == [f \in Library |-> Fixed(src[f])]
                   list == SetToSeq(Library)
        <4>1. proc' = [proc EXCEPT !.pc = "compile", !.fix = FALSE, !.ast = parsed, !.order = list,
                         !.manifest = disk.manifest["lib"], !.todo = list]
          BY <1>5, <3>1 DEF ParseLib, Quit
        <4> HIDE DEF parsed, list
        <4> QED BY <1>2, <4>1 DEF ProcFields
      <3>2. CASE Archive \/ WriteIndex
        BY <1>2, <3>2 DEF Archive, WriteIndex, ProcFields
      <3>3. CASE WriteRegistry
        BY <1>5, <3>3 DEF WriteRegistry
      <3> QED BY <3>1, <3>2, <3>3
    <2> QED BY <1>1, <1>2, <2>1, LibKept
  <1> QED BY <1>4, <1>5

(* The process is killed: a change. *)
LEMMA CrashCache == ASSUME IInv, Crash  PROVE CInv'
  <1>1. proc' = NoProc
    BY DEF Crash, Quit
  <1>2. used'.changed
    BY DEF Crash, IInv, Typed, UsedFields
  <1> QED BY <1>1, <1>2, EndCache, ChangedFresh DEF CInv

-----------------------------------------------------------------------------
(* The theorem *)

(* At first there is no process, and the project has not been built. *)
LEMMA InitCache == Init => CInv
  <1> SUFFICES ASSUME Init  PROVE CInv
    OBVIOUS
  <1>1. proc = NoProc /\ used.changed
    BY DEF Init
  <1> QED BY <1>1, NoProcessCache DEF CInv, Fresh

(* Every step of the compiler keeps the invariant. *)
LEMMA StepCache == ASSUME IInv, CInv, Step  PROVE CInv'
  <1>1. CASE LoadKnown \/ LoadFile \/ LoadReturn \/ LoadPatterns \/ Recurse
    BY <1>1, LoadKnownCache, LoadFileCache, LoadReturnCache, LoadPatternsCache, RecurseCache
  <1>2. CASE LoadMissing \/ Overflow \/ CompileFails
    BY <1>2, FailCache DEF LoadMissing, Overflow, CompileFails
  <1>3. CASE Validate \/ CheckGraph
    BY <1>3, ValidateCache, CheckGraphCache
  <1>4. CASE UseCached \/ Compile \/ Save \/ SaveFails \/ Link
    BY <1>4, UseCachedCache, CompileCache, SaveCache, SaveFailsCache, LinkCache
  <1>5. CASE ParseLib \/ Archive \/ WriteIndex \/ WriteRegistry
    BY <1>5, LibraryCache
  <1> QED BY <1>1, <1>2, <1>3, <1>4, <1>5 DEF Step

(* The invariant is inductive, given the one of BuildProofs. *)
LEMMA CacheInductive == IInv /\ CInv /\ [Next]_vars => CInv'
  <1> SUFFICES ASSUME IInv, CInv, [Next]_vars  PROVE CInv'
    OBVIOUS
  <1>1. CASE UNCHANGED vars
    BY <1>1, StutterCache
  <1>2. CASE \E f \in Files : Edit(f)
    BY <1>2, EditCache
  <1>3. CASE \E fix \in BOOLEAN : StartExe(fix) \/ StartLib(fix)
    BY <1>3, StartExeCache, StartLibCache
  <1>4. CASE Step
    BY <1>4, StepCache
  <1>5. CASE Crash
    BY <1>5, CrashCache
  <1> QED BY <1>1, <1>2, <1>3, <1>4, <1>5 DEF Next

(* What is loaded is what is needed, and a saved manifest describes it, in *)
(* every state (load_dependencies, Cache::save in cache.rs).               *)
THEOREM CacheInvariance == Spec => []CInv
  BY InitCache, CacheInductive, Invariance, PTL DEF Spec

(* With nothing changed since a build that saved its manifest, a build     *)
(* compiles nothing (needs_recompile finds every file in the cache).       *)
THEOREM NothingIsCompiledTwice == Spec => []UnchangedIsCached
  <1>1. IInv /\ CInv => UnchangedIsCached
    BY Hit DEF UnchangedIsCached
  <1> QED BY <1>1, Invariance, CacheInvariance, PTL
=============================================================================
