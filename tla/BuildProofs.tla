----------------------------- MODULE BuildProofs -----------------------------
(***************************************************************************)
(* Proofs about module Build: the code linked into an executable agrees on *)
(* signatures and pins (CallsAgree, PinsHold), and behaviors come after    *)
(* what they require (DependenciesFirst), for every project, library and   *)
(* bound.                                                                  *)
(***************************************************************************)
EXTENDS Build, FiniteSetTheorems, SequenceTheorems, TLAPS

-----------------------------------------------------------------------------
(* The inductive invariant *)

Names == Files \cup UNION {Requirable[f] : f \in Files}
DiskFields == {"manifest", "objects", "archive", "index", "registry", "overwritten"}
UsedFields == {"edits", "troubles", "builds", "changed"}
ProcFields == {"pc", "mode", "fix", "stack", "ast", "loaded", "order", "contracts", "symbols", "manifest",
               "todo", "objs", "wrote", "raced"}

(* The variables have the shape their updates rely on. *)
SrcTyped == DOMAIN src = Files /\ \A f \in Files : IsSource(f, src[f])

DiskTyped ==
    /\ DOMAIN disk = DiskFields /\ DOMAIN disk.manifest = Modes
    /\ \A d \in Modes : DOMAIN disk.manifest[d] \subseteq Files
    /\ \A p \in DOMAIN disk.objects : disk.objects[p].torn \in BOOLEAN
    /\ DOMAIN disk.registry \subseteq Library /\ disk.index \subseteq Library

Frames == [file : Behaviors \cup {Entry}, rest : Seq(Names)]

ProcTyped ==
    /\ DOMAIN proc = ProcFields /\ proc.mode \in Modes
    /\ proc.pc \in {"idle", "load", "validate", "graph", "compile", "save",
                    "link", "parse", "archive", "index", "registry", "recursing"}
    /\ proc.stack \in Seq(Frames)
    /\ proc.order \in Seq(Behaviors \cup Library) /\ proc.todo \in Seq(Files)
    /\ DOMAIN proc.ast \subseteq Files /\ \A f \in DOMAIN proc.ast : IsSource(f, proc.ast[f])
    /\ proc.loaded \subseteq Behaviors \cup Library
    /\ proc.symbols \subseteq Library /\ DOMAIN proc.contracts \subseteq Library
    /\ DOMAIN proc.manifest \subseteq Files /\ DOMAIN proc.objs \subseteq Files

Typed ==
    /\ SrcTyped /\ DiskTyped /\ ProcTyped
    /\ DOMAIN used = UsedFields /\ DOMAIN exe.objs \subseteq Files \ Library

Early == {"idle", "load", "validate", "graph", "recursing", "parse"}
Late == {"compile", "save", "link"}

(* What the two kinds of builds go through and work on. *)
Phased ==
    /\ proc.pc \in {"load", "validate", "graph", "recursing", "link"} => proc.mode = "exe"
    /\ proc.pc \in {"parse", "archive", "index", "registry"} => proc.mode = "lib"
    /\ proc.pc = "idle" => proc = NoProc
    /\ proc.pc = "compile" => proc.todo # <<>>
    /\ proc.pc \in Early => proc.wrote = {} /\ proc.raced = {} /\ DOMAIN proc.objs = {}
    /\ proc.mode = "exe" => Local \subseteq Behaviors \cap DOMAIN proc.ast
    /\ proc.mode = "lib" =>
         /\ Library # {}
         /\ DOMAIN proc.ast \subseteq Library /\ ToSet(proc.todo) \subseteq Library
         /\ DOMAIN proc.objs \subseteq Library
         /\ \A p \in proc.wrote : p[1] \in Library

(* The loader: a frame's file is parsed, and each requirement of it is in  *)
(* the order, waits in the frame, or is the file of the next frame.        *)
Covered(i) ==
    LET f == proc.stack[i].file IN
    f \in Behaviors =>
      /\ f \in DOMAIN proc.ast
      /\ \A d \in DOMAIN proc.ast[f].req \cap Behaviors :
           d \in Local \/ d \in ToSet(proc.stack[i].rest) \/ (i > 1 /\ proc.stack[i - 1].file = d)

Loading ==
    proc.pc = "load" => /\ proc.loaded \cap Behaviors = Local
                        /\ \A i \in DOMAIN proc.stack : Covered(i)

Ordered ==
    proc.mode = "exe" =>
        \A i \in DOMAIN proc.order : \A d \in DOMAIN proc.ast[proc.order[i]].req \cap Behaviors :
            \E j \in 1 .. i - 1 : proc.order[j] = d

(* What has been checked stays so, as the process works on what it parsed. *)
Checked ==
    /\ proc.pc \in {"graph"} \cup Late /\ proc.mode = "exe" => \A f \in Local : WellHashed(proc.ast[f])
    /\ proc.pc \in Late /\ proc.mode = "exe" => Undefined = {} /\ Stale = {}

(* The files to compile, and those done. *)
Listed ==
    /\ proc.pc \in Late /\ proc.mode = "exe" =>
         ToSet(proc.todo) \cup DOMAIN proc.objs = Local \cup Patterns \cup {Entry}
    /\ proc.pc \in {"save", "link"} => proc.todo = <<>>

(* Object o can be what manifest entry m of file f describes: the hashes   *)
(* in the entry are those of the signatures that o was generated for.      *)
Witnesses(f, o, m) ==
    o.src = m.source =>
        /\ DOMAIN o.seen = IF f = Entry THEN Calls[Entry] \cup Patterns ELSE DOMAIN m.source.req
        /\ \A d \in DOMAIN o.seen : (f = Entry => d \in Behaviors) =>
             \E h \in {e[2] : e \in m.deps} : <<d, h>> \in m.deps /\ (h # None => h[1] = o.seen[d])

Cacheable == Behaviors \cup {Entry}

(* The cache on disk, but for objects that no saved manifest describes. *)
CacheSound ==
    \A f \in DOMAIN disk.manifest["exe"] \cap Cacheable :
        LET m == disk.manifest["exe"][f]
            p == ObjectPath(f, m.source)
        IN  /\ p \in DOMAIN disk.objects /\ p \notin disk.overwritten
            /\ ~(proc.pc \in {"compile", "save"} /\ p \in proc.wrote)
            => Witnesses(f, disk.objects[p], m)

(* The cache as the process has it. *)
ProcCacheSound ==
    proc.pc \in {"compile", "save"} /\ proc.mode = "exe" =>
    \A f \in DOMAIN proc.manifest \cap Cacheable :
        LET m == proc.manifest[f]
            p == ObjectPath(f, m.source)
        IN  p \in DOMAIN disk.objects /\ (p \notin disk.overwritten \/ p \in proc.wrote)
            => Witnesses(f, disk.objects[p], m)

(* An object that was made from what the process parsed was generated for  *)
(* the contracts that the process knows.                                   *)
MadeFor(f, o) ==
    o.src = proc.ast[f] =>
        /\ DOMAIN o.seen = Uses(f)
        /\ \A d \in Uses(f) : (f = Entry => d \in Behaviors /\ Declared(proc.ast[d])) =>
             Known(d) /\ o.seen[d] = Signature(d)

ObjsSound ==
    proc.pc \in Late /\ proc.mode = "exe" =>
    \A f \in DOMAIN proc.objs :
        LET p == proc.objs[f] IN
        /\ p \in DOMAIN disk.objects /\ p = ObjectPath(f, p[2])
        /\ f \notin proc.raced => p = ObjectPath(f, proc.ast[f])
        /\ f \in Cacheable \ proc.raced /\ (p \notin disk.overwritten \/ p \in proc.wrote)
           => MadeFor(f, disk.objects[p])

IInv ==
    /\ Typed /\ Phased /\ Loading /\ Ordered /\ Checked /\ Listed
    /\ CacheSound /\ ProcCacheSound /\ ObjsSound /\ CallsAgree /\ PinsHold

-----------------------------------------------------------------------------
(* Files and data *)

(* The sorts of files do not overlap, and only finitely many names occur   *)
(* in a file or a CALLS list.                                              *)
LEMMA FileFacts ==
    /\ Behaviors \subseteq Files /\ Library \subseteq Files /\ Patterns \subseteq Files /\ Entry \in Files
    /\ Behaviors \cap Library = {} /\ Patterns \cap (Behaviors \cup Library) = {}
    /\ Entry \notin Behaviors \cup Library \cup Patterns
    /\ Files \subseteq Names /\ \A f \in Files : Requirable[f] \subseteq Names /\ IsFiniteSet(Requirable[f])
    /\ \A f \in Files : IsSource(f, Start[f])
    /\ DOMAIN Calls = Patterns \cup {Entry} /\ \A u \in DOMAIN Calls : Calls[u] \subseteq Behaviors \cup Library
    /\ IsFiniteSet(Files)
  BY BuildAssumption DEF Files, Names

(* What reading the source of a file depends on. *)
LEMMA SourceFacts ==
    ASSUME NEW f, NEW s, IsSource(f, s)
    PROVE  /\ DOMAIN s = {"ver", "req", "hash"} /\ s.ver \in Versions /\ DOMAIN s.req \subseteq Requirable[f]
           /\ ContractHash(s) # None /\ ContractHash(s)[1] = s.ver
  <1>1. DOMAIN [ver |-> s.ver, req |-> s.req, hash |-> s.hash] = {"ver", "req", "hash"}
    OBVIOUS
  <1>2. s = [ver |-> s.ver, req |-> s.req, hash |-> s.hash] /\ s.ver \in Versions /\ DOMAIN s.req \subseteq Requirable[f]
    BY DEF IsSource
  <1>3. DOMAIN s = {"ver", "req", "hash"}
    BY <1>1, <1>2
  <1>4. ContractHash(s) # None /\ ContractHash(s)[1] = s.ver
    BY DEF ContractHash, None
  <1> QED BY <1>2, <1>3, <1>4

(* An updated map (the HashMap updates of main.rs and cache.rs). *)
LEMMA PutFacts ==
    ASSUME NEW g, NEW x, NEW v
    PROVE  /\ DOMAIN Put(g, x, v) = DOMAIN g \cup {x} /\ Put(g, x, v)[x] = v
           /\ \A y \in DOMAIN g \ {x} : Put(g, x, v)[y] = g[y]
  BY DEF Put

(* A map restricted to some names (the registry's blocks that parse). *)
LEMMA RestrictFacts ==
    ASSUME NEW g, NEW S
    PROVE  DOMAIN Restrict(g, S) = S /\ \A x \in S : Restrict(g, S)[x] = g[x]
  BY DEF Restrict

(* A work list that is drawn from a finite set holds that set. *)
LEMMA ListFacts ==
    ASSUME NEW S, IsFiniteSet(S)
    PROVE  SetToSeq(S) \in Seq(S) /\ ToSet(SetToSeq(S)) = S
  <1>1. PICK g \in Bijection(1 .. Cardinality(S), S) : TRUE
    BY FS_CardinalityType DEF ExistsBijection
  <1>2. g \in [1 .. Cardinality(S) -> S] /\ IsInjective(g)
    BY <1>1 DEF Bijection, Injection
  <1>3. SetToSeq(S) \in Injection(1 .. Cardinality(S), S)
    BY <1>2 DEF SetToSeq, Injection
  <1>4. Cardinality(1 .. Cardinality(S)) = Cardinality(S) /\ Cardinality(S) \in Nat
    BY FS_CardinalityType, FS_Interval
  <1>5. SetToSeq(S) \in Surjection(1 .. Cardinality(S), S)
    BY <1>3, <1>4, FS_Injection
  <1>6. SetToSeq(S) \in Seq(S)
    BY <1>3, <1>4, SeqDef DEF Injection
  <1>7. ToSet(SetToSeq(S)) = S
    BY <1>5 DEF Surjection, ToSet
  <1> QED BY <1>6, <1>7

(* The first of a list and the rest. *)
LEMMA TakeFacts ==
    ASSUME NEW S, NEW s \in Seq(S), s # <<>>
    PROVE  /\ Head(s) \in S /\ Head(s) \in ToSet(s) /\ Tail(s) \in Seq(S)
           /\ ToSet(s) = ToSet(Tail(s)) \cup {Head(s)}
           /\ Head(s) = s[1] /\ Len(Tail(s)) = Len(s) - 1 /\ \A i \in 1 .. Len(s) - 1 : Tail(s)[i] = s[i + 1]
  <1>1. Len(s) \in Nat /\ Len(s) > 0 /\ DOMAIN s = 1 .. Len(s) /\ \A i \in 1 .. Len(s) : s[i] \in S
    OBVIOUS
  <1>2. Head(s) = s[1] /\ Tail(s) \in Seq(S) /\ Len(Tail(s)) = Len(s) - 1
        /\ \A i \in 1 .. Len(s) - 1 : Tail(s)[i] = s[i + 1]
    OBVIOUS
  <1>3. DOMAIN Tail(s) = 1 .. Len(s) - 1
    BY <1>1, <1>2
  <1>4. ASSUME NEW i \in 1 .. Len(s)  PROVE  s[i] \in ToSet(Tail(s)) \cup {Head(s)}
    <2>1. CASE i = 1
      BY <2>1, <1>2
    <2>2. CASE i # 1
      <3>1. i - 1 \in DOMAIN Tail(s) /\ Tail(s)[i - 1] = s[i]
        BY <2>2, <1>1, <1>2, <1>3
      <3> QED BY <3>1 DEF ToSet
    <2> QED BY <2>1, <2>2
  <1>5. ASSUME NEW i \in DOMAIN Tail(s)  PROVE  Tail(s)[i] \in ToSet(s)
    <2>1. i + 1 \in DOMAIN s /\ Tail(s)[i] = s[i + 1]
      BY <1>1, <1>2, <1>3
    <2> QED BY <2>1 DEF ToSet
  <1>6. Head(s) \in ToSet(s)
    BY <1>1, <1>2 DEF ToSet
  <1>7. ToSet(s) = {s[i] : i \in 1 .. Len(s)} /\ ToSet(Tail(s)) = {Tail(s)[i] : i \in DOMAIN Tail(s)}
    BY <1>1 DEF ToSet
  <1>8. ToSet(s) = ToSet(Tail(s)) \cup {Head(s)}
    BY <1>4, <1>5, <1>6, <1>7
  <1> QED BY <1>1, <1>2, <1>6, <1>8

(* A list with one more element.  *)
LEMMA AppendFacts ==
    ASSUME NEW S, NEW s \in Seq(S), NEW x \in S
    PROVE  Append(s, x) \in Seq(S) /\ ToSet(Append(s, x)) = ToSet(s) \cup {x} /\ Append(s, x) # <<>>
  <1>1. /\ Append(s, x) \in Seq(S) /\ Len(s) \in Nat /\ DOMAIN s = 1 .. Len(s)
        /\ DOMAIN Append(s, x) = 1 .. Len(s) + 1 /\ Append(s, x)[Len(s) + 1] = x
        /\ \A i \in 1 .. Len(s) : Append(s, x)[i] = s[i]
    OBVIOUS
  <1>2. ASSUME NEW i \in DOMAIN Append(s, x)  PROVE Append(s, x)[i] \in ToSet(s) \cup {x}
    BY <1>1 DEF ToSet
  <1>3. ASSUME NEW y \in ToSet(s) \cup {x}  PROVE \E i \in DOMAIN Append(s, x) : Append(s, x)[i] = y
    BY <1>1 DEF ToSet
  <1>4. ToSet(Append(s, x)) = ToSet(s) \cup {x}
    BY <1>2, <1>3 DEF ToSet
  <1> QED BY <1>1, <1>4

(* Two work lists, one after the other (the linker's input order). *)
LEMMA ConcatFacts ==
    ASSUME NEW S, NEW s \in Seq(S), NEW t \in Seq(S)
    PROVE  s \o t \in Seq(S) /\ ToSet(s \o t) = ToSet(s) \cup ToSet(t) /\ (t # <<>> => s \o t # <<>>)
  <1>1. /\ s \o t \in Seq(S) /\ Len(s \o t) = Len(s) + Len(t) /\ Len(s) \in Nat /\ Len(t) \in Nat
        /\ \A i \in 1 .. Len(s) : (s \o t)[i] = s[i]
        /\ \A i \in 1 .. Len(t) : (s \o t)[i + Len(s)] = t[i]
    OBVIOUS
  <1>2. DOMAIN s = 1 .. Len(s) /\ DOMAIN t = 1 .. Len(t) /\ DOMAIN (s \o t) = 1 .. Len(s) + Len(t)
    BY <1>1
  <1>3. ASSUME NEW i \in DOMAIN (s \o t)  PROVE  (s \o t)[i] \in ToSet(s) \cup ToSet(t)
    <2>1. CASE i <= Len(s)
      BY <2>1, <1>1, <1>2 DEF ToSet
    <2>2. CASE i > Len(s)
      <3>1. i - Len(s) \in 1 .. Len(t) /\ (s \o t)[i] = t[i - Len(s)]
        BY <2>2, <1>1, <1>2
      <3> QED BY <3>1, <1>2 DEF ToSet
    <2> QED BY <2>1, <2>2, <1>1, <1>2
  <1>4. ASSUME NEW x \in ToSet(s) \cup ToSet(t)  PROVE  x \in ToSet(s \o t)
    <2>1. CASE x \in ToSet(s)
      BY <2>1, <1>1, <1>2 DEF ToSet
    <2>2. CASE x \in ToSet(t)
      <3>1. PICK i \in 1 .. Len(t) : x = t[i]
        BY <2>2, <1>2 DEF ToSet
      <3>2. i + Len(s) \in DOMAIN (s \o t) /\ (s \o t)[i + Len(s)] = x
        BY <3>1, <1>1, <1>2
      <3> QED BY <3>2 DEF ToSet
    <2> QED BY <2>1, <2>2
  <1>5. ToSet(s \o t) = ToSet(s) \cup ToSet(t)
    BY <1>3, <1>4 DEF ToSet
  <1>6. t # <<>> => Len(t) > 0
    OBVIOUS
  <1> QED BY <1>1, <1>5, <1>6

-----------------------------------------------------------------------------
(* What an action leaves as it is *)

(* The shape of the variables gives TypeOK. *)
LEMMA TypedTypeOK == ASSUME Typed  PROVE TypeOK
  <1>1. SrcTyped => DOMAIN src = Files /\ \A f \in Files : src[f].ver \in Versions
    BY SourceFacts DEF SrcTyped
  <1> QED BY <1>1 DEF Typed, DiskTyped, ProcTyped, TypeOK

(* What holds of a process that is not there (the process has ended). *)
LEMMA NoProcess ==
    proc = NoProc =>
        ProcTyped /\ Phased /\ Loading /\ Ordered /\ Checked /\ Listed /\ ProcCacheSound /\ ObjsSound
  <1> SUFFICES ASSUME proc = NoProc
               PROVE  ProcTyped /\ Phased /\ Loading /\ Ordered /\ Checked /\ Listed /\ ProcCacheSound /\ ObjsSound
    OBVIOUS
  <1>1. /\ DOMAIN proc = ProcFields /\ proc.pc = "idle" /\ proc.mode = "exe" /\ proc.stack = <<>>
        /\ proc.ast = <<>> /\ proc.loaded = {} /\ proc.order = <<>> /\ proc.contracts = <<>>
        /\ proc.symbols = {} /\ proc.manifest = <<>> /\ proc.todo = <<>> /\ proc.objs = <<>>
        /\ proc.wrote = {} /\ proc.raced = {}
    BY DEF NoProc, ProcFields
  <1>2. DOMAIN <<>> = {} /\ \A S : <<>> \in Seq(S)
    OBVIOUS
  <1>3. Local = {}
    BY <1>1, <1>2 DEF Local, ToSet
  <1>4. ProcTyped
    BY <1>1, <1>2 DEF ProcTyped, Modes
  <1>5. Phased
    BY <1>1, <1>2, <1>3 DEF Phased
  <1>6. Loading /\ Ordered /\ Checked /\ Listed /\ ProcCacheSound /\ ObjsSound
    BY <1>1, <1>2 DEF Loading, Ordered, Checked, Listed, ProcCacheSound, ObjsSound, Late
  <1> QED BY <1>4, <1>5, <1>6

(* The same after the step that ends it. *)
LEMMA Ended ==
    ASSUME proc' = NoProc
    PROVE  ProcTyped' /\ Phased' /\ Loading' /\ Ordered' /\ Checked' /\ Listed' /\ ProcCacheSound' /\ ObjsSound'
  <1>1. (proc = NoProc => ProcTyped /\ Phased /\ Loading /\ Ordered /\ Checked /\ Listed /\ ProcCacheSound /\ ObjsSound)'
    BY NoProcess, PTL
  <1> QED BY <1>1

(* The executable stays: so do its properties. *)
LEMMA SameExe ==
    ASSUME exe' = exe, CallsAgree, PinsHold
    PROVE  CallsAgree' /\ PinsHold'
  BY DEF CallsAgree, PinsHold, Sound, Agrees, Code

(* What objects were made for depends on what the process parsed and loaded. *)
LEMMA SameMadeFor ==
    ASSUME proc'.ast = proc.ast, proc'.order = proc.order, proc'.contracts = proc.contracts
    PROVE  \A f, o : MadeFor(f, o) => MadeFor(f, o)'
  <1> SUFFICES ASSUME NEW f, NEW o, MadeFor(f, o)  PROVE MadeFor(f, o)'
    OBVIOUS
  <1>1. Uses(f)' = Uses(f)
    BY DEF Uses
  <1>2. \A d : (Known(d) => Known(d)') /\ Contract(d)' = Contract(d)
    BY DEF Known, Contract, Local
  <1>3. \A d : Signature(d)' = Signature(d)
    BY <1>2 DEF Signature
  <1> QED BY <1>1, <1>2, <1>3 DEF MadeFor

(* The order of the behaviors depends on what is parsed and loaded. *)
LEMMA SameOrdered ==
    ASSUME \A f \in Local : proc'.ast[f] = proc.ast[f], proc'.order = proc.order, proc'.mode = proc.mode, Ordered
    PROVE  Ordered'
  <1>1. SUFFICES ASSUME proc.mode = "exe", NEW i \in DOMAIN proc.order,
                        NEW d \in DOMAIN proc'.ast[proc.order[i]].req \cap Behaviors
                 PROVE  \E j \in 1 .. i - 1 : proc.order[j] = d
    BY DEF Ordered
  <1>2. proc.order[i] \in Local
    BY DEF Local, ToSet
  <1>3. proc'.ast[proc.order[i]] = proc.ast[proc.order[i]]
    BY <1>2
  <1> QED BY <1>1, <1>3 DEF Ordered

(* A process that is ahead of compilation changes nothing on disk. *)
LEMMA EarlyStep ==
    ASSUME disk' = disk, exe' = exe, proc.pc \in Early, proc'.pc \in Early, DiskTyped, CacheSound,
           CallsAgree, PinsHold
    PROVE  /\ DiskTyped' /\ Listed' /\ CacheSound' /\ ProcCacheSound' /\ ObjsSound' /\ CallsAgree' /\ PinsHold'
           /\ proc'.pc # "graph" => Checked'
  <1>1. proc'.pc \notin {"compile", "save", "link"} /\ proc.pc \notin {"compile", "save"}
    BY DEF Early
  <1>2. DiskTyped'
    BY DEF DiskTyped
  <1>3. (proc'.pc # "graph" => Checked') /\ Listed' /\ ProcCacheSound' /\ ObjsSound'
    BY <1>1 DEF Checked, Listed, ProcCacheSound, ObjsSound, Late
  <1>4. CacheSound'
    BY <1>1 DEF CacheSound
  <1>5. CallsAgree' /\ PinsHold'
    BY SameExe
  <1> QED BY <1>2, <1>3, <1>4, <1>5

(* A process ends. *)
LEMMA EndStep ==
    ASSUME IInv, SrcTyped', DiskTyped', CacheSound', DOMAIN used' = UsedFields, proc' = NoProc, exe' = exe
    PROVE  IInv'
  <1>1. ProcTyped' /\ Phased' /\ Loading' /\ Ordered' /\ Checked' /\ Listed' /\ ProcCacheSound' /\ ObjsSound'
    BY Ended
  <1>2. CallsAgree' /\ PinsHold'
    BY SameExe DEF IInv
  <1>3. Typed'
    BY <1>1 DEF IInv, Typed
  <1> QED BY <1>1, <1>2, <1>3 DEF IInv

(* A process ends, and what it wrote counts as overwritten. *)
LEMMA QuitStep ==
    ASSUME IInv, SrcTyped', DOMAIN used' = UsedFields, proc' = NoProc, exe' = exe,
           DOMAIN disk' = DiskFields, disk'.manifest = disk.manifest, disk'.objects = disk.objects,
           disk'.registry = disk.registry, disk'.index = disk.index,
           disk'.overwritten = disk.overwritten \cup proc.wrote
    PROVE  IInv'
  <1>1. DiskTyped'
    BY DEF IInv, Typed, DiskTyped
  <1>2. CacheSound'
    BY DEF IInv, CacheSound
  <1> QED BY <1>1, <1>2, EndStep

(* An early error exit: the process ends with a message. *)
LEMMA FailKeeps == ASSUME IInv, Fail  PROVE IInv'
  <1>1. /\ src' = src /\ exe' = exe /\ proc' = NoProc /\ used' = [used EXCEPT !.changed = TRUE]
        /\ disk' = [disk EXCEPT !.objects = disk.objects, !.overwritten = @ \cup proc.wrote]
    BY DEF Fail, Quit
  <1>2. DOMAIN used = UsedFields /\ DOMAIN disk = DiskFields /\ SrcTyped
    BY DEF IInv, Typed, DiskTyped
  <1>3. DOMAIN used' = UsedFields
    BY <1>1, <1>2
  <1>4. /\ DOMAIN disk' = DiskFields /\ disk'.manifest = disk.manifest /\ disk'.objects = disk.objects
        /\ disk'.registry = disk.registry /\ disk'.index = disk.index
        /\ disk'.overwritten = disk.overwritten \cup proc.wrote
    BY <1>1, <1>2 DEF DiskFields
  <1>5. SrcTyped'
    BY <1>1, <1>2 DEF SrcTyped
  <1> QED BY <1>1, <1>3, <1>4, <1>5, QuitStep

-----------------------------------------------------------------------------
(* Authors and the start of a build *)

(* A source with another HASH line, signature or list of requirements. *)
LEMMA SourceUpdates ==
    ASSUME NEW f, NEW s, IsSource(f, s), NEW h, NEW v \in Versions, NEW r, DOMAIN r \subseteq Requirable[f]
    PROVE  /\ IsSource(f, [s EXCEPT !.hash = h])
           /\ IsSource(f, [s EXCEPT !.ver = v])
           /\ IsSource(f, [s EXCEPT !.req = r])
           /\ [s EXCEPT !.hash = h].req = s.req
  <1>1. s = [ver |-> s.ver, req |-> s.req, hash |-> s.hash] /\ s.ver \in Versions /\ DOMAIN s.req \subseteq Requirable[f]
    BY DEF IsSource
  <1>2. /\ [s EXCEPT !.hash = h] = [ver |-> s.ver, req |-> s.req, hash |-> h]
        /\ [s EXCEPT !.ver = v] = [ver |-> v, req |-> s.req, hash |-> s.hash]
        /\ [s EXCEPT !.req = r] = [ver |-> s.ver, req |-> r, hash |-> s.hash]
    BY <1>1
  <1> QED BY <1>1, <1>2 DEF IsSource

(* Whatever an author writes is a source of that file. *)
LEMMA RevisedTyped ==
    ASSUME SrcTyped, NEW f \in Files, NEW s \in Revised(f)
    PROVE  IsSource(f, s)
  <1> DEFINE o == src[f]
             signed(t) == {t} \cup {[t EXCEPT !.hash = None] : l \in Library \cap {f}}
                              \cup {[t EXCEPT !.hash = ContractHash(t)] : b \in (Behaviors \cup Library) \cap {f}}
  <1>1. IsSource(f, o) /\ o.ver \in Versions /\ DOMAIN o.req \subseteq Requirable[f]
    BY SourceFacts DEF SrcTyped
  <1>2. ASSUME NEW t, IsSource(f, t), NEW u \in signed(t)  PROVE IsSource(f, u)
    <2>1. t.ver \in Versions /\ DOMAIN t.req \subseteq Requirable[f]
      BY <1>2, SourceFacts
    <2>2. \A h : IsSource(f, [t EXCEPT !.hash = h])
      BY <1>2, <2>1, SourceUpdates
    <2> QED BY <1>2, <2>2
  <1>3. \A v \in Versions : IsSource(f, [o EXCEPT !.ver = v])
    BY <1>1, SourceUpdates
  <1>4. ASSUME NEW r, DOMAIN r \subseteq Requirable[f]  PROVE IsSource(f, [o EXCEPT !.req = r])
    BY <1>1, <1>4, SourceUpdates
  <1>5. ASSUME NEW e \in Requirable[f], NEW v  PROVE DOMAIN Put(o.req, e, v) \subseteq Requirable[f]
    <2>1. DOMAIN Put(o.req, e, v) = DOMAIN o.req \cup {e}
      BY PutFacts
    <2> QED BY <1>1, <2>1
  <1>6. \A d : DOMAIN Restrict(o.req, DOMAIN o.req \ {d}) \subseteq Requirable[f]
    BY <1>1, RestrictFacts
  <1> DEFINE A == UNION {signed([o EXCEPT !.ver = v]) : v \in Versions}
             B == UNION {signed([o EXCEPT !.req = Put(@, e, None)]) : e \in Requirable[f]}
             C == UNION {signed([o EXCEPT !.req = Put(@, e, ContractHash(src[e]))]) : e \in Requirable[f] \cap Files}
             D == {[o EXCEPT !.req = Restrict(@, DOMAIN @ \ {d})] : d \in DOMAIN o.req}
  <1>7. Revised(f) = A \cup B \cup C \cup D
    BY DEF Revised
  <1>8. CASE s \in A
    <2>1. PICK v \in Versions : s \in signed([o EXCEPT !.ver = v])
      BY <1>8
    <2> QED BY <2>1, <1>2, <1>3
  <1>9. CASE s \in B
    <2>1. PICK e \in Requirable[f] : s \in signed([o EXCEPT !.req = Put(o.req, e, None)])
      BY <1>9
    <2>2. IsSource(f, [o EXCEPT !.req = Put(o.req, e, None)])
      BY <1>4, <1>5
    <2> QED BY <2>1, <2>2, <1>2
  <1>10. CASE s \in C
    <2>1. PICK e \in Requirable[f] : s \in signed([o EXCEPT !.req = Put(o.req, e, ContractHash(src[e]))])
      BY <1>10
    <2>2. IsSource(f, [o EXCEPT !.req = Put(o.req, e, ContractHash(src[e]))])
      BY <1>4, <1>5
    <2> QED BY <2>1, <2>2, <1>2
  <1>11. CASE s \in D
    BY <1>11, <1>4, <1>6
  <1> HIDE DEF A, B, C, D
  <1> QED BY <1>7, <1>8, <1>9, <1>10, <1>11

(* The process stays as it is: so does what it has loaded and checked. *)
LEMMA SameProc ==
    ASSUME proc' = proc, Phased, Loading, Ordered, Checked, Listed
    PROVE  Phased' /\ Loading' /\ Ordered' /\ Checked' /\ Listed'
  <1>1. Local' = Local
    BY DEF Local
  <1>2. Phased'
    BY <1>1 DEF Phased
  <1>3. Loading'
    BY <1>1 DEF Loading, Covered
  <1>4. Ordered'
    BY SameOrdered
  <1>5. Checked'
    <2>1. \A d : (Known(d)' <=> Known(d)) /\ Contract(d)' = Contract(d)
      BY <1>1 DEF Known, Contract
    <2>2. Undefined' = Undefined /\ Stale' = Stale
      BY <1>1, <2>1 DEF Undefined, Stale
    <2> QED BY <1>1, <2>2 DEF Checked
  <1>6. Listed'
    BY <1>1 DEF Listed
  <1> QED BY <1>2, <1>3, <1>4, <1>5, <1>6

(* An edit, at any moment: the process works on what it has parsed. *)
LEMMA EditKeeps == ASSUME IInv, NEW f \in Files, Edit(f)  PROVE IInv'
  <1>1. disk' = disk /\ proc' = proc /\ exe' = exe
    BY DEF Edit
  <1>2. PICK s \in Revised(f) : src' = [src EXCEPT ![f] = s]
    BY DEF Edit
  <1>3. SrcTyped'
    BY <1>2, RevisedTyped DEF IInv, Typed, SrcTyped
  <1>4. DOMAIN used' = UsedFields
    BY DEF IInv, Typed, Edit
  <1>5. Typed'
    BY <1>1, <1>3, <1>4 DEF IInv, Typed, DiskTyped, ProcTyped
  <1>6. Phased' /\ Loading' /\ Ordered' /\ Checked' /\ Listed'
    BY <1>1, SameProc DEF IInv
  <1>7. CacheSound' /\ ProcCacheSound'
    BY <1>1 DEF IInv, CacheSound, ProcCacheSound
  <1>8. ObjsSound'
    <2>1. \A f1, o : MadeFor(f1, o) => MadeFor(f1, o)'
      BY <1>1, SameMadeFor
    <2> QED BY <1>1, <2>1 DEF IInv, ObjsSound
  <1>9. CallsAgree' /\ PinsHold'
    BY <1>1, SameExe DEF IInv
  <1> QED BY <1>5, <1>6, <1>7, <1>8, <1>9 DEF IInv

(* A frame of the loader's stack for a file and what it has to load. *)
LEMMA FrameFacts ==
    ASSUME NEW f \in Behaviors \cup {Entry}, NEW S \in SUBSET Names, IsFiniteSet(S)
    PROVE  /\ Frame(f, S) \in Frames /\ Frame(f, S).file = f /\ ToSet(Frame(f, S).rest) = S
  <1>1. SetToSeq(S) \in Seq(S) /\ ToSet(SetToSeq(S)) = S
    BY ListFacts
  <1>2. SetToSeq(S) \in Seq(Names)
    BY <1>1, SeqMonotonic
  <1> QED BY <1>1, <1>2 DEF Frame, Frames

(* What ENTRY and the patterns call are files, finitely many. *)
LEMMA CallFacts ==
    /\ Calls[Entry] \subseteq Names /\ IsFiniteSet(Calls[Entry])
    /\ UNION {Calls[p] : p \in Patterns} \subseteq Names /\ IsFiniteSet(UNION {Calls[p] : p \in Patterns})
    /\ Calls[Entry] \subseteq Behaviors \cup Library
  <1>1. Calls[Entry] \subseteq Files /\ UNION {Calls[p] : p \in Patterns} \subseteq Files
    BY FileFacts
  <1> QED BY <1>1, FileFacts, FS_Subset

(* An executable's build starts. *)
LEMMA StartExeKeeps == ASSUME IInv, NEW fix \in BOOLEAN, StartExe(fix)  PROVE IInv'
  <1>1. src' = src /\ disk' = disk /\ exe' = exe /\ proc.pc = "idle"
    BY DEF StartExe, Idle
  <1>2. /\ DOMAIN proc' = ProcFields /\ proc'.pc = "load" /\ proc'.mode = "exe"
        /\ proc'.stack = <<Frame(Entry, Calls[Entry])>>
        /\ proc'.ast = [f \in {Entry} |-> src[f]] /\ proc'.loaded = {} /\ proc'.order = <<>>
        /\ proc'.contracts = disk.registry /\ proc'.symbols = disk.index
        /\ proc'.manifest = <<>> /\ proc'.todo = <<>> /\ proc'.objs = <<>>
        /\ proc'.wrote = {} /\ proc'.raced = {}
    BY DEF StartExe, NoProc, ProcFields
  <1>3. DOMAIN used' = UsedFields /\ SrcTyped'
    BY <1>1 DEF IInv, Typed, StartExe, SrcTyped
  <1>4. Frame(Entry, Calls[Entry]) \in Frames /\ Frame(Entry, Calls[Entry]).file = Entry
    BY FrameFacts, CallFacts
  <1>5. DOMAIN <<>> = {} /\ (\A S : <<>> \in Seq(S)) /\ Local' = {}
    BY <1>2 DEF Local, ToSet
  <1>6. proc'.stack \in Seq(Frames) /\ DOMAIN proc'.stack = {1} /\ proc'.stack[1].file = Entry
    BY <1>2, <1>4
  <1>7. DOMAIN proc'.ast = {Entry} /\ proc'.ast[Entry] = src[Entry]
    BY <1>2
  <1>8. ProcTyped'
    BY <1>2, <1>5, <1>6, <1>7, FileFacts DEF IInv, Typed, DiskTyped, SrcTyped, ProcTyped, Modes
  <1>9. Phased' /\ Ordered'
    BY <1>2, <1>5 DEF Phased, Ordered, Early
  <1>10. Loading'
    BY <1>2, <1>5, <1>6, FileFacts DEF Loading, Covered
  <1>11. proc.pc \in Early /\ proc'.pc \in Early \ {"graph"}
    BY <1>1, <1>2 DEF Early
  <1>12. /\ DiskTyped' /\ Checked' /\ Listed' /\ CacheSound' /\ ProcCacheSound' /\ ObjsSound'
         /\ CallsAgree' /\ PinsHold'
    BY <1>1, <1>11, EarlyStep DEF IInv, Typed
  <1>13. Typed'
    BY <1>1, <1>3, <1>8, <1>12 DEF IInv, Typed
  <1> QED BY <1>9, <1>10, <1>12, <1>13 DEF IInv

(* A library's build starts. *)
LEMMA StartLibKeeps == ASSUME IInv, NEW fix \in BOOLEAN, StartLib(fix)  PROVE IInv'
  <1>1. src' = src /\ disk' = disk /\ exe' = exe /\ proc.pc = "idle"
    BY DEF StartLib, Idle
  <1>2. /\ DOMAIN proc' = ProcFields /\ proc'.pc = "parse" /\ proc'.mode = "lib" /\ proc'.stack = <<>>
        /\ proc'.ast = <<>> /\ proc'.loaded = {} /\ proc'.order = <<>> /\ proc'.contracts = <<>>
        /\ proc'.symbols = {} /\ proc'.manifest = <<>> /\ proc'.todo = <<>> /\ proc'.objs = <<>>
        /\ proc'.wrote = {} /\ proc'.raced = {}
    BY DEF StartLib, NoProc, ProcFields
  <1>3. DOMAIN used' = UsedFields /\ SrcTyped'
    BY <1>1 DEF IInv, Typed, StartLib, SrcTyped
  <1>4. DOMAIN <<>> = {} /\ (\A S : <<>> \in Seq(S)) /\ Local' = {} /\ ToSet(<<>>) = {}
    BY <1>2 DEF Local, ToSet
  <1>5. ProcTyped'
    BY <1>2, <1>4 DEF ProcTyped, Modes
  <1>6. Phased' /\ Ordered' /\ Loading'
    BY <1>2, <1>4 DEF StartLib, Phased, Ordered, Loading, Early
  <1>7. proc.pc \in Early /\ proc'.pc \in Early \ {"graph"}
    BY <1>1, <1>2 DEF Early
  <1>8. /\ DiskTyped' /\ Checked' /\ Listed' /\ CacheSound' /\ ProcCacheSound' /\ ObjsSound'
        /\ CallsAgree' /\ PinsHold'
    BY <1>1, <1>7, EarlyStep DEF IInv, Typed
  <1>9. Typed'
    BY <1>1, <1>3, <1>5, <1>8 DEF IInv, Typed
  <1> QED BY <1>6, <1>8, <1>9 DEF IInv

-----------------------------------------------------------------------------
(* The loader *)

(* The frame on top, and the name it has next. *)
LEMMA TopFacts ==
    ASSUME ProcTyped, proc.stack # <<>>
    PROVE  /\ Top = proc.stack[1] /\ 1 \in DOMAIN proc.stack /\ DOMAIN proc.stack = 1 .. Len(proc.stack)
           /\ Len(proc.stack) \in Nat /\ Len(proc.stack) > 0 /\ \A i \in DOMAIN proc.stack : proc.stack[i] \in Frames
           /\ DOMAIN Top = {"file", "rest"} /\ Top.file \in Behaviors \cup {Entry} /\ Top.rest \in Seq(Names)
           /\ Top.rest # <<>> => /\ Wanted \in Names /\ Tail(Top.rest) \in Seq(Names)
                                 /\ ToSet(Top.rest) = ToSet(Tail(Top.rest)) \cup {Wanted}
  <1>1. proc.stack \in Seq(Frames)
    BY DEF ProcTyped
  <1>2. /\ Top = proc.stack[1] /\ 1 \in DOMAIN proc.stack /\ DOMAIN proc.stack = 1 .. Len(proc.stack)
        /\ Len(proc.stack) \in Nat /\ Len(proc.stack) > 0 /\ \A i \in DOMAIN proc.stack : proc.stack[i] \in Frames
    BY <1>1 DEF Top
  <1>3. DOMAIN Top = {"file", "rest"} /\ Top.file \in Behaviors \cup {Entry} /\ Top.rest \in Seq(Names)
    BY <1>2 DEF Frames
  <1>4. Top.rest # <<>> => /\ Wanted \in Names /\ Tail(Top.rest) \in Seq(Names)
                           /\ ToSet(Top.rest) = ToSet(Tail(Top.rest)) \cup {Wanted}
    BY <1>3, TakeFacts DEF Wanted
  <1> QED BY <1>2, <1>3, <1>4

(* The loader takes a name off the frame on top. *)
LEMMA PopFacts ==
    ASSUME ProcTyped, proc.stack # <<>>, Top.rest # <<>>
    PROVE  /\ DOMAIN PopName = ProcFields /\ PopName.pc = proc.pc /\ PopName.mode = proc.mode /\ PopName.fix = proc.fix
           /\ PopName.ast = proc.ast /\ PopName.loaded = proc.loaded /\ PopName.order = proc.order
           /\ PopName.contracts = proc.contracts /\ PopName.symbols = proc.symbols
           /\ PopName.manifest = proc.manifest /\ PopName.todo = proc.todo /\ PopName.objs = proc.objs
           /\ PopName.wrote = proc.wrote /\ PopName.raced = proc.raced
           /\ PopName.stack \in Seq(Frames) /\ Len(PopName.stack) = Len(proc.stack)
           /\ PopName.stack[1].file = Top.file /\ PopName.stack[1].rest = Tail(Top.rest)
           /\ \A i \in 2 .. Len(proc.stack) : PopName.stack[i] = proc.stack[i]
  <1> DEFINE fr == [Top EXCEPT !.rest = Tail(Top.rest)]
             st == [proc.stack EXCEPT ![1] = fr]
  <1>1. /\ Top = proc.stack[1] /\ 1 \in DOMAIN proc.stack /\ proc.stack \in Seq(Frames)
        /\ Len(proc.stack) \in Nat /\ Top \in Frames /\ Tail(Top.rest) \in Seq(Names)
    BY TopFacts DEF ProcTyped
  <1>2. fr \in Frames /\ fr.file = Top.file /\ fr.rest = Tail(Top.rest)
    BY <1>1 DEF Frames
  <1>3. st \in Seq(Frames) /\ Len(st) = Len(proc.stack) /\ st[1] = fr /\ \A i \in 2 .. Len(proc.stack) : st[i] = proc.stack[i]
    <2> HIDE DEF fr
    <2> QED BY <1>1, <1>2
  <1>4. DOMAIN proc = ProcFields
    BY DEF ProcTyped
  <1>5. PopName = [proc EXCEPT !.stack = st]
    BY <1>1 DEF PopName
  <1> HIDE DEF st, fr
  <1>6. PopName.stack = st
    BY <1>4, <1>5 DEF ProcFields
  <1>7. /\ DOMAIN PopName = ProcFields /\ PopName.pc = proc.pc /\ PopName.mode = proc.mode /\ PopName.fix = proc.fix
        /\ PopName.ast = proc.ast /\ PopName.loaded = proc.loaded /\ PopName.order = proc.order
        /\ PopName.contracts = proc.contracts /\ PopName.symbols = proc.symbols
        /\ PopName.manifest = proc.manifest /\ PopName.todo = proc.todo /\ PopName.objs = proc.objs
        /\ PopName.wrote = proc.wrote /\ PopName.raced = proc.raced
    BY <1>4, <1>5 DEF ProcFields
  <1> QED BY <1>2, <1>3, <1>6, <1>7

(* The requirements of a frame below the top stay covered. *)
LEMMA PopCovered ==
    ASSUME ProcTyped, proc.stack # <<>>, Top.rest # <<>>, NEW i \in DOMAIN proc.stack, Covered(i),
           proc.stack[i].file \in Behaviors, NEW d \in DOMAIN proc.ast[proc.stack[i].file].req \cap Behaviors
    PROVE  \/ d \in Local \/ d \in ToSet(PopName.stack[i].rest)
           \/ i > 1 /\ PopName.stack[i - 1].file = d
           \/ i = 1 /\ d = Wanted
  <1>1. d \in Local \/ d \in ToSet(proc.stack[i].rest) \/ (i > 1 /\ proc.stack[i - 1].file = d)
    BY DEF Covered
  <1>2. DOMAIN proc.stack = 1 .. Len(proc.stack) /\ Len(proc.stack) \in Nat /\ Top = proc.stack[1]
        /\ ToSet(Top.rest) = ToSet(Tail(Top.rest)) \cup {Wanted}
    BY TopFacts
  <1>3. /\ PopName.stack[1].rest = Tail(Top.rest)
        /\ \A j \in 2 .. Len(proc.stack) : PopName.stack[j] = proc.stack[j]
        /\ \A j \in DOMAIN proc.stack : PopName.stack[j].file = proc.stack[j].file
    BY <1>2, PopFacts
  <1>4. CASE i = 1
    BY <1>1, <1>2, <1>3, <1>4
  <1>5. CASE i > 1
    BY <1>1, <1>2, <1>3, <1>5
  <1> QED BY <1>2, <1>4, <1>5

(* A name that is loaded already, or a library's. *)
LEMMA LoadKnownKeeps == ASSUME IInv, LoadKnown  PROVE IInv'
  <1>1. /\ src' = src /\ disk' = disk /\ exe' = exe /\ used' = used /\ proc.pc = "load" /\ proc.stack # <<>> /\ Top.rest # <<>>
        /\ Wanted \in proc.loaded \cup proc.symbols /\ proc' = [PopName EXCEPT !.loaded = @ \cup {Wanted}]
    BY DEF LoadKnown
  <1>2. ProcTyped /\ proc.mode = "exe"
    BY <1>1 DEF IInv, Typed, Phased
  <1>3. /\ DOMAIN proc' = ProcFields /\ proc'.pc = "load" /\ proc'.mode = "exe" /\ proc'.stack = PopName.stack
        /\ proc'.ast = proc.ast /\ proc'.loaded = proc.loaded \cup {Wanted} /\ proc'.order = proc.order
        /\ proc'.contracts = proc.contracts /\ proc'.symbols = proc.symbols
        /\ proc'.manifest = proc.manifest /\ proc'.todo = proc.todo /\ proc'.objs = proc.objs
        /\ proc'.wrote = proc.wrote /\ proc'.raced = proc.raced
    BY <1>1, <1>2, PopFacts DEF ProcFields
  <1>4. ProcTyped'
    BY <1>1, <1>2, <1>3, PopFacts DEF ProcTyped
  <1>5. Local' = Local /\ proc.pc \in Early /\ proc'.pc \in Early \ {"graph"}
    BY <1>1, <1>3 DEF Local, Early
  <1>6. Phased'
    BY <1>1, <1>2, <1>3, <1>5 DEF IInv, Phased
  <1>7. Ordered'
    BY <1>2, <1>3, SameOrdered DEF IInv
  <1>8. Wanted \in Behaviors => Wanted \in Local
    BY <1>1, <1>2, FileFacts DEF IInv, Loading, ProcTyped
  <1>9. proc'.loaded \cap Behaviors = Local'
    BY <1>1, <1>3, <1>5, <1>8 DEF IInv, Loading
  <1>10. DOMAIN PopName.stack = DOMAIN proc.stack /\ \A i \in DOMAIN proc.stack : PopName.stack[i].file = proc.stack[i].file
    <2>1. DOMAIN proc.stack = 1 .. Len(proc.stack) /\ Top = proc.stack[1]
      BY <1>1, <1>2, TopFacts
    <2>2. PopName.stack \in Seq(Frames) /\ Len(PopName.stack) = Len(proc.stack)
      BY <1>1, <1>2, PopFacts
    <2>3. DOMAIN PopName.stack = 1 .. Len(proc.stack)
      BY <2>2
    <2> QED BY <1>1, <1>2, <2>1, <2>3, PopFacts
  <1>11. ASSUME NEW i \in DOMAIN proc.stack  PROVE Covered(i)'
    <2>1. Covered(i)
      BY <1>1 DEF IInv, Loading
    <2> SUFFICES ASSUME proc.stack[i].file \in Behaviors
                 PROVE  /\ proc.stack[i].file \in DOMAIN proc.ast
                        /\ \A d \in DOMAIN proc.ast[proc.stack[i].file].req \cap Behaviors :
                              \/ d \in Local \/ d \in ToSet(PopName.stack[i].rest)
                              \/ (i > 1 /\ PopName.stack[i - 1].file = d)
      BY <1>3, <1>5, <1>10 DEF Covered
    <2>2. proc.stack[i].file \in DOMAIN proc.ast
      BY <2>1 DEF Covered
    <2>3. \A d \in DOMAIN proc.ast[proc.stack[i].file].req \cap Behaviors :
              \/ d \in Local \/ d \in ToSet(PopName.stack[i].rest)
              \/ (i > 1 /\ PopName.stack[i - 1].file = d)
      BY <1>1, <1>2, <1>8, <2>1, PopCovered
    <2> QED BY <2>2, <2>3
  <1>12. Loading'
    BY <1>3, <1>9, <1>10, <1>11 DEF Loading
  <1>13. /\ DiskTyped' /\ Checked' /\ Listed' /\ CacheSound' /\ ProcCacheSound' /\ ObjsSound'
         /\ CallsAgree' /\ PinsHold'
    BY <1>1, <1>5, EarlyStep DEF IInv, Typed
  <1>14. Typed'
    BY <1>1, <1>4, <1>13 DEF IInv, Typed, SrcTyped
  <1> QED BY <1>6, <1>7, <1>12, <1>13, <1>14 DEF IInv

(* On a cycle the stack grows by a frame that is on it, and nothing else changes. *)
LEMMA RecurseKeeps == ASSUME IInv, Recurse  PROVE IInv'
  <1>1. proc.pc = "recursing" /\ src' = src /\ disk' = disk /\ exe' = exe /\ used' = used
    BY DEF Recurse
  <1>2. ProcTyped /\ proc.mode = "exe"
    BY <1>1 DEF IInv, Typed, Phased
  <1>3. PICK i \in DOMAIN proc.stack : proc' = [proc EXCEPT !.stack = <<proc.stack[i]>> \o @]
    BY DEF Recurse
  <1>4. proc.stack[i] \in Frames /\ proc.stack \in Seq(Frames)
    BY <1>2, <1>3 DEF ProcTyped
  <1>5. <<proc.stack[i]>> \o proc.stack \in Seq(Frames)
    BY <1>4
  <1>6. /\ DOMAIN proc' = ProcFields /\ proc'.pc = "recursing" /\ proc'.mode = "exe" /\ proc'.stack \in Seq(Frames)
        /\ proc'.ast = proc.ast /\ proc'.loaded = proc.loaded /\ proc'.order = proc.order
        /\ proc'.contracts = proc.contracts /\ proc'.symbols = proc.symbols
        /\ proc'.manifest = proc.manifest /\ proc'.todo = proc.todo /\ proc'.objs = proc.objs
        /\ proc'.wrote = proc.wrote /\ proc'.raced = proc.raced
    BY <1>1, <1>2, <1>3, <1>5 DEF ProcTyped, ProcFields
  <1>7. ProcTyped'
    BY <1>2, <1>6 DEF ProcTyped
  <1>8. Local' = Local /\ proc.pc \in Early /\ proc'.pc \in Early \ {"graph"}
    BY <1>1, <1>6 DEF Local, Early
  <1>9. Phased' /\ Loading'
    BY <1>1, <1>2, <1>6, <1>8 DEF IInv, Phased, Loading
  <1>10. Ordered'
    BY <1>2, <1>6, SameOrdered DEF IInv
  <1>11. /\ DiskTyped' /\ Checked' /\ Listed' /\ CacheSound' /\ ProcCacheSound' /\ ObjsSound'
         /\ CallsAgree' /\ PinsHold'
    BY <1>1, <1>8, EarlyStep DEF IInv, Typed
  <1>12. Typed'
    BY <1>1, <1>7, <1>11 DEF IInv, Typed, SrcTyped
  <1> QED BY <1>9, <1>10, <1>11, <1>12 DEF IInv

(* What parse_behavior leaves of a source is a source. *)
LEMMA FixedTyped == ASSUME NEW f, NEW s, IsSource(f, s)  PROVE IsSource(f, Fixed(s)) /\ Fixed(s).req = s.req
  <1>1. s.ver \in Versions /\ DOMAIN s.req \subseteq Requirable[f]
    BY SourceFacts
  <1> QED BY <1>1, SourceUpdates DEF Fixed

(* The stack when a file's frame is pushed. *)
LEMMA PushFacts ==
    ASSUME NEW st \in Seq(Frames), NEW fr \in Frames
    PROVE  /\ <<fr>> \o st \in Seq(Frames) /\ DOMAIN (<<fr>> \o st) = 1 .. Len(st) + 1 /\ Len(st) \in Nat
           /\ (<<fr>> \o st)[1] = fr /\ \A i \in 2 .. Len(st) + 1 : (<<fr>> \o st)[i] = st[i - 1]
  OBVIOUS

(* A file is parsed, and its requirements come first. *)
LEMMA LoadFileKeeps == ASSUME IInv, LoadFile  PROVE IInv'
  <1> DEFINE s == Fixed(src[Wanted])
             fr == Frame(Wanted, DOMAIN s.req)
  <1>1. /\ proc.pc = "load" /\ proc.stack # <<>> /\ Top.rest # <<>> /\ used' = used
        /\ Wanted \notin proc.loaded \cup proc.symbols /\ Wanted \in Behaviors
        /\ src' = [src EXCEPT ![Wanted] = s]
    BY DEF LoadFile
  <1>2. ProcTyped /\ proc.mode = "exe" /\ SrcTyped /\ Wanted \in Files
    BY <1>1, FileFacts DEF IInv, Typed, Phased
  <1>3. IsSource(Wanted, s) /\ DOMAIN s.req \subseteq Requirable[Wanted] /\ s.req = src[Wanted].req
    BY <1>2, FixedTyped, SourceFacts DEF SrcTyped
  <1>4. SrcTyped'
    <2> HIDE DEF s
    <2> QED BY <1>1, <1>2, <1>3 DEF SrcTyped
  <1>5. ToSet(fr.rest) = DOMAIN s.req /\ fr.file = Wanted /\ fr \in Frames
    BY <1>1, <1>2, <1>3, FrameFacts, FileFacts, FS_Subset
  <1> HIDE DEF s, fr
  <1>6. CASE PinFails(s)
    <2>1. disk' = [disk EXCEPT !.objects = disk.objects, !.overwritten = @ \cup proc.wrote] /\ proc' = NoProc /\ exe' = exe
      BY <1>6 DEF LoadFile, Quit, s
    <2>2. DOMAIN used' = UsedFields /\ DOMAIN disk = DiskFields
      BY <1>1 DEF IInv, Typed, DiskTyped
    <2>3. /\ DOMAIN disk' = DiskFields /\ disk'.manifest = disk.manifest /\ disk'.objects = disk.objects
          /\ disk'.registry = disk.registry /\ disk'.index = disk.index
          /\ disk'.overwritten = disk.overwritten \cup proc.wrote
      BY <2>1, <2>2 DEF DiskFields
    <2> QED BY <1>4, <2>1, <2>2, <2>3, QuitStep
  <1>7. CASE ~PinFails(s)
    <2> DEFINE cyclic == \E i \in DOMAIN proc.stack : proc.stack[i].file = Wanted
    <2>1. /\ proc' = [PopName EXCEPT !.pc = IF cyclic THEN "recursing" ELSE "load",
                        !.ast = Put(@, Wanted, s), !.stack = <<fr>> \o @]
          /\ disk' = disk /\ exe' = exe
      BY <1>7 DEF LoadFile, s, fr
    <2>2. /\ DOMAIN proc' = ProcFields /\ proc'.pc \in {"load", "recursing"} /\ (proc'.pc = "load" => ~cyclic)
          /\ proc'.mode = "exe" /\ proc'.stack = <<fr>> \o PopName.stack
          /\ proc'.ast = Put(proc.ast, Wanted, s) /\ proc'.loaded = proc.loaded /\ proc'.order = proc.order
          /\ proc'.contracts = proc.contracts /\ proc'.symbols = proc.symbols
          /\ proc'.manifest = proc.manifest /\ proc'.todo = proc.todo /\ proc'.objs = proc.objs
          /\ proc'.wrote = proc.wrote /\ proc'.raced = proc.raced
      <3> HIDE DEF cyclic
      <3> QED BY <1>1, <1>2, <2>1, PopFacts DEF ProcFields
    <2>3. /\ DOMAIN proc'.ast = DOMAIN proc.ast \cup {Wanted} /\ proc'.ast[Wanted] = s
          /\ \A f \in DOMAIN proc.ast \ {Wanted} : proc'.ast[f] = proc.ast[f]
      <3>1. /\ DOMAIN Put(proc.ast, Wanted, s) = DOMAIN proc.ast \cup {Wanted} /\ Put(proc.ast, Wanted, s)[Wanted] = s
            /\ \A f \in DOMAIN proc.ast \ {Wanted} : Put(proc.ast, Wanted, s)[f] = proc.ast[f]
        BY DEF Put
      <3> QED BY <2>2, <3>1
    <2>4. /\ PopName.stack \in Seq(Frames) /\ Len(PopName.stack) = Len(proc.stack) /\ Len(proc.stack) \in Nat
          /\ DOMAIN proc.stack = 1 .. Len(proc.stack)
          /\ \A i \in DOMAIN proc.stack : PopName.stack[i].file = proc.stack[i].file
      <3>1. /\ Top = proc.stack[1] /\ Len(proc.stack) \in Nat /\ DOMAIN proc.stack = 1 .. Len(proc.stack)
        BY <1>1, <1>2, TopFacts
      <3>2. /\ PopName.stack \in Seq(Frames) /\ Len(PopName.stack) = Len(proc.stack)
            /\ PopName.stack[1].file = Top.file /\ \A i \in 2 .. Len(proc.stack) : PopName.stack[i] = proc.stack[i]
        BY <1>1, <1>2, PopFacts
      <3> QED BY <3>1, <3>2
    <2>5. /\ proc'.stack \in Seq(Frames) /\ DOMAIN proc'.stack = 1 .. Len(proc.stack) + 1
          /\ proc'.stack[1] = fr /\ \A i \in 2 .. Len(proc.stack) + 1 : proc'.stack[i] = PopName.stack[i - 1]
      BY <1>5, <2>2, <2>4, PushFacts
    <2>6. ProcTyped'
      BY <1>2, <1>3, <2>2, <2>3, <2>5 DEF ProcTyped
    <2>7. Local' = Local /\ proc.pc \in Early /\ proc'.pc \in Early \ {"graph"}
      BY <1>1, <2>2 DEF Local, Early
    <2>8. Local = proc.loaded \cap Behaviors /\ Wanted \notin Local /\ Local \subseteq Behaviors \cap DOMAIN proc.ast
      BY <1>1, <1>2 DEF IInv, Loading, Phased
    <2>9. Phased'
      BY <1>1, <2>2, <2>3, <2>7, <2>8 DEF IInv, Phased
    <2>10. Ordered'
      <3>1. \A f \in Local : proc'.ast[f] = proc.ast[f]
        BY <2>3, <2>8
      <3> QED BY <1>2, <2>2, <3>1, SameOrdered DEF IInv
    <2>11. ASSUME ~cyclic, NEW i \in DOMAIN proc'.stack  PROVE Covered(i)'
      <3>1. CASE i = 1
        BY <1>5, <2>3, <2>5, <3>1 DEF Covered
      <3>2. CASE i # 1
        <4> DEFINE k == i - 1
                   f == proc.stack[k].file
        <4>1. k \in DOMAIN proc.stack /\ proc'.stack[i] = PopName.stack[k] /\ i > 1 /\ k = i - 1 /\ k \in Nat
          BY <2>4, <2>5, <3>2
        <4>2. proc'.stack[i].file = f /\ f # Wanted
          BY <2>4, <2>11, <4>1
        <4>3. k > 1 => proc'.stack[i - 1] = PopName.stack[k - 1]
          BY <2>4, <2>5, <4>1
        <4>4. proc'.stack[1].file = Wanted
          BY <1>5, <2>5
        <4>5. Covered(k)
          BY <1>1, <4>1 DEF IInv, Loading
        <4> SUFFICES ASSUME f \in Behaviors
                     PROVE  /\ f \in DOMAIN proc'.ast
                            /\ \A d \in DOMAIN proc'.ast[f].req \cap Behaviors :
                                 \/ d \in Local \/ d \in ToSet(PopName.stack[k].rest)
                                 \/ (i > 1 /\ proc'.stack[i - 1].file = d)
          BY <2>7, <4>1, <4>2 DEF Covered
        <4>6. f \in DOMAIN proc.ast
          BY <4>5 DEF Covered
        <4>7. f \in DOMAIN proc'.ast /\ proc'.ast[f] = proc.ast[f]
          BY <2>3, <4>2, <4>6
        <4>8. ASSUME NEW d \in DOMAIN proc.ast[f].req \cap Behaviors
              PROVE  \/ d \in Local \/ d \in ToSet(PopName.stack[k].rest)
                     \/ (i > 1 /\ proc'.stack[i - 1].file = d)
          <5>1. \/ d \in Local \/ d \in ToSet(PopName.stack[k].rest)
                \/ k > 1 /\ PopName.stack[k - 1].file = d
                \/ k = 1 /\ d = Wanted
            BY <1>1, <1>2, <4>1, <4>5, PopCovered
          <5> QED BY <4>1, <4>3, <4>4, <5>1
        <4> QED BY <4>7, <4>8
      <3> QED BY <3>1, <3>2
    <2>12. Loading'
      BY <2>2, <2>7, <2>8, <2>11 DEF Loading
    <2>13. /\ DiskTyped' /\ Checked' /\ Listed' /\ CacheSound' /\ ProcCacheSound' /\ ObjsSound'
           /\ CallsAgree' /\ PinsHold'
      BY <2>1, <2>7, EarlyStep DEF IInv, Typed
    <2>14. Typed'
      BY <1>1, <1>4, <2>1, <2>6, <2>13 DEF IInv, Typed
    <2> QED BY <2>9, <2>10, <2>12, <2>13, <2>14 DEF IInv
  <1> QED BY <1>6, <1>7

(* A file whose requirements are loaded comes after them. *)
LEMMA LoadReturnKeeps == ASSUME IInv, LoadReturn  PROVE IInv'
  <1>1. /\ src' = src /\ disk' = disk /\ exe' = exe /\ used' = used
        /\ proc.pc = "load" /\ proc.stack # <<>> /\ Top.rest = <<>>
        /\ proc' = [proc EXCEPT !.stack = Tail(@),
                  !.loaded = IF Top.file \in Behaviors THEN @ \cup {Top.file} ELSE @,
                  !.order = IF Top.file \in Behaviors THEN Append(@, Top.file) ELSE @]
    BY DEF LoadReturn
  <1>2. ProcTyped /\ proc.mode = "exe"
    BY <1>1 DEF IInv, Typed, Phased
  <1>3. /\ DOMAIN proc' = ProcFields /\ proc'.pc = "load" /\ proc'.mode = "exe" /\ proc'.stack = Tail(proc.stack)
        /\ proc'.ast = proc.ast
        /\ proc'.loaded = (IF Top.file \in Behaviors THEN proc.loaded \cup {Top.file} ELSE proc.loaded)
        /\ proc'.order = (IF Top.file \in Behaviors THEN Append(proc.order, Top.file) ELSE proc.order)
        /\ proc'.contracts = proc.contracts /\ proc'.symbols = proc.symbols
        /\ proc'.manifest = proc.manifest /\ proc'.todo = proc.todo /\ proc'.objs = proc.objs
        /\ proc'.wrote = proc.wrote /\ proc'.raced = proc.raced
    BY <1>1, <1>2 DEF ProcFields, ProcTyped
  <1>4. /\ Top = proc.stack[1] /\ DOMAIN proc.stack = 1 .. Len(proc.stack) /\ Len(proc.stack) \in Nat
        /\ 1 \in DOMAIN proc.stack /\ proc.stack \in Seq(Frames)
    BY <1>1, <1>2, TopFacts DEF ProcTyped
  <1>5. /\ proc'.stack \in Seq(Frames) /\ DOMAIN proc'.stack = 1 .. Len(proc.stack) - 1
        /\ \A i \in 1 .. Len(proc.stack) - 1 : proc'.stack[i] = proc.stack[i + 1]
    BY <1>1, <1>3, <1>4
  <1>6. /\ proc.order \in Seq(Behaviors \cup Library) /\ Len(proc.order) \in Nat
        /\ DOMAIN proc.order = 1 .. Len(proc.order) /\ Local \subseteq Behaviors \cap DOMAIN proc.ast
        /\ Local = proc.loaded \cap Behaviors
    BY <1>1, <1>2 DEF IInv, Phased, Loading, ProcTyped
  <1>7. Covered(1) /\ ToSet(<<>>) = {}
    BY <1>1, <1>4 DEF IInv, Loading, ToSet
  <1>8. Top.file \in Behaviors =>
          /\ Top.file \in DOMAIN proc.ast
          /\ \A d \in DOMAIN proc.ast[Top.file].req \cap Behaviors : d \in Local
    BY <1>1, <1>4, <1>7 DEF Covered
  <1>9. /\ proc'.order \in Seq(Behaviors \cup Library)
        /\ Local' = IF Top.file \in Behaviors THEN Local \cup {Top.file} ELSE Local
    <2>1. CASE Top.file \in Behaviors
      <3>1. Append(proc.order, Top.file) \in Seq(Behaviors \cup Library)
            /\ ToSet(Append(proc.order, Top.file)) = ToSet(proc.order) \cup {Top.file}
        BY <1>6, <2>1, AppendFacts
      <3> QED BY <1>3, <2>1, <3>1 DEF Local
    <2>2. CASE Top.file \notin Behaviors
      BY <1>3, <1>6, <2>2 DEF Local
    <2> QED BY <2>1, <2>2
  <1>10. ProcTyped'
    BY <1>2, <1>3, <1>5, <1>9 DEF ProcTyped
  <1>11. proc.pc \in Early /\ proc'.pc \in Early \ {"graph"}
    BY <1>1, <1>3 DEF Early
  <1>12. Phased'
    BY <1>1, <1>3, <1>6, <1>8, <1>9 DEF IInv, Phased
  <1>13. Ordered'
    <2>1. CASE Top.file \in Behaviors
      <3>1. SUFFICES ASSUME NEW i \in DOMAIN proc'.order,
                            NEW d \in DOMAIN proc.ast[proc'.order[i]].req \cap Behaviors
                     PROVE  \E j \in 1 .. i - 1 : proc'.order[j] = d
        BY <1>3 DEF Ordered
      <3>2. /\ DOMAIN proc'.order = 1 .. Len(proc.order) + 1 /\ proc'.order[Len(proc.order) + 1] = Top.file
            /\ \A j \in 1 .. Len(proc.order) : proc'.order[j] = proc.order[j]
        BY <1>3, <1>6, <2>1
      <3>3. CASE i = Len(proc.order) + 1
        <4>1. d \in Local
          BY <1>8, <2>1, <3>2, <3>3
        <4>2. PICK j \in DOMAIN proc.order : proc.order[j] = d
          BY <4>1 DEF Local, ToSet
        <4> QED BY <1>6, <3>2, <3>3, <4>2
      <3>4. CASE i # Len(proc.order) + 1
        <4>1. i \in DOMAIN proc.order /\ proc'.order[i] = proc.order[i] /\ i - 1 <= Len(proc.order) /\ i \in Nat
          BY <1>6, <3>2, <3>4
        <4>2. PICK j \in 1 .. i - 1 : proc.order[j] = d
          BY <1>2, <3>1, <4>1 DEF IInv, Ordered
        <4>3. j \in 1 .. Len(proc.order)
          BY <1>6, <4>1
        <4> QED BY <3>2, <4>2, <4>3
      <3> QED BY <3>3, <3>4
    <2>2. CASE Top.file \notin Behaviors
      BY <1>2, <1>3, <2>2, SameOrdered DEF IInv
    <2> QED BY <2>1, <2>2
  <1>14. ASSUME NEW i \in DOMAIN proc'.stack  PROVE Covered(i)'
    <2>1. /\ i + 1 \in DOMAIN proc.stack /\ proc'.stack[i] = proc.stack[i + 1] /\ i \in Nat
          /\ i > 1 => proc'.stack[i - 1] = proc.stack[i]
      <3>1. i \in 1 .. Len(proc.stack) - 1
        BY <1>5
      <3>2. i > 1 => i - 1 \in 1 .. Len(proc.stack) - 1 /\ (i - 1) + 1 = i
        BY <1>4, <3>1
      <3>3. proc'.stack[i] = proc.stack[i + 1]
        BY <1>5, <3>1
      <3>4. i > 1 => proc'.stack[i - 1] = proc.stack[i]
        BY <1>5, <3>2
      <3> QED BY <1>4, <3>1, <3>3, <3>4
    <2>2. Covered(i + 1)
      BY <1>1, <2>1 DEF IInv, Loading
    <2> SUFFICES ASSUME proc.stack[i + 1].file \in Behaviors
                 PROVE  /\ proc.stack[i + 1].file \in DOMAIN proc.ast
                        /\ \A d \in DOMAIN proc.ast[proc.stack[i + 1].file].req \cap Behaviors :
                             \/ d \in Local' \/ d \in ToSet(proc.stack[i + 1].rest)
                             \/ (i > 1 /\ proc'.stack[i - 1].file = d)
      BY <1>3, <2>1 DEF Covered
    <2>3. proc.stack[i + 1].file \in DOMAIN proc.ast
      BY <2>2 DEF Covered
    <2>4. ASSUME NEW d \in DOMAIN proc.ast[proc.stack[i + 1].file].req \cap Behaviors
          PROVE  \/ d \in Local' \/ d \in ToSet(proc.stack[i + 1].rest)
                 \/ (i > 1 /\ proc'.stack[i - 1].file = d)
      <3>1. d \in Local \/ d \in ToSet(proc.stack[i + 1].rest) \/ proc.stack[i].file = d
        BY <2>1, <2>2 DEF Covered
      <3>2. CASE i > 1
        BY <1>9, <2>1, <3>1, <3>2
      <3>3. CASE i = 1
        BY <1>4, <1>9, <3>1, <3>3
      <3> QED BY <1>5, <3>2, <3>3
    <2> QED BY <2>3, <2>4
  <1>15. Loading'
    BY <1>3, <1>6, <1>9, <1>14 DEF Loading
  <1>16. /\ DiskTyped' /\ Checked' /\ Listed' /\ CacheSound' /\ ProcCacheSound' /\ ObjsSound'
         /\ CallsAgree' /\ PinsHold'
    BY <1>1, <1>11, EarlyStep DEF IInv, Typed
  <1>17. Typed'
    BY <1>1, <1>10, <1>16 DEF IInv, Typed, SrcTyped
  <1> QED BY <1>12, <1>13, <1>15, <1>16, <1>17 DEF IInv

(* The patterns are parsed, or loading is done. *)
LEMMA LoadPatternsKeeps == ASSUME IInv, LoadPatterns  PROVE IInv'
  <1>1. src' = src /\ disk' = disk /\ exe' = exe /\ used' = used /\ proc.pc = "load" /\ proc.stack = <<>>
    BY DEF LoadPatterns
  <1>2. ProcTyped /\ proc.mode = "exe" /\ DOMAIN <<>> = {} /\ SrcTyped' /\ DOMAIN used' = UsedFields
    BY <1>1 DEF IInv, Typed, Phased, SrcTyped
  <1>3. CASE Patterns \subseteq DOMAIN proc.ast
    <2>1. proc' = [proc EXCEPT !.pc = "validate", !.fix = FALSE, !.loaded = {}, !.symbols = {}]
      BY <1>3 DEF LoadPatterns
    <2>2. /\ DOMAIN proc' = ProcFields /\ proc'.pc = "validate" /\ proc'.mode = "exe" /\ proc'.stack = proc.stack
          /\ proc'.ast = proc.ast /\ proc'.loaded = {} /\ proc'.order = proc.order
          /\ proc'.contracts = proc.contracts /\ proc'.symbols = {}
          /\ proc'.manifest = proc.manifest /\ proc'.todo = proc.todo /\ proc'.objs = proc.objs
          /\ proc'.wrote = proc.wrote /\ proc'.raced = proc.raced
      BY <1>2, <2>1 DEF ProcFields, ProcTyped
    <2>3. ProcTyped'
      BY <1>2, <2>2 DEF ProcTyped
    <2>4. Local' = Local /\ proc.pc \in Early /\ proc'.pc \in Early \ {"graph"}
      BY <1>1, <2>2 DEF Local, Early
    <2>5. Phased' /\ Loading'
      BY <1>1, <1>2, <2>2, <2>4 DEF IInv, Phased, Loading
    <2>6. Ordered'
      BY <1>2, <2>2, SameOrdered DEF IInv
    <2>7. /\ DiskTyped' /\ Checked' /\ Listed' /\ CacheSound' /\ ProcCacheSound' /\ ObjsSound'
          /\ CallsAgree' /\ PinsHold'
      BY <1>1, <2>4, EarlyStep DEF IInv, Typed
    <2>8. Typed'
      BY <1>1, <1>2, <2>3, <2>7 DEF IInv, Typed
    <2> QED BY <2>5, <2>6, <2>7, <2>8 DEF IInv
  <1>4. CASE ~(Patterns \subseteq DOMAIN proc.ast)
    <2> DEFINE fr == Frame(Entry, UNION {Calls[p] : p \in Patterns})
    <2>1. proc' = [proc EXCEPT
                     !.ast = [f \in DOMAIN @ \cup Patterns |-> IF f \in Patterns THEN src[f] ELSE @[f]],
                     !.stack = <<fr>>]
      BY <1>4 DEF LoadPatterns
    <2>2. /\ DOMAIN proc' = ProcFields /\ proc'.pc = "load" /\ proc'.mode = "exe" /\ proc'.stack = <<fr>>
          /\ proc'.ast = [f \in DOMAIN proc.ast \cup Patterns |-> IF f \in Patterns THEN src[f] ELSE proc.ast[f]]
          /\ proc'.loaded = proc.loaded /\ proc'.order = proc.order
          /\ proc'.contracts = proc.contracts /\ proc'.symbols = proc.symbols
          /\ proc'.manifest = proc.manifest /\ proc'.todo = proc.todo /\ proc'.objs = proc.objs
          /\ proc'.wrote = proc.wrote /\ proc'.raced = proc.raced
      <3> HIDE DEF fr
      <3> QED BY <1>1, <1>2, <2>1 DEF ProcFields, ProcTyped
    <2>3. fr \in Frames /\ fr.file = Entry
      BY FrameFacts, CallFacts
    <2> HIDE DEF fr
    <2>4. proc'.stack \in Seq(Frames) /\ DOMAIN proc'.stack = {1} /\ proc'.stack[1].file = Entry
      BY <2>2, <2>3
    <2>5. /\ DOMAIN proc'.ast = DOMAIN proc.ast \cup Patterns
          /\ \A f \in Patterns : proc'.ast[f] = src[f]
          /\ \A f \in DOMAIN proc.ast \ Patterns : proc'.ast[f] = proc.ast[f]
      BY <2>2
    <2>6. ProcTyped'
      BY <1>2, <2>2, <2>4, <2>5, FileFacts DEF IInv, Typed, SrcTyped, ProcTyped
    <2>7. Local' = Local /\ proc.pc \in Early /\ proc'.pc \in Early \ {"graph"}
      BY <1>1, <2>2 DEF Local, Early
    <2>8. Local \subseteq Behaviors \cap DOMAIN proc.ast
      BY <1>2 DEF IInv, Phased
    <2>9. Phased'
      BY <1>1, <1>2, <2>2, <2>5, <2>7, <2>8 DEF IInv, Phased
    <2>10. Loading'
      BY <1>1, <2>2, <2>4, <2>7, FileFacts DEF IInv, Loading, Covered
    <2>11. Ordered'
      <3>1. \A f \in Local : proc'.ast[f] = proc.ast[f]
        BY <2>5, <2>8, FileFacts
      <3> QED BY <1>2, <2>2, <3>1, SameOrdered DEF IInv
    <2>12. /\ DiskTyped' /\ Checked' /\ Listed' /\ CacheSound' /\ ProcCacheSound' /\ ObjsSound'
           /\ CallsAgree' /\ PinsHold'
      BY <1>1, <2>7, EarlyStep DEF IInv, Typed
    <2>13. Typed'
      BY <1>1, <1>2, <2>6, <2>12 DEF IInv, Typed
    <2> QED BY <2>9, <2>10, <2>11, <2>12, <2>13 DEF IInv
  <1> QED BY <1>3, <1>4

-----------------------------------------------------------------------------
(* The checks *)

(* Every loaded behavior's HASH line is right, or the build ends. *)
LEMMA ValidateKeeps == ASSUME IInv, Validate  PROVE IInv'
  <1>1. CASE Fail
    BY <1>1, FailKeeps
  <1>2. CASE ~Fail
    <2>1. /\ src' = src /\ disk' = disk /\ exe' = exe /\ used' = used /\ proc.pc = "validate"
          /\ proc' = [proc EXCEPT !.pc = "graph"] /\ \A f \in Local : WellHashed(proc.ast[f])
      BY <1>2 DEF Validate
    <2>2. ProcTyped /\ proc.mode = "exe" /\ SrcTyped' /\ DOMAIN used' = UsedFields
      BY <2>1 DEF IInv, Typed, Phased, SrcTyped
    <2>3. /\ DOMAIN proc' = ProcFields /\ proc'.pc = "graph" /\ proc'.mode = "exe" /\ proc'.stack = proc.stack
          /\ proc'.ast = proc.ast /\ proc'.loaded = proc.loaded /\ proc'.order = proc.order
          /\ proc'.contracts = proc.contracts /\ proc'.symbols = proc.symbols
          /\ proc'.manifest = proc.manifest /\ proc'.todo = proc.todo /\ proc'.objs = proc.objs
          /\ proc'.wrote = proc.wrote /\ proc'.raced = proc.raced
      BY <2>1, <2>2 DEF ProcFields, ProcTyped
    <2>4. ProcTyped'
      BY <2>2, <2>3 DEF ProcTyped
    <2>5. Local' = Local /\ proc.pc \in Early /\ proc'.pc \in Early
      BY <2>1, <2>3 DEF Local, Early
    <2>6. Phased' /\ Loading'
      BY <2>1, <2>2, <2>3, <2>5 DEF IInv, Phased, Loading
    <2>7. Ordered'
      BY <2>2, <2>3, SameOrdered DEF IInv
    <2>8. Checked'
      BY <2>1, <2>3, <2>5 DEF Checked, Late
    <2>9. /\ DiskTyped' /\ Listed' /\ CacheSound' /\ ProcCacheSound' /\ ObjsSound'
          /\ CallsAgree' /\ PinsHold'
      BY <2>1, <2>5, EarlyStep DEF IInv, Typed
    <2>10. Typed'
      BY <2>1, <2>2, <2>4, <2>9 DEF IInv, Typed
    <2> QED BY <2>6, <2>7, <2>8, <2>9, <2>10 DEF IInv
  <1> QED BY <1>1, <1>2

(* The list of the files to compile. *)
LEMMA TodoFacts ==
    ASSUME ProcTyped
    PROVE  LET t == proc.order \o SetToSeq(Patterns) \o <<Entry>>
           IN  t \in Seq(Files) /\ t # <<>> /\ ToSet(t) = Local \cup Patterns \cup {Entry}
  <1>1. proc.order \in Seq(Files)
    BY FileFacts, SeqMonotonic DEF ProcTyped
  <1>2. SetToSeq(Patterns) \in Seq(Files) /\ ToSet(SetToSeq(Patterns)) = Patterns
    <2>1. IsFiniteSet(Patterns)
      BY FileFacts, FS_Subset
    <2>2. SetToSeq(Patterns) \in Seq(Patterns) /\ ToSet(SetToSeq(Patterns)) = Patterns
      BY <2>1, ListFacts
    <2> QED BY <2>2, FileFacts, SeqMonotonic
  <1> DEFINE u == proc.order \o SetToSeq(Patterns)
  <1>3. u \in Seq(Files) /\ ToSet(u) = Local \cup Patterns
    BY <1>1, <1>2, ConcatFacts DEF Local
  <1> HIDE DEF u
  <1>4. /\ Append(u, Entry) \in Seq(Files) /\ Append(u, Entry) # <<>>
        /\ ToSet(Append(u, Entry)) = ToSet(u) \cup {Entry}
    BY <1>3, FileFacts, AppendFacts
  <1>5. Append(u, Entry) = u \o <<Entry>>
    BY <1>3
  <1> QED BY <1>3, <1>4, <1>5 DEF u

(* Every requirement is known and has the pinned contract, or the build    *)
(* ends; then the cache's manifest is read.                                *)
LEMMA CheckGraphKeeps == ASSUME IInv, CheckGraph  PROVE IInv'
  <1>1. CASE Fail
    BY <1>1, FailKeeps
  <1>2. CASE ~Fail
    <2> DEFINE t == proc.order \o SetToSeq(Patterns) \o <<Entry>>
    <2>1. /\ src' = src /\ disk' = disk /\ exe' = exe /\ used' = used /\ proc.pc = "graph"
          /\ proc' = [proc EXCEPT !.pc = "compile", !.manifest = disk.manifest["exe"], !.todo = t]
          /\ Undefined = {} /\ Stale = {}
      BY <1>2 DEF CheckGraph
    <2>2. ProcTyped /\ proc.mode = "exe" /\ SrcTyped' /\ DOMAIN used' = UsedFields /\ DiskTyped
      BY <2>1 DEF IInv, Typed, Phased, SrcTyped
    <2>3. t \in Seq(Files) /\ t # <<>> /\ ToSet(t) = Local \cup Patterns \cup {Entry}
      BY <2>2, TodoFacts
    <2> HIDE DEF t
    <2>4. /\ DOMAIN proc' = ProcFields /\ proc'.pc = "compile" /\ proc'.mode = "exe" /\ proc'.stack = proc.stack
          /\ proc'.ast = proc.ast /\ proc'.loaded = proc.loaded /\ proc'.order = proc.order
          /\ proc'.contracts = proc.contracts /\ proc'.symbols = proc.symbols
          /\ proc'.manifest = disk.manifest["exe"] /\ proc'.todo = t /\ proc'.objs = proc.objs
          /\ proc'.wrote = proc.wrote /\ proc'.raced = proc.raced
      BY <2>1, <2>2 DEF ProcFields, ProcTyped
    <2>5. proc.wrote = {} /\ proc.raced = {} /\ DOMAIN proc.objs = {}
      BY <2>1 DEF IInv, Phased, Early
    <2>6. ProcTyped'
      BY <2>2, <2>3, <2>4 DEF ProcTyped, DiskTyped, Modes
    <2>7. Local' = Local
      BY <2>4 DEF Local
    <2>8. Phased' /\ Loading'
      BY <2>2, <2>3, <2>4, <2>7 DEF IInv, Phased, Loading, Early
    <2>9. Ordered'
      BY <2>2, <2>4, SameOrdered DEF IInv
    <2>10. Checked'
      <3>1. \A d : (Known(d)' <=> Known(d)) /\ Contract(d)' = Contract(d)
        BY <2>4, <2>7 DEF Known, Contract
      <3>2. Undefined' = {} /\ Stale' = {}
        BY <2>1, <2>4, <2>7, <3>1 DEF Undefined, Stale
      <3>3. \A f \in Local : WellHashed(proc.ast[f])
        BY <2>1, <2>2 DEF IInv, Checked
      <3> QED BY <2>4, <2>7, <3>2, <3>3 DEF Checked
    <2>11. Listed'
      BY <2>3, <2>4, <2>5, <2>7 DEF Listed
    <2>12. DiskTyped' /\ CacheSound'
      BY <2>1, <2>2, <2>4, <2>5 DEF DiskTyped, IInv, CacheSound
    <2>13. ProcCacheSound'
      BY <2>1, <2>4, <2>5 DEF IInv, CacheSound, ProcCacheSound
    <2>14. ObjsSound'
      BY <2>4, <2>5 DEF ObjsSound
    <2>15. CallsAgree' /\ PinsHold'
      BY <2>1, SameExe DEF IInv
    <2>16. Typed'
      BY <2>1, <2>2, <2>6, <2>12 DEF IInv, Typed
    <2> QED BY <2>8, <2>9, <2>10, <2>11, <2>12, <2>13, <2>14, <2>15, <2>16 DEF IInv
  <1> QED BY <1>1, <1>2

-----------------------------------------------------------------------------
(* Objects and the cache *)

(* A contract's hash is never missing, and stands for its signature. *)
LEMMA HashFacts == \A s : ContractHash(s) # None /\ ContractHash(s)[1] = s.ver
  BY DEF ContractHash, None

(* Past the checks: what a name stands for, and which pins hold. *)
LEMMA LateFacts ==
    ASSUME IInv, proc.pc \in Late, proc.mode = "exe"
    PROVE  /\ Local \subseteq Behaviors \cap DOMAIN proc.ast /\ DOMAIN proc.contracts \subseteq Library
           /\ \A d : Known(d) => d \in Local \cup Library /\ d \notin Patterns /\ Signature(d) = Contract(d).ver
           /\ \A f \in Local : WellHashed(proc.ast[f])
           /\ \A f \in Local : \A d \in DOMAIN proc.ast[f].req :
                 /\ Known(d)
                 /\ proc.ast[f].req[d] # None => proc.ast[f].req[d] = ContractHash(Contract(d))
  <1>1. Local \subseteq Behaviors \cap DOMAIN proc.ast /\ DOMAIN proc.contracts \subseteq Library
    BY DEF IInv, Phased, Typed, ProcTyped
  <1>2. \A d : Known(d) => d \in Local \cup Library /\ d \notin Patterns /\ Signature(d) = Contract(d).ver
    BY <1>1, FileFacts DEF Known, Signature
  <1>3. \A f \in Local : WellHashed(proc.ast[f])
    BY DEF IInv, Checked
  <1>4. Undefined = {} /\ Stale = {}
    BY DEF IInv, Checked
  <1>5. \A f \in Local : \A d \in DOMAIN proc.ast[f].req : Known(d)
    BY <1>4 DEF Undefined
  <1>6. \A f \in Local : \A d \in DOMAIN proc.ast[f].req :
            proc.ast[f].req[d] # None => proc.ast[f].req[d] = ContractHash(Contract(d))
    BY <1>4, <1>5 DEF Stale
  <1> QED BY <1>1, <1>2, <1>3, <1>5, <1>6

(* What a behavior or ENTRY uses, and which hashes stand for it. *)
LEMMA DepsFacts ==
    ASSUME IInv, proc.pc \in Late, proc.mode = "exe", NEW f \in Local \cup {Entry}
    PROVE  /\ Uses(f) = IF f = Entry THEN Calls[Entry] \cup Patterns ELSE DOMAIN proc.ast[f].req
           /\ \A e \in DepsHash(f) : e = <<e[1], e[2]>>
           /\ f = Entry => \A d, h : <<d, h>> \in DepsHash(f) <=> (d \in Local /\ h = proc.ast[d].hash)
           /\ f # Entry => \A d, h : <<d, h>> \in DepsHash(f) <=>
                                     (d \in DOMAIN proc.ast[f].req /\ h = ContractHash(Contract(d)))
  <1>1. /\ Local \subseteq Behaviors /\ \A d \in DOMAIN proc.ast[f].req : f # Entry => Known(d)
    BY LateFacts
  <1>2. f \notin Patterns
    BY <1>1, FileFacts
  <1>3. Uses(f) = IF f = Entry THEN Calls[Entry] \cup Patterns ELSE DOMAIN proc.ast[f].req
    BY <1>2 DEF Uses
  <1>4. f = Entry => DepsHash(f) = {<<d, proc.ast[d].hash>> : d \in Local}
    BY <1>2 DEF DepsHash
  <1>5. f # Entry => {e \in DOMAIN proc.ast[f].req : Known(e)} = DOMAIN proc.ast[f].req
    BY <1>1
  <1>6. f # Entry => DepsHash(f) = {<<d, ContractHash(Contract(d))>> : d \in DOMAIN proc.ast[f].req}
    BY <1>2, <1>5 DEF DepsHash
  <1>7. CASE f = Entry
    BY <1>3, <1>4, <1>7
  <1>8. CASE f # Entry
    <2> DEFINE c(d) == ContractHash(Contract(d))
    <2>1. DepsHash(f) = {<<d, c(d)>> : d \in DOMAIN proc.ast[f].req}
      BY <1>6, <1>8
    <2> HIDE DEF c
    <2>2. /\ \A e \in DepsHash(f) : e = <<e[1], e[2]>>
          /\ \A d, h : <<d, h>> \in DepsHash(f) <=> (d \in DOMAIN proc.ast[f].req /\ h = c(d))
      BY <2>1
    <2> QED BY <1>3, <1>8, <2>2 DEF c
  <1> QED BY <1>7, <1>8

(* An object that the cache entry of this very source and these very       *)
(* dependencies describes was made for them (a cache hit).                 *)
LEMMA HitMadeFor ==
    ASSUME IInv, proc.pc \in Late, proc.mode = "exe", NEW f \in Local \cup {Entry},
           NEW o, NEW m, Witnesses(f, o, m), m.source = proc.ast[f], m.deps = DepsHash(f)
    PROVE  MadeFor(f, o)
  <1> SUFFICES ASSUME o.src = proc.ast[f]
               PROVE  /\ DOMAIN o.seen = Uses(f)
                      /\ \A d \in Uses(f) : (f = Entry => d \in Behaviors /\ Declared(proc.ast[d])) =>
                            Known(d) /\ o.seen[d] = Signature(d)
    BY DEF MadeFor
  <1>1. DOMAIN o.seen = Uses(f)
    BY DepsFacts DEF Witnesses
  <1>2. ASSUME NEW d \in Uses(f), f = Entry => d \in Behaviors /\ Declared(proc.ast[d])
        PROVE  Known(d) /\ o.seen[d] = Signature(d)
    <2>1. PICK h : <<d, h>> \in DepsHash(f) /\ (h # None => h[1] = o.seen[d])
      BY <1>1, <1>2 DEF Witnesses
    <2>2. CASE f = Entry
      <3>1. d \in Local /\ h = proc.ast[d].hash
        BY <2>1, <2>2, DepsFacts
      <3>2. h # None /\ h = ContractHash(proc.ast[d])
        BY <1>2, <2>2, <3>1, LateFacts DEF WellHashed, Declared
      <3>3. Known(d) /\ Contract(d) = proc.ast[d]
        BY <3>1 DEF Known, Contract
      <3>4. Signature(d) = proc.ast[d].ver
        BY <3>3, LateFacts
      <3> QED BY <2>1, <3>2, <3>3, <3>4, HashFacts
    <2>3. CASE f # Entry
      <3>1. d \in DOMAIN proc.ast[f].req /\ h = ContractHash(Contract(d))
        BY <2>1, <2>3, DepsFacts
      <3>2. Known(d) /\ Signature(d) = Contract(d).ver
        BY <2>3, <3>1, LateFacts
      <3> QED BY <2>1, <3>1, <3>2, HashFacts
    <2> QED BY <2>2, <2>3
  <1> QED BY <1>1, <1>2

(* The cache entry that is made for a compiled object describes it. *)
LEMMA CompiledWitnesses ==
    ASSUME IInv, proc.pc \in Late, proc.mode = "exe", NEW f \in Local \cup {Entry},
           \A d \in Uses(f) : d \in Patterns \/ Known(d),
           NEW o, NEW m, o.src = proc.ast[f], o.seen = Seen(f), m.deps = DepsHash(f)
    PROVE  Witnesses(f, o, m) /\ MadeFor(f, o)
  <1>1. DOMAIN o.seen = Uses(f) /\ \A d \in Uses(f) : o.seen[d] = Signature(d)
    BY DEF Seen
  <1>2. ASSUME NEW d \in Uses(f), f = Entry => d \in Behaviors
        PROVE  Known(d)
    <2>1. CASE f = Entry
      BY <1>2, <2>1, FileFacts
    <2>2. CASE f # Entry
      BY <1>2, <2>2, DepsFacts, LateFacts
    <2> QED BY <2>1, <2>2
  <1>3. MadeFor(f, o)
    BY <1>1, <1>2 DEF MadeFor
  <1>4. ASSUME o.src = m.source
        PROVE  /\ DOMAIN o.seen = IF f = Entry THEN Calls[Entry] \cup Patterns ELSE DOMAIN m.source.req
               /\ \A d \in DOMAIN o.seen : (f = Entry => d \in Behaviors) =>
                    \E h \in {e[2] : e \in m.deps} : <<d, h>> \in m.deps /\ (h # None => h[1] = o.seen[d])
    <2>1. DOMAIN o.seen = IF f = Entry THEN Calls[Entry] \cup Patterns ELSE DOMAIN m.source.req
      BY <1>1, <1>4, DepsFacts
    <2>2. ASSUME NEW d \in DOMAIN o.seen, f = Entry => d \in Behaviors
          PROVE  \E h : <<d, h>> \in m.deps /\ (h # None => h[1] = o.seen[d])
      <3>1. Known(d) /\ o.seen[d] = Contract(d).ver /\ d \in Uses(f)
        BY <1>1, <1>2, <2>2, LateFacts
      <3>2. CASE f = Entry
        <4>1. d \in Local
          BY <2>2, <3>1, <3>2, LateFacts, FileFacts
        <4>2. Contract(d) = proc.ast[d] /\ WellHashed(proc.ast[d]) /\ <<d, proc.ast[d].hash>> \in m.deps
          BY <3>2, <4>1, DepsFacts, LateFacts DEF Contract
        <4>3. proc.ast[d].hash # None => proc.ast[d].hash[1] = o.seen[d]
          BY <3>1, <4>2, HashFacts DEF WellHashed, Declared
        <4> QED BY <4>2, <4>3
      <3>3. CASE f # Entry
        <4>1. <<d, ContractHash(Contract(d))>> \in m.deps
          BY <3>1, <3>3, DepsFacts
        <4> QED BY <3>1, <4>1, HashFacts
      <3> QED BY <3>2, <3>3
    <2>3. ASSUME NEW d, NEW h, <<d, h>> \in m.deps  PROVE h \in {e[2] : e \in m.deps}
      <3>1. <<d, h>>[2] = h
        OBVIOUS
      <3> QED BY <2>3, <3>1
    <2>4. ASSUME NEW d \in DOMAIN o.seen, f = Entry => d \in Behaviors
          PROVE  \E h \in {e[2] : e \in m.deps} : <<d, h>> \in m.deps /\ (h # None => h[1] = o.seen[d])
      BY <2>2, <2>3, <2>4
    <2> QED BY <2>1, <2>4
  <1>5. Witnesses(f, o, m)
    BY <1>4 DEF Witnesses
  <1> QED BY <1>3, <1>5

-----------------------------------------------------------------------------
(* Compilation *)

(* What the process is after it has dealt with the next file. *)
LEMMA LinkingFacts ==
    ASSUME IInv, Compiling, NEW p
    PROVE  LET q == Linking(p)
           IN  /\ DOMAIN q = ProcFields /\ q.pc \in {"compile", "save"} /\ q.mode = proc.mode /\ q.stack = proc.stack
               /\ q.ast = proc.ast /\ q.loaded = proc.loaded /\ q.order = proc.order
               /\ q.contracts = proc.contracts /\ q.symbols = proc.symbols
               /\ q.manifest = proc.manifest /\ q.todo = Tail(proc.todo) /\ q.objs = Put(proc.objs, Current, p)
               /\ q.wrote = proc.wrote
               /\ q.raced = proc.raced \cup (IF src[Current] # proc.ast[Current] THEN {Current} ELSE {})
               /\ (q.pc = "compile" => q.todo # <<>>) /\ (q.pc = "save" => q.todo = <<>>)
               /\ q.todo \in Seq(Files) /\ Current \in Files /\ Current \in ToSet(proc.todo)
               /\ ToSet(proc.todo) = ToSet(q.todo) \cup {Current}
               /\ DOMAIN q.objs = DOMAIN proc.objs \cup {Current} /\ q.objs[Current] = p
               /\ \A f \in DOMAIN proc.objs \ {Current} : q.objs[f] = proc.objs[f]
  <1>1. proc.pc = "compile" /\ DOMAIN proc = ProcFields /\ proc.todo \in Seq(Files) /\ proc.todo # <<>>
    BY DEF IInv, Typed, ProcTyped, Phased, Compiling
  <1>2. /\ Current \in Files /\ Current \in ToSet(proc.todo) /\ Tail(proc.todo) \in Seq(Files)
        /\ ToSet(proc.todo) = ToSet(Tail(proc.todo)) \cup {Current}
    BY <1>1, TakeFacts DEF Current
  <1> DEFINE q == Linking(p)
             r == IF src[Current] # proc.ast[Current] THEN {Current} ELSE {}
             pc == IF Tail(proc.todo) = <<>> THEN "save" ELSE "compile"
  <1>3. q = [proc EXCEPT !.todo = Tail(@), !.pc = pc, !.objs = Put(@, Current, p), !.raced = @ \cup r]
    BY DEF Linking
  <1> HIDE DEF q, r, pc
  <1>4. /\ DOMAIN q = ProcFields /\ q.pc = pc /\ q.mode = proc.mode /\ q.stack = proc.stack
        /\ q.ast = proc.ast /\ q.loaded = proc.loaded /\ q.order = proc.order
        /\ q.contracts = proc.contracts /\ q.symbols = proc.symbols
        /\ q.manifest = proc.manifest /\ q.todo = Tail(proc.todo) /\ q.objs = Put(proc.objs, Current, p)
        /\ q.wrote = proc.wrote /\ q.raced = proc.raced \cup r
    BY <1>1, <1>3 DEF ProcFields
  <1>5. /\ DOMAIN q.objs = DOMAIN proc.objs \cup {Current} /\ q.objs[Current] = p
        /\ \A f \in DOMAIN proc.objs \ {Current} : q.objs[f] = proc.objs[f]
    BY <1>4 DEF Put
  <1>6. q.pc \in {"compile", "save"} /\ (q.pc = "compile" => q.todo # <<>>) /\ (q.pc = "save" => q.todo = <<>>)
    BY <1>4 DEF pc
  <1> QED BY <1>2, <1>4, <1>5, <1>6 DEF q, r

(* The process with the next file dealt with: what does not depend on how. *)
LEMMA LinkingKeeps ==
    ASSUME IInv, Compiling, NEW p, src' = src, exe' = exe, used' = used, DiskTyped',
           DOMAIN proc' = ProcFields, proc'.pc = Linking(p).pc, proc'.mode = proc.mode, proc'.stack = proc.stack,
           proc'.ast = proc.ast, proc'.loaded = proc.loaded, proc'.order = proc.order,
           proc'.contracts = proc.contracts, proc'.symbols = proc.symbols, proc'.todo = Tail(proc.todo),
           proc'.objs = Linking(p).objs, DOMAIN proc'.manifest \subseteq Files,
           \A w \in proc'.wrote \ proc.wrote : w[1] = Current
    PROVE  Typed' /\ Phased' /\ Loading' /\ Ordered' /\ Checked' /\ Listed' /\ CallsAgree' /\ PinsHold'
  <1>1. /\ proc'.pc \in {"compile", "save"} /\ (proc'.pc = "compile" => proc'.todo # <<>>)
        /\ (proc'.pc = "save" => proc'.todo = <<>>)
        /\ proc'.todo \in Seq(Files) /\ Current \in Files /\ Current \in ToSet(proc.todo)
        /\ ToSet(proc.todo) = ToSet(proc'.todo) \cup {Current} /\ DOMAIN proc'.objs = DOMAIN proc.objs \cup {Current}
    <2>1. LET q == Linking(p)
          IN  /\ q.pc \in {"compile", "save"} /\ q.todo = Tail(proc.todo)
              /\ (q.pc = "compile" => q.todo # <<>>) /\ (q.pc = "save" => q.todo = <<>>)
              /\ q.todo \in Seq(Files) /\ Current \in Files /\ Current \in ToSet(proc.todo)
              /\ ToSet(proc.todo) = ToSet(q.todo) \cup {Current}
              /\ DOMAIN q.objs = DOMAIN proc.objs \cup {Current}
      BY LinkingFacts
    <2> QED BY <2>1
  <1>2. proc.pc = "compile" /\ ProcTyped
    BY DEF IInv, Typed, Compiling
  <1>3. ProcTyped'
    BY <1>1, <1>2 DEF ProcTyped
  <1>4. Typed'
    BY <1>3 DEF IInv, Typed, SrcTyped
  <1>5. Local' = Local
    BY DEF Local
  <1>6. Phased'
    BY <1>1, <1>2, <1>5 DEF IInv, Phased, Early
  <1>7. Loading' /\ Ordered'
    BY <1>1, SameOrdered DEF IInv, Loading
  <1>8. Checked'
    <2>1. \A d : (Known(d)' <=> Known(d)) /\ Contract(d)' = Contract(d)
      BY <1>5 DEF Known, Contract
    <2>2. Undefined' = Undefined /\ Stale' = Stale
      BY <1>5, <2>1 DEF Undefined, Stale
    <2> QED BY <1>1, <1>2, <1>5, <2>2 DEF IInv, Checked, Late
  <1>9. Listed'
    BY <1>1, <1>2, <1>5 DEF IInv, Listed, Late
  <1> QED BY <1>4, <1>6, <1>7, <1>8, <1>9, SameExe DEF IInv

(* The next file of an executable's build is ENTRY, a pattern or loaded. *)
LEMMA CurrentFacts ==
    ASSUME IInv, Compiling, proc.mode = "exe"
    PROVE  Current \in Local \cup Patterns \cup {Entry} /\ (Current \in Cacheable => Current \in Local \cup {Entry})
  <1>1. ToSet(proc.todo) \subseteq Local \cup Patterns \cup {Entry}
    BY DEF IInv, Listed, Compiling, Late
  <1> QED BY <1>1, LinkingFacts, FileFacts DEF Cacheable

(* A cached object is linked. *)
LEMMA UseCachedKeeps == ASSUME IInv, UseCached  PROVE IInv'
  <1> DEFINE p == ObjectPath(Current, src[Current])
  <1>1. /\ Compiling /\ proc' = Linking(p) /\ src' = src /\ disk' = disk /\ exe' = exe /\ used' = used
        /\ Current \in DOMAIN proc.manifest /\ p \in DOMAIN disk.objects
        /\ proc.manifest[Current] = CacheEntry(src[Current], OwnHash(Current), DepsHash(Current))
    BY DEF UseCached, NeedsRecompile
  <1>2. proc.pc = "compile" /\ ProcTyped /\ DiskTyped
    BY <1>1 DEF IInv, Typed, Compiling
  <1>3. /\ DOMAIN proc' = ProcFields /\ proc'.pc \in {"compile", "save"} /\ proc'.mode = proc.mode
        /\ proc'.stack = proc.stack /\ proc'.ast = proc.ast /\ proc'.loaded = proc.loaded /\ proc'.order = proc.order
        /\ proc'.contracts = proc.contracts /\ proc'.symbols = proc.symbols
        /\ proc'.manifest = proc.manifest /\ proc'.todo = Tail(proc.todo) /\ proc'.wrote = proc.wrote
        /\ proc'.raced = proc.raced \cup (IF src[Current] # proc.ast[Current] THEN {Current} ELSE {})
        /\ DOMAIN proc'.objs = DOMAIN proc.objs \cup {Current} /\ proc'.objs[Current] = p
        /\ \A f \in DOMAIN proc.objs \ {Current} : proc'.objs[f] = proc.objs[f]
    BY <1>1, LinkingFacts
  <1> HIDE DEF p
  <1>4. DiskTyped'
    BY <1>1, <1>2 DEF DiskTyped
  <1>5. Typed' /\ Phased' /\ Loading' /\ Ordered' /\ Checked' /\ Listed' /\ CallsAgree' /\ PinsHold'
    BY <1>1, <1>2, <1>3, <1>4, LinkingKeeps DEF ProcTyped
  <1>6. CacheSound' /\ ProcCacheSound'
    BY <1>1, <1>2, <1>3 DEF IInv, CacheSound, ProcCacheSound
  <1>7. \A f, o : MadeFor(f, o) => MadeFor(f, o)'
    BY <1>3, SameMadeFor
  <1>8. ASSUME proc.mode = "exe", Current \in Cacheable, Current \notin proc'.raced,
               p \notin disk.overwritten \/ p \in proc.wrote
        PROVE  MadeFor(Current, disk.objects[p])
    <2> DEFINE m == proc.manifest[Current]
    <2>1. src[Current] = proc.ast[Current]
      BY <1>3, <1>8
    <2>2. m.source = proc.ast[Current] /\ m.deps = DepsHash(Current) /\ p = ObjectPath(Current, m.source)
      BY <1>1, <2>1 DEF CacheEntry, p
    <2>3. Witnesses(Current, disk.objects[p], m)
      BY <1>1, <1>2, <1>8, <2>2 DEF IInv, ProcCacheSound
    <2>4. Current \in Local \cup {Entry} /\ proc.pc \in Late
      BY <1>1, <1>2, <1>8, CurrentFacts DEF Late
    <2> QED BY <1>8, <2>2, <2>3, <2>4, HitMadeFor
  <1>9. ObjsSound'
    <2> SUFFICES ASSUME proc.mode = "exe", NEW f \in DOMAIN proc'.objs, NEW r, r = proc'.objs[f]
                 PROVE  /\ r \in DOMAIN disk.objects /\ r = ObjectPath(f, r[2])
                        /\ f \notin proc'.raced => r = ObjectPath(f, proc.ast[f])
                        /\ f \in Cacheable \ proc'.raced /\ (r \notin disk.overwritten \/ r \in proc.wrote)
                           => \E x : x = disk.objects[r] /\ MadeFor(f, x)'
      BY <1>1, <1>3 DEF ObjsSound
    <2>1. CASE f = Current
      <3>1. r = p
        BY <1>3, <2>1
      <3>2. p = ObjectPath(f, p[2]) /\ (f \notin proc'.raced => p = ObjectPath(f, proc.ast[f]))
        BY <1>3, <2>1 DEF p, ObjectPath
      <3> QED BY <1>1, <1>7, <1>8, <2>1, <3>1, <3>2
    <2>2. CASE f # Current
      <3>1. f \in DOMAIN proc.objs /\ proc.objs[f] = r /\ proc.raced \subseteq proc'.raced
        BY <1>3, <2>2
      <3>2. /\ r \in DOMAIN disk.objects /\ r = ObjectPath(f, r[2])
            /\ f \notin proc.raced => r = ObjectPath(f, proc.ast[f])
            /\ f \in Cacheable \ proc.raced /\ (r \notin disk.overwritten \/ r \in proc.wrote)
               => MadeFor(f, disk.objects[r])
        BY <1>2, <3>1 DEF IInv, ObjsSound, Late
      <3> QED BY <1>7, <3>1, <3>2
    <2> QED BY <2>1, <2>2
  <1> QED BY <1>5, <1>6, <1>9 DEF IInv

(* A file is compiled, and the object and its cache entry are written. *)
LEMMA CompileKeeps == ASSUME IInv, Compile  PROVE IInv'
  <1> DEFINE p == ObjectPath(Current, src[Current])
             o == Object(proc.ast[Current], Seen(Current), FALSE)
             e == CacheEntry(src[Current], OwnHash(Current), DepsHash(Current))
  <1>1. /\ Compiling /\ src' = src /\ exe' = exe /\ used' = used
        /\ \A d \in Uses(Current) : d \in Patterns \/ Known(d)
        /\ disk' = [disk EXCEPT !.objects = Put(@, p, o)]
        /\ proc' = [Linking(p) EXCEPT !.manifest = Put(@, Current, e), !.wrote = @ \cup {p}]
    BY DEF Compile
  <1>2. /\ o.src = proc.ast[Current] /\ o.seen = Seen(Current) /\ o.torn = FALSE
        /\ e.source = src[Current] /\ e.deps = DepsHash(Current)
        /\ p[1] = Current /\ p[2] = src[Current]
    BY DEF Object, CacheEntry, ObjectPath
  <1>3. \A f, s : ObjectPath(f, s) = p => f = Current /\ s = src[Current]
    BY DEF ObjectPath
  <1> HIDE DEF p, o, e
  <1>4. proc.pc = "compile" /\ ProcTyped /\ DiskTyped
    BY <1>1 DEF IInv, Typed, Compiling
  <1>5. /\ DOMAIN disk' = DiskFields /\ disk'.manifest = disk.manifest /\ disk'.objects = Put(disk.objects, p, o)
        /\ disk'.archive = disk.archive /\ disk'.registry = disk.registry /\ disk'.index = disk.index
        /\ disk'.overwritten = disk.overwritten
    BY <1>1, <1>4 DEF DiskTyped, DiskFields
  <1>6. /\ DOMAIN disk'.objects = DOMAIN disk.objects \cup {p} /\ disk'.objects[p] = o
        /\ \A q \in DOMAIN disk.objects \ {p} : disk'.objects[q] = disk.objects[q]
    BY <1>5 DEF Put
  <1>7. /\ DOMAIN proc' = ProcFields /\ proc'.pc = Linking(p).pc /\ proc'.mode = Linking(p).mode
        /\ proc'.stack = Linking(p).stack /\ proc'.ast = Linking(p).ast /\ proc'.loaded = Linking(p).loaded
        /\ proc'.order = Linking(p).order /\ proc'.contracts = Linking(p).contracts
        /\ proc'.symbols = Linking(p).symbols /\ proc'.manifest = Put(Linking(p).manifest, Current, e)
        /\ proc'.todo = Linking(p).todo /\ proc'.objs = Linking(p).objs
        /\ proc'.wrote = Linking(p).wrote \cup {p} /\ proc'.raced = Linking(p).raced
    <2>1. DOMAIN Linking(p) = ProcFields
      BY <1>1, LinkingFacts
    <2> QED BY <1>1, <2>1 DEF ProcFields
  <1>8. /\ proc'.pc \in {"compile", "save"} /\ proc'.mode = proc.mode
        /\ proc'.stack = proc.stack /\ proc'.ast = proc.ast /\ proc'.loaded = proc.loaded /\ proc'.order = proc.order
        /\ proc'.contracts = proc.contracts /\ proc'.symbols = proc.symbols
        /\ proc'.manifest = Put(proc.manifest, Current, e) /\ proc'.todo = Tail(proc.todo)
        /\ proc'.wrote = proc.wrote \cup {p}
        /\ proc'.raced = proc.raced \cup (IF src[Current] # proc.ast[Current] THEN {Current} ELSE {})
        /\ DOMAIN proc'.objs = DOMAIN proc.objs \cup {Current} /\ proc'.objs[Current] = p
        /\ \A f \in DOMAIN proc.objs \ {Current} : proc'.objs[f] = proc.objs[f]
        /\ Current \in Files
    BY <1>1, <1>7, LinkingFacts
  <1>9. /\ DOMAIN proc'.manifest = DOMAIN proc.manifest \cup {Current} /\ proc'.manifest[Current] = e
        /\ \A f \in DOMAIN proc.manifest \ {Current} : proc'.manifest[f] = proc.manifest[f]
    BY <1>8 DEF Put
  <1>10. DiskTyped'
    BY <1>2, <1>4, <1>5, <1>6 DEF DiskTyped
  <1>11. DOMAIN proc'.manifest \subseteq Files /\ \A w \in proc'.wrote \ proc.wrote : w[1] = Current
    BY <1>2, <1>4, <1>8, <1>9 DEF ProcTyped
  <1>12. Typed' /\ Phased' /\ Loading' /\ Ordered' /\ Checked' /\ Listed' /\ CallsAgree' /\ PinsHold'
    BY <1>1, <1>7, <1>8, <1>10, <1>11, LinkingKeeps
  <1>13. CacheSound'
    <2> SUFFICES ASSUME NEW f \in DOMAIN disk.manifest["exe"] \cap Cacheable,
                        NEW q, q = ObjectPath(f, disk.manifest["exe"][f].source),
                        q \in DOMAIN disk'.objects, q \notin disk.overwritten, q \notin proc'.wrote
                 PROVE  Witnesses(f, disk'.objects[q], disk.manifest["exe"][f])
      BY <1>5, <1>8 DEF CacheSound
    <2>1. q # p /\ q \notin proc.wrote
      BY <1>8
    <2>2. q \in DOMAIN disk.objects /\ disk'.objects[q] = disk.objects[q]
      BY <1>6, <2>1
    <2> QED BY <2>1, <2>2 DEF IInv, CacheSound
  <1>14. ASSUME proc.mode = "exe", Current \in Cacheable
         PROVE  Witnesses(Current, o, e) /\ MadeFor(Current, o)
    <2>1. Current \in Local \cup {Entry} /\ proc.pc \in Late
      BY <1>1, <1>4, <1>14, CurrentFacts DEF Late
    <2> QED BY <1>1, <1>2, <1>14, <2>1, CompiledWitnesses
  <1>15. ProcCacheSound'
    <2> SUFFICES ASSUME proc.mode = "exe", NEW f \in DOMAIN proc'.manifest \cap Cacheable,
                        NEW q, q = ObjectPath(f, proc'.manifest[f].source),
                        q \in DOMAIN disk'.objects, q \notin disk.overwritten \/ q \in proc'.wrote
                 PROVE  Witnesses(f, disk'.objects[q], proc'.manifest[f])
      BY <1>5, <1>8 DEF ProcCacheSound
    <2>1. CASE f = Current
      <3>1. q = p
        BY <1>2, <1>9, <2>1 DEF p
      <3> QED BY <1>6, <1>9, <1>14, <2>1, <3>1
    <2>2. CASE f # Current
      <3>1. q # p
        BY <1>3, <2>2
      <3>2. /\ f \in DOMAIN proc.manifest /\ proc'.manifest[f] = proc.manifest[f]
            /\ q \in DOMAIN disk.objects /\ disk'.objects[q] = disk.objects[q]
            /\ q \notin disk.overwritten \/ q \in proc.wrote
        BY <1>6, <1>8, <1>9, <2>2, <3>1
      <3> QED BY <1>4, <3>2 DEF IInv, ProcCacheSound
    <2> QED BY <2>1, <2>2
  <1>16. \A f, r : MadeFor(f, r) => MadeFor(f, r)'
    BY <1>8, SameMadeFor
  <1>17. ObjsSound'
    <2> SUFFICES ASSUME proc.mode = "exe", NEW f \in DOMAIN proc'.objs, NEW r, r = proc'.objs[f]
                 PROVE  /\ r \in DOMAIN disk'.objects /\ r = ObjectPath(f, r[2])
                        /\ f \notin proc'.raced => r = ObjectPath(f, proc.ast[f])
                        /\ f \in Cacheable \ proc'.raced /\ (r \notin disk.overwritten \/ r \in proc'.wrote)
                           => \E x : x = disk'.objects[r] /\ MadeFor(f, x)'
      BY <1>5, <1>8 DEF ObjsSound
    <2>1. CASE f = Current
      <3>1. r = p
        BY <1>8, <2>1
      <3>2. p = ObjectPath(f, p[2]) /\ (f \notin proc'.raced => p = ObjectPath(f, proc.ast[f]))
        BY <1>8, <2>1 DEF p, ObjectPath
      <3> QED BY <1>6, <1>14, <1>16, <2>1, <3>1, <3>2
    <2>2. CASE f # Current
      <3>1. f \in DOMAIN proc.objs /\ proc.objs[f] = r /\ proc.raced \subseteq proc'.raced
        BY <1>8, <2>2
      <3>2. /\ r \in DOMAIN disk.objects /\ r = ObjectPath(f, r[2])
            /\ f \notin proc.raced => r = ObjectPath(f, proc.ast[f])
            /\ f \in Cacheable \ proc.raced /\ (r \notin disk.overwritten \/ r \in proc.wrote)
               => MadeFor(f, disk.objects[r])
        BY <1>4, <3>1 DEF IInv, ObjsSound, Late
      <3>3. r # p
        BY <1>3, <2>2, <3>2
      <3>4. r \in DOMAIN disk'.objects /\ disk'.objects[r] = disk.objects[r] /\ (r \in proc'.wrote => r \in proc.wrote)
        BY <1>6, <1>8, <3>2, <3>3
      <3> QED BY <1>16, <3>1, <3>2, <3>4
    <2> QED BY <2>1, <2>2
  <1> QED BY <1>12, <1>13, <1>15, <1>17 DEF IInv

-----------------------------------------------------------------------------
(* The manifest is saved, and the objects are linked *)

(* The process after it has tried to save its manifest. *)
LEMMA SaveStep ==
    ASSUME IInv, proc.pc = "save", proc' = AfterSave, src' = src, exe' = exe, DOMAIN used' = UsedFields,
           DiskTyped', CacheSound', disk'.objects = disk.objects,
           \A p : p \notin disk'.overwritten => p \notin disk.overwritten \/ p \in proc.wrote
    PROVE  IInv'
  <1> DEFINE pc == IF proc.mode = "lib" THEN "archive" ELSE "link"
  <1>1. proc' = [proc EXCEPT !.pc = pc]
    BY DEF AfterSave
  <1>2. ProcTyped /\ SrcTyped' /\ proc.mode \in {"exe", "lib"}
    BY DEF IInv, Typed, SrcTyped, ProcTyped, Modes
  <1> HIDE DEF pc
  <1>3. /\ DOMAIN proc' = ProcFields /\ proc'.pc = pc /\ proc'.mode = proc.mode /\ proc'.stack = proc.stack
        /\ proc'.ast = proc.ast /\ proc'.loaded = proc.loaded /\ proc'.order = proc.order
        /\ proc'.contracts = proc.contracts /\ proc'.symbols = proc.symbols
        /\ proc'.manifest = proc.manifest /\ proc'.todo = proc.todo /\ proc'.objs = proc.objs
        /\ proc'.wrote = proc.wrote /\ proc'.raced = proc.raced
    BY <1>1, <1>2 DEF ProcFields, ProcTyped
  <1>4. pc \in {"archive", "link"} /\ (pc = "link" <=> proc.mode = "exe")
    BY <1>2 DEF pc
  <1>5. ProcTyped'
    BY <1>2, <1>3, <1>4 DEF ProcTyped
  <1>6. Typed'
    BY <1>2, <1>5 DEF IInv, Typed
  <1>7. Local' = Local
    BY <1>3 DEF Local
  <1>8. Phased' /\ Loading'
    BY <1>2, <1>3, <1>4, <1>7 DEF IInv, Phased, Loading, Early
  <1>9. Ordered'
    BY <1>3, SameOrdered DEF IInv
  <1>10. Checked'
    <2>1. \A d : (Known(d)' <=> Known(d)) /\ Contract(d)' = Contract(d)
      BY <1>3, <1>7 DEF Known, Contract
    <2>2. Undefined' = Undefined /\ Stale' = Stale
      BY <1>3, <1>7, <2>1 DEF Undefined, Stale
    <2> QED BY <1>3, <1>7, <2>2 DEF IInv, Checked, Late
  <1>11. Listed'
    BY <1>3, <1>4, <1>7 DEF IInv, Listed, Late
  <1>12. ProcCacheSound'
    BY <1>3, <1>4 DEF ProcCacheSound
  <1>13. \A f, r : MadeFor(f, r) => MadeFor(f, r)'
    BY <1>3, SameMadeFor
  <1>14. ObjsSound'
    <2> SUFFICES ASSUME proc.mode = "exe", NEW f \in DOMAIN proc.objs, NEW r, r = proc.objs[f]
                 PROVE  /\ r \in DOMAIN disk.objects /\ r = ObjectPath(f, r[2])
                        /\ f \notin proc.raced => r = ObjectPath(f, proc.ast[f])
                        /\ f \in Cacheable \ proc.raced /\ (r \notin disk'.overwritten \/ r \in proc.wrote)
                           => \E x : x = disk.objects[r] /\ MadeFor(f, x)'
      BY <1>3 DEF ObjsSound
    <2>1. /\ r \in DOMAIN disk.objects /\ r = ObjectPath(f, r[2])
          /\ f \notin proc.raced => r = ObjectPath(f, proc.ast[f])
          /\ f \in Cacheable \ proc.raced /\ (r \notin disk.overwritten \/ r \in proc.wrote)
             => MadeFor(f, disk.objects[r])
      BY DEF IInv, ObjsSound, Late
    <2> QED BY <1>13, <2>1
  <1> QED BY <1>6, <1>8, <1>9, <1>10, <1>11, <1>12, <1>14, SameExe DEF IInv

(* The object files of a library's files are not those of cacheable ones. *)
LEMMA LibraryWrites ==
    ASSUME IInv, proc.mode = "lib", NEW f \in Cacheable, NEW s
    PROVE  ObjectPath(f, s) \notin proc.wrote
  <1>1. \A p \in proc.wrote : p[1] \in Library
    BY DEF IInv, Phased
  <1>2. ObjectPath(f, s)[1] = f /\ f \notin Library
    BY FileFacts DEF ObjectPath, Cacheable
  <1> QED BY <1>1, <1>2

(* The manifest is saved: what the process wrote is described by it. *)
LEMMA SaveKeeps == ASSUME IInv, Save  PROVE IInv'
  <1>1. /\ proc.pc = "save" /\ proc' = AfterSave /\ src' = src /\ exe' = exe
        /\ disk' = [disk EXCEPT !.manifest[proc.mode] = proc.manifest, !.overwritten = @ \ proc.wrote]
    BY DEF Save
  <1>2. DOMAIN used' = UsedFields
    BY DEF Save, IInv, Typed
  <1>3. ProcTyped /\ DiskTyped /\ proc.mode \in Modes
    BY DEF IInv, Typed, ProcTyped
  <1> DEFINE ms == [disk.manifest EXCEPT ![proc.mode] = proc.manifest]
  <1>4. disk' = [disk EXCEPT !.manifest = ms, !.overwritten = @ \ proc.wrote]
    BY <1>1
  <1>5. DOMAIN ms = Modes /\ ms[proc.mode] = proc.manifest /\ \A m \in Modes \ {proc.mode} : ms[m] = disk.manifest[m]
    BY <1>3 DEF DiskTyped
  <1> HIDE DEF ms
  <1>6. /\ DOMAIN disk' = DiskFields /\ disk'.manifest = ms /\ disk'.objects = disk.objects
        /\ disk'.registry = disk.registry /\ disk'.index = disk.index
        /\ disk'.overwritten = disk.overwritten \ proc.wrote
    BY <1>3, <1>4 DEF DiskTyped, DiskFields
  <1>7. DiskTyped'
    BY <1>3, <1>5, <1>6 DEF DiskTyped, ProcTyped
  <1>8. proc'.pc \notin {"compile", "save"}
    BY <1>1, <1>3 DEF AfterSave, ProcTyped, ProcFields
  <1>9. CacheSound'
    <2> SUFFICES ASSUME NEW f \in DOMAIN ms["exe"] \cap Cacheable,
                        NEW q, q = ObjectPath(f, ms["exe"][f].source),
                        q \in DOMAIN disk.objects, q \notin disk.overwritten \ proc.wrote
                 PROVE  Witnesses(f, disk.objects[q], ms["exe"][f])
      BY <1>6 DEF CacheSound
    <2>1. CASE proc.mode = "exe"
      <3>1. ms["exe"] = proc.manifest
        BY <1>5, <2>1
      <3> QED BY <1>1, <2>1, <3>1 DEF IInv, ProcCacheSound
    <2>2. CASE proc.mode = "lib"
      <3>1. ms["exe"] = disk.manifest["exe"]
        BY <1>5, <2>2 DEF Modes
      <3>2. q \notin proc.wrote
        BY <2>2, LibraryWrites
      <3> QED BY <1>1, <3>1, <3>2 DEF IInv, CacheSound
    <2> QED BY <1>3, <2>1, <2>2 DEF Modes
  <1> QED BY <1>1, <1>2, <1>6, <1>7, <1>9, SaveStep

(* The save fails; the build goes on. *)
LEMMA SaveFailsKeeps == ASSUME IInv, SaveFails  PROVE IInv'
  <1>1. /\ proc.pc = "save" /\ proc' = AfterSave /\ src' = src /\ exe' = exe
    BY DEF SaveFails
  <1>2. PICK m \in {disk.manifest[proc.mode], <<>>} :
            disk' = [disk EXCEPT !.manifest[proc.mode] = m, !.overwritten = @ \cup proc.wrote]
    BY DEF SaveFails
  <1>3. DOMAIN used' = UsedFields
    BY DEF SaveFails, IInv, Typed
  <1>4. ProcTyped /\ DiskTyped /\ proc.mode \in Modes
    BY DEF IInv, Typed, ProcTyped
  <1> DEFINE ms == [disk.manifest EXCEPT ![proc.mode] = m]
  <1>5. disk' = [disk EXCEPT !.manifest = ms, !.overwritten = @ \cup proc.wrote]
    BY <1>2
  <1>6. DOMAIN ms = Modes /\ \A k \in Modes : ms[k] = disk.manifest[k] \/ ms[k] = <<>>
    BY <1>4 DEF DiskTyped
  <1> HIDE DEF ms
  <1>7. /\ DOMAIN disk' = DiskFields /\ disk'.manifest = ms /\ disk'.objects = disk.objects
        /\ disk'.registry = disk.registry /\ disk'.index = disk.index
        /\ disk'.overwritten = disk.overwritten \cup proc.wrote
    BY <1>4, <1>5 DEF DiskTyped, DiskFields
  <1>8. DOMAIN <<>> = {}
    OBVIOUS
  <1>9. DiskTyped'
    BY <1>4, <1>6, <1>7, <1>8 DEF DiskTyped
  <1>10. CacheSound'
    <2> SUFFICES ASSUME NEW f \in DOMAIN ms["exe"] \cap Cacheable,
                        NEW q, q = ObjectPath(f, ms["exe"][f].source),
                        q \in DOMAIN disk.objects, q \notin disk.overwritten \cup proc.wrote
                 PROVE  Witnesses(f, disk.objects[q], ms["exe"][f])
      BY <1>7 DEF CacheSound
    <2>1. ms["exe"] = disk.manifest["exe"]
      BY <1>6, <1>8 DEF Modes
    <2> QED BY <2>1 DEF IInv, CacheSound
  <1> QED BY <1>1, <1>3, <1>7, <1>9, <1>10, SaveStep

(* What a linked executable is made of: every object that is sound was     *)
(* made from what the build parsed.                                        *)
LEMMA LinkedFacts ==
    ASSUME IInv, proc.pc = "link", NEW f \in DOMAIN Chosen,
           f \notin proc.raced, Chosen[f].src = proc.objs[f][2]
    PROVE  /\ f \in Local \cup Patterns \cup {Entry} /\ Chosen[f] = disk.objects[proc.objs[f]]
           /\ Chosen[f].src = proc.ast[f]
           /\ f \in Cacheable /\ proc.objs[f] \notin disk.overwritten => MadeFor(f, Chosen[f])
  <1>1. f \in DOMAIN proc.objs /\ Chosen[f] = disk.objects[proc.objs[f]]
    BY DEF Chosen
  <1>2. proc.pc \in Late /\ proc.mode = "exe"
    BY DEF IInv, Phased, Late
  <1>3. f \in Local \cup Patterns \cup {Entry}
    BY <1>1, <1>2 DEF IInv, Listed
  <1>4. proc.objs[f] = ObjectPath(f, proc.ast[f])
    BY <1>1, <1>2 DEF IInv, ObjsSound
  <1>5. Chosen[f].src = proc.ast[f]
    BY <1>4 DEF ObjectPath
  <1>6. f \in Cacheable /\ proc.objs[f] \notin disk.overwritten => MadeFor(f, Chosen[f])
    BY <1>1, <1>2 DEF IInv, ObjsSound
  <1> QED BY <1>1, <1>3, <1>5, <1>6

(* The objects are linked as they are on disk. *)
LEMMA LinkKeeps == ASSUME IInv, Link  PROVE IInv'
  <1>1. proc.pc = "link" /\ proc' = NoProc /\ src' = src /\ disk' = disk /\ used' = used
    BY DEF Link
  <1>2. proc.pc \in Late /\ proc.mode = "exe"
    BY <1>1 DEF IInv, Phased, Late
  <1>3. /\ DiskTyped' /\ SrcTyped' /\ DOMAIN used' = UsedFields
    BY <1>1 DEF IInv, Typed, DiskTyped, SrcTyped
  <1>4. CacheSound'
    BY <1>1 DEF IInv, CacheSound
  <1>5. ProcTyped' /\ Phased' /\ Loading' /\ Ordered' /\ Checked' /\ Listed' /\ ProcCacheSound' /\ ObjsSound'
    BY <1>1, Ended
  <1>6. CASE exe' = exe
    <2>1. Typed'
      BY <1>3, <1>5, <1>6 DEF IInv, Typed
    <2> QED BY <1>4, <1>5, <1>6, <2>1, SameExe DEF IInv
  <1>7. CASE exe' # exe
    <2> DEFINE bad(f) == Chosen[f].src # proc.objs[f][2] \/ proc.objs[f] \in disk.overwritten
    <2>1. exe' = [ast |-> proc.ast, objs |-> Chosen, archive |-> disk.archive, registry |-> proc.contracts,
                    suspect |-> proc.raced \cup {f \in DOMAIN Chosen : bad(f)}]
      BY <1>7 DEF Link
    <2>2. /\ exe'.ast = proc.ast /\ exe'.objs = Chosen /\ exe'.archive = disk.archive
          /\ exe'.registry = proc.contracts /\ exe'.suspect = proc.raced \cup {f \in DOMAIN Chosen : bad(f)}
      BY <2>1
    <2>3. /\ DOMAIN Chosen = Local \cup Patterns \cup {Entry}
          /\ Local \subseteq Behaviors \cap DOMAIN proc.ast /\ DOMAIN proc.contracts \subseteq Library
      <3>1. ToSet(proc.todo) = {}
        BY <1>1 DEF IInv, Listed, ToSet
      <3> QED BY <1>2, <3>1, LateFacts DEF IInv, Listed, Chosen
    <2>4. DOMAIN exe'.objs \subseteq Files \ Library
      BY <2>2, <2>3, FileFacts
    <2>5. Typed'
      BY <1>3, <1>5, <2>4 DEF Typed
    <2>6. ASSUME NEW f \in DOMAIN Chosen, Sound(f)'
          PROVE  /\ Chosen[f].src = proc.ast[f] /\ (f \in Cacheable => MadeFor(f, Chosen[f]))
      <3>1. f \notin proc.raced /\ Chosen[f].src = proc.objs[f][2] /\ proc.objs[f] \notin disk.overwritten
        BY <2>2, <2>6 DEF Sound
      <3> QED BY <1>1, <3>1, LinkedFacts
    <2>7. ASSUME NEW d, Known(d), Sound(d)'
          PROVE  /\ Code(d)'.src.ver = Contract(d).ver
                 /\ ContractHash(Code(d)'.src) = ContractHash(Contract(d))
      <3>1. CASE d \in Local
        <4>1. Code(d)' = Chosen[d]
          BY <2>2, <2>3, <3>1, FileFacts DEF Code
        <4>2. Chosen[d].src = proc.ast[d] /\ Contract(d) = proc.ast[d]
          BY <2>3, <2>6, <2>7, <3>1 DEF Contract
        <4> QED BY <4>1, <4>2
      <3>2. CASE d \notin Local
        <4>1. d \in DOMAIN proc.contracts /\ d \in Library /\ Contract(d) = proc.contracts[d]
          BY <2>3, <2>7, <3>2 DEF Known, Contract
        <4>2. Code(d)' = disk.archive[d]
          BY <2>2, <4>1 DEF Code
        <4>3. proc.contracts[d] = disk.archive[d].src
          BY <2>2, <2>7, <4>1 DEF Sound
        <4> QED BY <4>1, <4>2, <4>3
      <3> QED BY <3>1, <3>2
    <2>8. ASSUME NEW f \in DOMAIN Chosen \ Patterns, NEW d \in DOMAIN Chosen[f].seen, Sound(f)', Sound(d)',
                 f = Entry => d \in Behaviors /\ Declared(proc.ast[d])
          PROVE  Chosen[f].seen[d] = Code(d)'.src.ver
      <3>1. f \in Local \cup {Entry} /\ f \in Cacheable
        BY <2>3, <2>8 DEF Cacheable
      <3>2. MadeFor(f, Chosen[f]) /\ Chosen[f].src = proc.ast[f]
        BY <2>6, <2>8, <3>1
      <3>3. Known(d) /\ Chosen[f].seen[d] = Signature(d)
        BY <2>8, <3>2 DEF MadeFor
      <3>4. Signature(d) = Contract(d).ver
        BY <1>2, <3>3, LateFacts
      <3> QED BY <2>7, <2>8, <3>3, <3>4
    <2>9. CallsAgree'
      BY <2>2, <2>8 DEF CallsAgree, Agrees
    <2>10. ASSUME NEW f \in DOMAIN Chosen \cap Behaviors, NEW d \in DOMAIN Chosen[f].src.req,
                  Chosen[f].src.req[d] # None, Sound(f)', Sound(d)'
           PROVE  ContractHash(Code(d)'.src) = Chosen[f].src.req[d]
      <3>1. f \in Local /\ Chosen[f].src = proc.ast[f]
        BY <2>3, <2>6, <2>10, FileFacts
      <3>2. Known(d) /\ proc.ast[f].req[d] = ContractHash(Contract(d))
        BY <1>2, <2>10, <3>1, LateFacts
      <3> QED BY <2>7, <2>10, <3>1, <3>2
    <2>11. PinsHold'
      BY <2>2, <2>10 DEF PinsHold
    <2> QED BY <1>4, <1>5, <2>5, <2>9, <2>11 DEF IInv
  <1> QED BY <1>6, <1>7

-----------------------------------------------------------------------------
(* The library's build, and crashes *)

(* The library's files are parsed and checked. *)
LEMMA ParseLibKeeps == ASSUME IInv, ParseLib  PROVE IInv'
  <1> DEFINE parsed == [f \in Library |-> Fixed(src[f])]
             list == SetToSeq(Library)
  <1>1. /\ proc.pc = "parse" /\ exe' = exe /\ used' = used
        /\ src' = [f \in Files |-> IF f \in Library THEN parsed[f] ELSE src[f]]
    BY DEF ParseLib
  <1>2. /\ ProcTyped /\ DiskTyped /\ SrcTyped /\ proc.mode = "lib" /\ DOMAIN used' = UsedFields /\ Library # {}
        /\ proc.wrote = {} /\ proc.raced = {} /\ DOMAIN proc.objs = {}
    BY <1>1 DEF IInv, Typed, Phased, Early
  <1>3. DOMAIN parsed = Library /\ \A f \in Library : IsSource(f, parsed[f])
    BY <1>2, FixedTyped, FileFacts DEF SrcTyped
  <1>4. list \in Seq(Library) /\ ToSet(list) = Library
    BY FileFacts, FS_Subset, ListFacts
  <1> HIDE DEF parsed, list
  <1>5. SrcTyped'
    BY <1>1, <1>2, <1>3 DEF SrcTyped
  <1>6. CASE \A f \in Library : WellHashed(parsed[f])
    <2>1. /\ proc' = [proc EXCEPT !.pc = "compile", !.fix = FALSE, !.ast = parsed, !.order = list,
                                  !.manifest = disk.manifest["lib"], !.todo = list]
          /\ disk' = disk
      BY <1>6 DEF ParseLib, parsed, list
    <2>2. /\ DOMAIN proc' = ProcFields /\ proc'.pc = "compile" /\ proc'.mode = "lib" /\ proc'.stack = proc.stack
          /\ proc'.ast = parsed /\ proc'.loaded = proc.loaded /\ proc'.order = list
          /\ proc'.contracts = proc.contracts /\ proc'.symbols = proc.symbols
          /\ proc'.manifest = disk.manifest["lib"] /\ proc'.todo = list /\ proc'.objs = proc.objs
          /\ proc'.wrote = proc.wrote /\ proc'.raced = proc.raced
      BY <1>2, <2>1 DEF ProcFields, ProcTyped
    <2>3. list \in Seq(Files) /\ list \in Seq(Behaviors \cup Library) /\ list # <<>>
      <3>1. list # <<>>
        BY <1>2, <1>4 DEF ToSet
      <3> QED BY <1>4, <3>1, SeqMonotonic, FileFacts
    <2>4. ProcTyped'
      BY <1>2, <1>3, <2>2, <2>3, FileFacts DEF ProcTyped, DiskTyped, Modes
    <2>5. DiskTyped'
      BY <1>2, <2>1 DEF DiskTyped
    <2>6. Typed'
      BY <1>1, <1>2, <1>5, <2>4, <2>5 DEF IInv, Typed
    <2>7. Phased' /\ Loading' /\ Ordered'
      BY <1>2, <1>3, <1>4, <2>2, <2>3 DEF Phased, Loading, Ordered, Early
    <2>8. Checked' /\ Listed' /\ ProcCacheSound' /\ ObjsSound'
      BY <2>2 DEF Checked, Listed, ProcCacheSound, ObjsSound
    <2>9. CacheSound'
      BY <1>1, <1>2, <2>1, <2>2 DEF IInv, CacheSound
    <2> QED BY <1>1, <2>6, <2>7, <2>8, <2>9, SameExe DEF IInv
  <1>7. CASE ~(\A f \in Library : WellHashed(parsed[f]))
    <2>1. disk' = [disk EXCEPT !.objects = disk.objects, !.overwritten = @ \cup proc.wrote] /\ proc' = NoProc
      BY <1>7 DEF ParseLib, Quit, parsed
    <2>2. /\ DOMAIN disk' = DiskFields /\ disk'.manifest = disk.manifest /\ disk'.objects = disk.objects
          /\ disk'.registry = disk.registry /\ disk'.index = disk.index
          /\ disk'.overwritten = disk.overwritten \cup proc.wrote
      BY <1>2, <2>1 DEF DiskFields, DiskTyped
    <2> QED BY <1>1, <1>2, <1>5, <2>1, <2>2, QuitStep
  <1> QED BY <1>6, <1>7

(* The archive, then the index, are written. *)
LEMMA ArchiveIndexKeep == ASSUME IInv, Archive \/ WriteIndex  PROVE IInv'
  <1> DEFINE pc == IF proc.pc = "archive" THEN "index" ELSE "registry"
  <1>1. /\ proc.pc \in {"archive", "index"} /\ src' = src /\ exe' = exe /\ used' = used
        /\ proc' = [proc EXCEPT !.pc = pc]
        /\ disk' = [disk EXCEPT !.archive = Chosen] \/ disk' = [disk EXCEPT !.index = DOMAIN proc.ast]
    BY DEF Archive, WriteIndex
  <1>2. /\ ProcTyped /\ DiskTyped /\ SrcTyped' /\ proc.mode = "lib" /\ DOMAIN used' = UsedFields
        /\ DOMAIN proc.ast \subseteq Library
    BY <1>1 DEF IInv, Typed, Phased, SrcTyped
  <1>3. pc \in {"index", "registry"}
    OBVIOUS
  <1> HIDE DEF pc
  <1>4. /\ DOMAIN disk' = DiskFields /\ disk'.manifest = disk.manifest /\ disk'.objects = disk.objects
        /\ disk'.registry = disk.registry /\ disk'.index \subseteq Library
        /\ disk'.overwritten = disk.overwritten
    BY <1>1, <1>2 DEF DiskFields, DiskTyped
  <1>5. /\ DOMAIN proc' = ProcFields /\ proc'.pc = pc /\ proc'.mode = "lib" /\ proc'.stack = proc.stack
        /\ proc'.ast = proc.ast /\ proc'.loaded = proc.loaded /\ proc'.order = proc.order
        /\ proc'.contracts = proc.contracts /\ proc'.symbols = proc.symbols
        /\ proc'.manifest = proc.manifest /\ proc'.todo = proc.todo /\ proc'.objs = proc.objs
        /\ proc'.wrote = proc.wrote /\ proc'.raced = proc.raced
    BY <1>1, <1>2 DEF ProcFields, ProcTyped
  <1>6. ProcTyped'
    BY <1>2, <1>3, <1>5 DEF ProcTyped
  <1>7. DiskTyped'
    BY <1>2, <1>4 DEF DiskTyped
  <1>8. Typed'
    BY <1>1, <1>2, <1>6, <1>7 DEF IInv, Typed
  <1>9. Phased' /\ Loading' /\ Ordered'
    BY <1>2, <1>3, <1>5 DEF IInv, Phased, Loading, Ordered, Early
  <1>10. Checked' /\ Listed' /\ ProcCacheSound' /\ ObjsSound'
    BY <1>3, <1>5 DEF Checked, Listed, ProcCacheSound, ObjsSound
  <1>11. CacheSound'
    BY <1>1, <1>4 DEF IInv, CacheSound
  <1> QED BY <1>1, <1>8, <1>9, <1>10, <1>11, SameExe DEF IInv

(* The registry is written. *)
LEMMA WriteRegistryKeeps == ASSUME IInv, WriteRegistry  PROVE IInv'
  <1>1. /\ proc.pc = "registry" /\ src' = src /\ exe' = exe /\ used' = used /\ proc' = NoProc
        /\ disk' = [disk EXCEPT !.registry = Registered(proc.ast)]
    BY DEF WriteRegistry
  <1>2. DiskTyped /\ SrcTyped' /\ DOMAIN used' = UsedFields /\ DOMAIN proc.ast \subseteq Library
    BY <1>1 DEF IInv, Typed, Phased, SrcTyped
  <1>3. DOMAIN Registered(proc.ast) \subseteq Library
    BY <1>2, RestrictFacts DEF Registered
  <1>4. /\ DOMAIN disk' = DiskFields /\ disk'.manifest = disk.manifest /\ disk'.objects = disk.objects
        /\ DOMAIN disk'.registry \subseteq Library /\ disk'.index = disk.index
        /\ disk'.overwritten = disk.overwritten
    BY <1>1, <1>2, <1>3 DEF DiskFields, DiskTyped
  <1>5. DiskTyped'
    BY <1>2, <1>4 DEF DiskTyped
  <1>6. CacheSound'
    BY <1>1, <1>4 DEF IInv, CacheSound
  <1> QED BY <1>1, <1>2, <1>5, <1>6, EndStep

(* The process is killed. *)
LEMMA CrashKeeps == ASSUME IInv, Crash  PROVE IInv'
  <1>1. src' = src /\ exe' = exe /\ proc' = NoProc
    BY DEF Crash, Quit
  <1>2. DOMAIN used' = UsedFields /\ SrcTyped' /\ DiskTyped /\ ProcTyped
    BY <1>1 DEF IInv, Typed, SrcTyped, Crash
  <1>3. CASE Quit(disk.objects, proc)
    <2>1. disk' = [disk EXCEPT !.objects = disk.objects, !.overwritten = @ \cup proc.wrote]
      BY <1>3 DEF Quit
    <2>2. /\ DOMAIN disk' = DiskFields /\ disk'.manifest = disk.manifest /\ disk'.objects = disk.objects
          /\ disk'.registry = disk.registry /\ disk'.index = disk.index
          /\ disk'.overwritten = disk.overwritten \cup proc.wrote
      BY <1>2, <2>1 DEF DiskFields, DiskTyped
    <2> QED BY <1>1, <1>2, <2>2, QuitStep
  <1>4. ASSUME NEW p, proc.pc = "compile",
               Quit(Put(disk.objects, p, Object(p[2], <<>>, TRUE)), [proc EXCEPT !.wrote = @ \cup {p}])
        PROVE  IInv'
    <2> DEFINE o == Object(p[2], <<>>, TRUE)
    <2>1. o.torn = TRUE
      BY DEF Object
    <2> HIDE DEF o
    <2>2. [proc EXCEPT !.wrote = @ \cup {p}].wrote = proc.wrote \cup {p}
      BY <1>2 DEF ProcTyped, ProcFields
    <2>3. disk' = [disk EXCEPT !.objects = Put(disk.objects, p, o), !.overwritten = @ \cup (proc.wrote \cup {p})]
      BY <1>4, <2>2 DEF Quit, o
    <2>4. /\ DOMAIN disk' = DiskFields /\ disk'.manifest = disk.manifest /\ disk'.objects = Put(disk.objects, p, o)
          /\ disk'.registry = disk.registry /\ disk'.index = disk.index
          /\ disk'.overwritten = disk.overwritten \cup proc.wrote \cup {p}
      BY <1>2, <2>3 DEF DiskFields, DiskTyped
    <2>5. /\ DOMAIN disk'.objects = DOMAIN disk.objects \cup {p} /\ disk'.objects[p] = o
          /\ \A q \in DOMAIN disk.objects \ {p} : disk'.objects[q] = disk.objects[q]
      BY <2>4 DEF Put
    <2>6. DiskTyped'
      BY <1>2, <2>1, <2>4, <2>5 DEF DiskTyped
    <2>7. CacheSound'
      <3> SUFFICES ASSUME NEW f \in DOMAIN disk.manifest["exe"] \cap Cacheable,
                          NEW q, q = ObjectPath(f, disk.manifest["exe"][f].source),
                          q \in DOMAIN disk'.objects, q \notin disk.overwritten \cup proc.wrote \cup {p}
                   PROVE  Witnesses(f, disk'.objects[q], disk.manifest["exe"][f])
        BY <2>4 DEF CacheSound
      <3>1. q \in DOMAIN disk.objects /\ disk'.objects[q] = disk.objects[q]
        BY <2>5
      <3> QED BY <3>1 DEF IInv, CacheSound
    <2> QED BY <1>1, <1>2, <2>6, <2>7, EndStep
  <1>5. CASE proc.pc = "archive" /\ disk' = [disk EXCEPT !.archive = <<>>]
    <2>1. /\ DOMAIN disk' = DiskFields /\ disk'.manifest = disk.manifest /\ disk'.objects = disk.objects
          /\ disk'.registry = disk.registry /\ disk'.index = disk.index
          /\ disk'.overwritten = disk.overwritten
      BY <1>2, <1>5 DEF DiskFields, DiskTyped
    <2>2. DiskTyped' /\ CacheSound'
      BY <1>2, <1>5, <2>1 DEF DiskTyped, IInv, CacheSound
    <2> QED BY <1>1, <1>2, <2>2, EndStep
  <1>6. CASE disk' = [disk EXCEPT !.manifest[proc.mode] = <<>>, !.overwritten = @ \cup proc.wrote]
    <2> DEFINE ms == [disk.manifest EXCEPT ![proc.mode] = <<>>]
    <2>1. disk' = [disk EXCEPT !.manifest = ms, !.overwritten = @ \cup proc.wrote]
      BY <1>6
    <2>2. DOMAIN ms = Modes /\ (\A k \in Modes : ms[k] = disk.manifest[k] \/ ms[k] = <<>>) /\ DOMAIN <<>> = {}
      BY <1>2 DEF DiskTyped, ProcTyped
    <2> HIDE DEF ms
    <2>3. /\ DOMAIN disk' = DiskFields /\ disk'.manifest = ms /\ disk'.objects = disk.objects
          /\ disk'.registry = disk.registry /\ disk'.index = disk.index
          /\ disk'.overwritten = disk.overwritten \cup proc.wrote
      BY <1>2, <2>1 DEF DiskTyped, DiskFields
    <2>4. DiskTyped'
      BY <1>2, <2>2, <2>3 DEF DiskTyped
    <2>5. CacheSound'
      <3> SUFFICES ASSUME NEW f \in DOMAIN ms["exe"] \cap Cacheable,
                          NEW q, q = ObjectPath(f, ms["exe"][f].source),
                          q \in DOMAIN disk.objects, q \notin disk.overwritten \cup proc.wrote
                   PROVE  Witnesses(f, disk.objects[q], ms["exe"][f])
        BY <2>3 DEF CacheSound
      <3>1. ms["exe"] = disk.manifest["exe"]
        BY <2>2 DEF Modes
      <3> QED BY <3>1 DEF IInv, CacheSound
    <2> QED BY <1>1, <1>2, <2>4, <2>5, EndStep
  <1>7. \/ Quit(disk.objects, proc)
        \/ \E p : /\ proc.pc = "compile"
                  /\ Quit(Put(disk.objects, p, Object(p[2], <<>>, TRUE)), [proc EXCEPT !.wrote = @ \cup {p}])
        \/ proc.pc = "archive" /\ disk' = [disk EXCEPT !.archive = <<>>]
        \/ disk' = [disk EXCEPT !.manifest[proc.mode] = <<>>, !.overwritten = @ \cup proc.wrote]
    BY DEF Crash
  <1> QED BY <1>3, <1>4, <1>5, <1>6, <1>7

-----------------------------------------------------------------------------
(* The invariant *)

(* The library as it was built before: the first state of the disk. *)
LEMMA InitDisk == ASSUME Init  PROVE DiskTyped /\ CacheSound
  <1> DEFINE built == Restrict(Start, Library)
             object(f) == Object(built[f], Restrict([d \in Library |-> built[d].ver], DOMAIN built[f].req), FALSE)
             deps(f) == {<<d, ContractHash(built[d])>> : d \in DOMAIN built[f].req}
             ms == [m \in Modes |->
                      IF m = "exe" THEN <<>> ELSE [f \in Library |-> CacheEntry(built[f], built[f].hash, deps(f))]]
             os == [p \in {ObjectPath(f, built[f]) : f \in Library} |-> object(p[1])]
             ar == [f \in Library |-> object(f)]
             reg == Registered(built)
  <1>1. disk = [manifest |-> ms, objects |-> os, archive |-> ar, index |-> Library, registry |-> reg, overwritten |-> {}]
    BY DEF Init
  <1>2. DOMAIN ms = Modes /\ DOMAIN ms["exe"] = {} /\ DOMAIN ms["lib"] = Library
    BY DEF Modes
  <1>3. \A f : object(f).torn = FALSE
    BY DEF Object
  <1>4. \A p \in DOMAIN os : os[p].torn \in BOOLEAN
    BY <1>3
  <1>5. DOMAIN reg \subseteq Library
    BY RestrictFacts DEF Registered
  <1> HIDE DEF ms, os, ar, reg
  <1>6. /\ DOMAIN disk = DiskFields /\ disk.manifest = ms /\ disk.objects = os /\ disk.registry = reg
        /\ disk.index = Library
    BY <1>1 DEF DiskFields
  <1>7. DiskTyped
    BY <1>2, <1>4, <1>5, <1>6, FileFacts DEF DiskTyped, Modes
  <1>8. CacheSound
    BY <1>2, <1>6 DEF CacheSound
  <1> QED BY <1>7, <1>8

(* At first there is no process, no executable and no cache of the project. *)
LEMMA InitInv == Init => IInv
  <1> SUFFICES ASSUME Init  PROVE IInv
    OBVIOUS
  <1>1. /\ src = Start /\ proc = NoProc /\ exe = NoExe
        /\ used = [edits |-> 0, troubles |-> 0, builds |-> 0, changed |-> TRUE]
    BY DEF Init
  <1>2. SrcTyped /\ DOMAIN used = UsedFields
    BY <1>1, BuildAssumption DEF SrcTyped, UsedFields
  <1>3. exe.objs = <<>> /\ DOMAIN <<>> = {}
    BY <1>1 DEF NoExe
  <1>4. ProcTyped /\ Phased /\ Loading /\ Ordered /\ Checked /\ Listed /\ ProcCacheSound /\ ObjsSound
    BY <1>1, NoProcess
  <1>5. DiskTyped /\ CacheSound
    BY InitDisk
  <1>6. Typed
    BY <1>2, <1>3, <1>4, <1>5 DEF Typed
  <1>7. CallsAgree /\ PinsHold
    BY <1>3 DEF CallsAgree, PinsHold
  <1> QED BY <1>4, <1>5, <1>6, <1>7 DEF IInv

(* Nothing happens: the variables stay. *)
LEMMA StutterKeeps == ASSUME IInv, UNCHANGED vars  PROVE IInv'
  <1>1. src' = src /\ disk' = disk /\ proc' = proc /\ exe' = exe /\ used' = used
    BY DEF vars
  <1>2. Typed'
    BY <1>1 DEF IInv, Typed, SrcTyped, DiskTyped, ProcTyped
  <1>3. Phased' /\ Loading' /\ Ordered' /\ Checked' /\ Listed'
    BY <1>1, SameProc DEF IInv
  <1>4. CacheSound' /\ ProcCacheSound'
    BY <1>1 DEF IInv, CacheSound, ProcCacheSound
  <1>5. ObjsSound'
    <2>1. \A f, o : MadeFor(f, o) => MadeFor(f, o)'
      BY <1>1, SameMadeFor
    <2> QED BY <1>1, <2>1 DEF IInv, ObjsSound
  <1> QED BY <1>1, <1>2, <1>3, <1>4, <1>5, SameExe DEF IInv

(* Every step of the compiler keeps the invariant. *)
LEMMA StepKeeps == ASSUME IInv, Step  PROVE IInv'
  <1>1. CASE LoadKnown \/ LoadFile \/ LoadReturn \/ LoadPatterns \/ Recurse
    BY <1>1, LoadKnownKeeps, LoadFileKeeps, LoadReturnKeeps, LoadPatternsKeeps, RecurseKeeps
  <1>2. CASE LoadMissing \/ Overflow \/ CompileFails
    BY <1>2, FailKeeps DEF LoadMissing, Overflow, CompileFails
  <1>3. CASE Validate \/ CheckGraph
    BY <1>3, ValidateKeeps, CheckGraphKeeps
  <1>4. CASE UseCached \/ Compile \/ Save \/ SaveFails \/ Link
    BY <1>4, UseCachedKeeps, CompileKeeps, SaveKeeps, SaveFailsKeeps, LinkKeeps
  <1>5. CASE ParseLib \/ Archive \/ WriteIndex \/ WriteRegistry
    BY <1>5, ParseLibKeeps, ArchiveIndexKeep, WriteRegistryKeeps
  <1> QED BY <1>1, <1>2, <1>3, <1>4, <1>5 DEF Step

(* The invariant is inductive: no edit, crash or step of a build breaks it. *)
LEMMA InvInductive == IInv /\ [Next]_vars => IInv'
  <1> SUFFICES ASSUME IInv, [Next]_vars  PROVE IInv'
    OBVIOUS
  <1>1. CASE UNCHANGED vars
    BY <1>1, StutterKeeps
  <1>2. CASE \E f \in Files : Edit(f)
    BY <1>2, EditKeeps
  <1>3. CASE \E fix \in BOOLEAN : StartExe(fix) \/ StartLib(fix)
    BY <1>3, StartExeKeeps, StartLibKeeps
  <1>4. CASE Step
    BY <1>4, StepKeeps
  <1>5. CASE Crash
    BY <1>5, CrashKeeps
  <1> QED BY <1>1, <1>2, <1>3, <1>4, <1>5 DEF Next

(* All of the above holds in every state (main.rs, cache.rs). *)
THEOREM Invariance == Spec => []IInv
  BY InitInv, InvInductive, PTL DEF Spec

(* Code that is linked into an executable was generated for the signatures *)
(* of the code it is linked with, unless an edit raced the build or an     *)
(* unsaved build overwrote an object (main.rs phase 6, needs_recompile).   *)
THEOREM LinkedCodeAgrees == Spec => []CallsAgree
  <1>1. IInv => CallsAgree
    BY DEF IInv
  <1> QED BY <1>1, Invariance, PTL

(* A pinned requirement is linked with the contract its REQUIRES line      *)
(* names (check_hash_consistency), under the same conditions.              *)
THEOREM PinsAreKept == Spec => []PinsHold
  <1>1. IInv => PinsHold
    BY DEF IInv
  <1> QED BY <1>1, Invariance, PTL

(* The loader puts every behavior after what it requires                   *)
(* (load_behavior_by_name); the variables keep their types.                *)
THEOREM OrderRespectsRequires == Spec => []DependenciesFirst
  <1>1. IInv => DependenciesFirst
    BY TypedTypeOK DEF IInv, Ordered, DependenciesFirst
  <1> QED BY <1>1, Invariance, PTL
=============================================================================
