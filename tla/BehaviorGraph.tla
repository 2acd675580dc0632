--------------------------- MODULE BehaviorGraph ---------------------------
(***************************************************************************)
(* The behavior graph (compiler/src/graph): local behaviors as nodes with  *)
(* typed ports, library behaviors as contracts, edges between ports, the   *)
(* whole-graph checks that every compilation runs, the gap detector and    *)
(* the topological sort.                                                   *)
(*                                                                         *)
(* A contract is content addressed: its hash is computed from its ports,   *)
(* its REQUIRES with their pins and its guarantees.  So a contract is      *)
(* denoted by its hash, and ContractOf gives the contract of every hash.   *)
(* Hash "" is the empty string: an unpinned reference, or a library block  *)
(* without a hash.                                                         *)
(***************************************************************************)
EXTENDS Integers, Sequences, FiniteSets, SequencesExt

CONSTANTS Names,       \* the names of behaviors
          Hashes,      \* the contract hashes
          ContractOf,  \* ContractOf[h]: [ports, requires, pure]
          MaxNodes,    \* bound: node ids handed out
          WordSize     \* the numbers a usize holds

Ids == 1 .. MaxNodes

Directions == {"In", "Out", "Error"}

(* A port of a contract, and a reference to a dependency with its pin. *)
PortDecl ==
    [name : STRING, dir : Directions, type : STRING, size : Nat, discarded : BOOLEAN]

Reference == [name : Names, pin : Hashes \cup {""}]

IsContract(c) ==
    /\ c.ports \in Seq(PortDecl)
    /\ \A i, j \in DOMAIN c.ports : c.ports[i].name = c.ports[j].name => i = j
    /\ c.requires \in Seq(Reference)
    /\ c.pure \in BOOLEAN

(* The ports of all nodes fit in memory, so a usize can count them. *)
PortPlaces == UNION {DOMAIN ContractOf[h].ports : h \in Hashes}

ASSUME GraphAssumption ==
    /\ IsFiniteSet(Names) /\ IsFiniteSet(Hashes) /\ "" \notin Hashes
    /\ MaxNodes \in Nat /\ WordSize \in Nat \ {0}
    /\ DOMAIN ContractOf = Hashes
    /\ \A h \in Hashes : IsContract(ContractOf[h])
    /\ MaxNodes * Cardinality(PortPlaces) < WordSize

VARIABLES nodes,      \* nodes[id]: a local behavior, or NoNode
          library,    \* library[n]: the contract a library exports as n, or NoNode
          edges,      \* the explicit connections between ports
          nextId,     \* the next node id
          sort,       \* the topological sort under way, or its result
          walk        \* the purity check of a node under way, or its result

graphVars == <<nodes, library, edges, nextId, sort, walk>>

NoNode == [name |-> ""]

LibNode == [hash : Hashes \cup {""}, contract : Hashes]

BehaviorNode == [name : Names, hash : Hashes, calls : Seq(Names)]

Edge == [from : Ids, fp : STRING, to : Ids, tp : STRING]

Sort == [at : {"none", "running", "ok", "cycle"}, queue : Seq(Ids),
         deg : [Ids -> Nat] \cup {<<>>}, order : Seq(Ids)]

NoSort == [at |-> "none", queue |-> <<>>, deg |-> <<>>, order |-> <<>>]

Walk == [at : {"none", "running", "pure", "impure"}, node : Ids \cup {0},
         todo : Seq(Names), visited : SUBSET Names]

NoWalk == [at |-> "none", node |-> 0, todo |-> <<>>, visited |-> {}]

(* The functions of the graph borrow it: no edit falls into a sort or a    *)
(* check.                                                                  *)
Unchecked == sort = NoSort /\ walk = NoWalk

GraphTypeOK ==
    /\ DOMAIN nodes = Ids /\ \A i \in Ids : nodes[i] = NoNode \/ nodes[i] \in BehaviorNode
    /\ DOMAIN library = Names /\ \A n \in Names : library[n] = NoNode \/ library[n] \in LibNode
    /\ edges \subseteq Edge
    /\ nextId \in 1 .. MaxNodes + 1
    /\ sort \in Sort
    /\ walk \in Walk

GraphInit ==
    /\ nodes = [i \in Ids |-> NoNode]
    /\ library = [n \in Names |-> NoNode]
    /\ edges = {}
    /\ nextId = 1
    /\ Unchecked

-----------------------------------------------------------------------------
(* Lookups. *)

LocalNodes == {i \in Ids : nodes[i] # NoNode}

Ports(i) == ContractOf[nodes[i].hash].ports
Requires(i) == ContractOf[nodes[i].hash].requires
Pure(i) == ContractOf[nodes[i].hash].pure

FindNode(n) == {i \in LocalNodes : nodes[i].name = n}

(* The hash of the behavior a name denotes: a local one first, then a      *)
(* library's; {} if there is none.                                         *)
Lookup(n) ==
    IF FindNode(n) # {} THEN {nodes[i].hash : i \in FindNode(n)}
    ELSE IF library[n] # NoNode THEN {library[n].hash} ELSE {}

Port(i, p) == {Ports(i)[k] : k \in {j \in DOMAIN Ports(i) : Ports(i)[j].name = p}}

PortHasSource(i, p) == \E e \in edges : e.to = i /\ e.tp = p
PortHasConsumer(i, p) == \E e \in edges : e.from = i /\ e.fp = p

-----------------------------------------------------------------------------
(* Editing. *)

(* behavior_to_node and add_node: a composite keeps the CALLs of its       *)
(* COMPOSITION (calls), a leaf and a native behavior have none.  The       *)
(* loader keeps one behavior per name.                                     *)
AddNode(n, h, calls) ==
    /\ Unchecked
    /\ nextId <= MaxNodes
    /\ FindNode(n) = {}
    /\ nodes' = [nodes EXCEPT ![nextId] = [name |-> n, hash |-> h, calls |-> calls]]
    /\ nextId' = nextId + 1
    /\ UNCHANGED <<library, edges, sort, walk>>

(* Mutation: the edges of the removed node stay. *)
RemoveNodeKeepEdges(i) ==
    /\ Unchecked
    /\ i \in LocalNodes
    /\ nodes' = [nodes EXCEPT ![i] = NoNode]
    /\ UNCHANGED <<library, edges, nextId, sort, walk>>

RemoveNode(i) ==
    /\ Unchecked
    /\ i \in LocalNodes
    /\ nodes' = [nodes EXCEPT ![i] = NoNode]
    /\ edges' = {e \in edges : e.from # i /\ e.to # i}
    /\ UNCHANGED <<library, nextId, sort, walk>>

(* contract_to_ref and add_library_node: the build computes the hash, the  *)
(* registry loader of the graph takes the one of the block, perhaps none.  *)
AddLibraryNode(n, h, stored) ==
    /\ Unchecked
    /\ library' = [library EXCEPT ![n] = [hash |-> stored, contract |-> h]]
    /\ UNCHANGED <<nodes, edges, nextId, sort, walk>>

EdgeAllowed(e) ==
    /\ e.from \in LocalNodes /\ e.to \in LocalNodes
    /\ \E p \in Port(e.from, e.fp), q \in Port(e.to, e.tp) :
         p.dir # "In" /\ q.dir = "In" /\ p.type = q.type /\ p.size = q.size
    /\ ~PortHasSource(e.to, e.tp)

AddEdge(e) ==
    /\ Unchecked
    /\ EdgeAllowed(e)
    /\ edges' = edges \cup {e}
    /\ UNCHANGED <<nodes, library, nextId, sort, walk>>

RemoveEdge(e) ==
    /\ Unchecked
    /\ e \in edges
    /\ edges' = edges \ {e}
    /\ UNCHANGED <<nodes, library, nextId, sort, walk>>

(* The edges derive_edges_from_composites proposes: from a composite to    *)
(* the inputs of each local behavior it CALLs, port by equal port name.    *)
Wires(i, j) ==
    {[from |-> i, fp |-> p.name, to |-> j, tp |-> p.name] :
       p \in {q \in ToSet(Ports(j)) : q.dir = "In" /\ Port(i, q.name) # {}}}

Called(i) == {j \in LocalNodes : nodes[j].name \in ToSet(nodes[i].calls)}

Proposed == UNION {(UNION {Wires(i, j) : j \in Called(i)}) : i \in LocalNodes}

(* The proposals are added in the order of a hash map; the ones add_edge   *)
(* refuses are dropped.  So of the proposals for one input an arbitrary    *)
(* one that is allowed is added.                                           *)
DeriveEdges ==
    /\ Unchecked
    /\ \E new \in SUBSET {e \in Proposed : EdgeAllowed(e)} :
         /\ \A d, e \in new : <<d.to, d.tp>> = <<e.to, e.tp>> => d = e
         /\ \A e \in Proposed : EdgeAllowed(e) => \E d \in new : <<d.to, d.tp>> = <<e.to, e.tp>>
         /\ edges' = edges \cup new
    /\ UNCHANGED <<nodes, library, nextId, sort, walk>>

-----------------------------------------------------------------------------
(* The whole-graph checks. *)

UndefinedRefs(i) == {r \in ToSet(Requires(i)) : Lookup(r.name) = {}}

StaleRefs(i) ==
    {r \in ToSet(Requires(i)) :
       r.pin # "" /\ \E h \in Lookup(r.name) : h # "" /\ h # r.pin}

(* The positions in the REQUIRES of node i that name the local node d, the *)
(* ones that name any local node, and the nodes named.                     *)
RefsTo(i, d) == {k \in DOMAIN Requires(i) : Requires(i)[k].name = nodes[d].name}

LocalRefs(i) == {k \in DOMAIN Requires(i) : FindNode(Requires(i)[k].name) # {}}

LocalDeps(i) == {d \in LocalNodes : RefsTo(i, d) # {}}

(* The references to node d that the nodes in S hold. *)
References(d, S) == UNION {{i} \X RefsTo(i, d) : i \in S}

(* The nodes whose in-degree is 0 after the nodes in E were emitted. *)
Unreferenced(E) ==
    {d \in LocalNodes : Cardinality(References(d, LocalNodes)) - Cardinality(References(d, E)) = 0}

(* Mutation: the nodes whose in-degree falls to 0 later are not queued. *)
EmittedAtOnce == Unreferenced({})

(* Kahn's algorithm as the check runs it, with in-degrees that count       *)
(* dependents.  It works off its queue to the end, in an order that does   *)
(* not matter: it emits the least set that has every node whose in-degree  *)
(* has fallen to 0.                                                        *)
Emitted == {d \in LocalNodes : \A E \in SUBSET LocalNodes : Unreferenced(E) \subseteq E => d \in E}

Circular == Cardinality(Emitted) < Cardinality(LocalNodes)

(* check_transitive_purity: for every pure node a walk through the names   *)
(* it requires, the last one on the list first, up to the first impure     *)
(* one.  A local behavior puts its own requirements on the list, a library *)
(* behavior and an unknown name do not.                                    *)
RequiredNames(i) == [k \in DOMAIN Requires(i) |-> Requires(i)[k].name]

WalkStart(i) ==
    /\ Unchecked
    /\ i \in LocalNodes /\ Pure(i)
    /\ walk' = [at |-> "running", node |-> i, todo |-> RequiredNames(i), visited |-> {}]
    /\ UNCHANGED <<nodes, library, edges, nextId, sort>>

Found(pure) == IF pure THEN "running" ELSE "impure"

PopSeen(n) ==
    /\ n \in walk.visited
    /\ walk' = [walk EXCEPT !.todo = Front(@)]

PopLocal(n) ==
    /\ n \notin walk.visited
    /\ \E j \in FindNode(n) :
         walk' = [walk EXCEPT !.todo = Front(@) \o RequiredNames(j),
                              !.visited = @ \cup {n}, !.at = Found(Pure(j))]

PopOther(n) ==
    /\ n \notin walk.visited /\ FindNode(n) = {}
    /\ walk' = [walk EXCEPT !.todo = Front(@), !.visited = @ \cup {n},
                            !.at = Found(library[n] # NoNode => ContractOf[library[n].contract].pure)]

WalkPop ==
    /\ walk.at = "running" /\ walk.todo # <<>>
    /\ LET n == Last(walk.todo) IN PopSeen(n) \/ PopLocal(n) \/ PopOther(n)
    /\ UNCHANGED <<nodes, library, edges, nextId, sort>>

WalkEnd ==
    /\ walk.at = "running" /\ walk.todo = <<>>
    /\ walk' = [walk EXCEPT !.at = "pure"]
    /\ UNCHANGED <<nodes, library, edges, nextId, sort>>

(* The check goes on to another node, or is done. *)
WalkTaken ==
    /\ walk.at \in {"pure", "impure"}
    /\ walk' = NoWalk
    /\ UNCHANGED <<nodes, library, edges, nextId, sort>>

-----------------------------------------------------------------------------
(* Gaps and completeness. *)

(* Gaps of node i: the positions of its ports, and of its references. *)
PortGaps(i) ==
    {k \in DOMAIN Ports(i) :
       LET p == Ports(i)[k]
       IN  IF p.dir = "In" THEN ~PortHasSource(i, p.name)
           ELSE ~p.discarded /\ ~PortHasConsumer(i, p.name)}

(* Mutation: only an unresolved reference is a gap. *)
UnresolvedGaps(i) == {k \in DOMAIN Requires(i) : Lookup(Requires(i)[k].name) = {}}

DependencyGaps(i) ==
    {k \in DOMAIN Requires(i) :
       LET r == Requires(i)[k]
       IN  \/ Lookup(r.name) = {}
           \/ r.pin # "" /\ \E h \in Lookup(r.name) : h # r.pin}

IsComplete == \A i \in LocalNodes : PortGaps(i) = {} /\ DependencyGaps(i) = {}

AllPorts == UNION {{i} \X DOMAIN Ports(i) : i \in LocalNodes}

AllPortGaps == UNION {{i} \X PortGaps(i) : i \in LocalNodes}

AllDependencyGaps == UNION {{i} \X DependencyGaps(i) : i \in LocalNodes}

(* completeness_pct: total - gaps in a usize.  The quotient is kept as a   *)
(* pair.                                                                   *)
Completeness ==
    LET total == Cardinality(AllPorts)
        gaps == Cardinality(AllPortGaps) + Cardinality(AllDependencyGaps)
    IN  IF total = 0 THEN <<1, 1>> ELSE <<(total - gaps) % WordSize, total>>

-----------------------------------------------------------------------------
(* The topological sort.  Its queue starts in the order of a hash map. *)

SortStart ==
    /\ Unchecked
    /\ LET deg == [i \in Ids |-> IF i \in LocalNodes THEN Cardinality(LocalRefs(i)) ELSE 0]
       IN  \E q \in SetToSeqs({i \in LocalNodes : deg[i] = 0}) :
             sort' = [at |-> "running", queue |-> q, deg |-> deg, order |-> <<>>]
    /\ UNCHANGED <<nodes, library, edges, nextId, walk>>

SortPop ==
    /\ sort.at = "running" /\ sort.queue # <<>>
    /\ LET i == Head(sort.queue)
           deg == [j \in Ids |-> IF j \in LocalNodes
                                 THEN sort.deg[j] - Cardinality(RefsTo(j, i)) ELSE 0]
       IN  \E new \in SetToSeqs({j \in LocalNodes : sort.deg[j] > 0 /\ deg[j] = 0}) :
             sort' = [sort EXCEPT !.queue = Tail(sort.queue) \o new, !.deg = deg,
                                  !.order = Append(@, i)]
    /\ UNCHANGED <<nodes, library, edges, nextId, walk>>

SortEnd ==
    /\ sort.at = "running" /\ sort.queue = <<>>
    /\ sort' = [sort EXCEPT !.at = IF Len(sort.order) < Cardinality(LocalNodes) THEN "cycle" ELSE "ok"]
    /\ UNCHANGED <<nodes, library, edges, nextId, walk>>

(* The caller takes the result. *)
SortTaken ==
    /\ sort.at \in {"ok", "cycle"}
    /\ sort' = NoSort
    /\ UNCHANGED <<nodes, library, edges, nextId, walk>>

-----------------------------------------------------------------------------
CONSTANTS Locals,       \* the local behaviors considered
          Exports       \* the registry blocks considered: <<name, contract, hash>>

ASSUME InputAssumption ==
    /\ Locals \subseteq BehaviorNode
    /\ \A x \in Exports : x[1] \in Names /\ x[2] \in Hashes /\ x[3] \in {x[2], ""}

GraphNext ==
    \/ \E b \in Locals : AddNode(b.name, b.hash, b.calls)
    \/ \E i \in Ids : RemoveNode(i)
    \/ \E x \in Exports : AddLibraryNode(x[1], x[2], x[3])
    \/ \E i \in LocalNodes, j \in LocalNodes : \E p \in ToSet(Ports(i)), q \in ToSet(Ports(j)) :
         AddEdge([from |-> i, fp |-> p.name, to |-> j, tp |-> q.name])
    \/ \E e \in edges : RemoveEdge(e)
    \/ DeriveEdges
    \/ SortStart \/ SortPop \/ SortEnd \/ SortTaken
    \/ \E i \in Ids : WalkStart(i)
    \/ WalkPop \/ WalkEnd \/ WalkTaken

GraphSpec == GraphInit /\ [][GraphNext]_graphVars

-----------------------------------------------------------------------------
(* Properties. *)

(* Every edge connects an output port to an input port of the same type    *)
(* and size, both of behaviors still in the graph, and no input has two    *)
(* sources: through additions, removals and derived wiring (add_edge,      *)
(* remove_node, derive_edges_from_composites).                             *)
EdgesSound ==
    /\ GraphTypeOK
    /\ \A e \in edges :
         /\ e.from \in LocalNodes /\ e.to \in LocalNodes
         /\ \E p \in Port(e.from, e.fp), q \in Port(e.to, e.tp) :
              p.dir # "In" /\ q.dir = "In" /\ <<p.type, p.size>> = <<q.type, q.size>>
    /\ \A d, e \in edges : <<d.to, d.tp>> = <<e.to, e.tp>> => d = e

(* The names node i reaches through the REQUIRES of local behaviors: the   *)
(* least set that has its own and is closed under them.                    *)
Closed(C) == \A j \in LocalNodes : nodes[j].name \in C => ToSet(RequiredNames(j)) \subseteq C

Reaches(i) ==
    {n \in Names : \A C \in SUBSET Names :
                     ToSet(RequiredNames(i)) \subseteq C /\ Closed(C) => n \in C}

RequiresCycle == \E i \in LocalNodes : nodes[i].name \in Reaches(i)

(* The whole-graph check reports a circular dependency exactly when some   *)
(* behavior reaches itself through REQUIRES, library behaviors left out,   *)
(* and so does the topological sort; an order it returns lists every       *)
(* behavior once, dependencies first, whatever order the hash map had      *)
(* (check_circular_dependencies, topological_sort).                        *)
OrderExact ==
    /\ Unchecked => (Circular <=> RequiresCycle)
    /\ sort.at = "cycle" => RequiresCycle
    /\ sort.at = "ok" => ~RequiresCycle /\ ToSet(sort.order) = LocalNodes
    /\ IsInjective(sort.order)
    /\ \A k \in DOMAIN sort.order :
         LocalDeps(sort.order[k]) \subseteq {sort.order[l] : l \in 1 .. k - 1}

IsPure(n) ==
    IF FindNode(n) # {} THEN \A i \in FindNode(n) : Pure(i)
    ELSE library[n] # NoNode => ContractOf[library[n].contract].pure

(* The names node i depends on, also through what library behaviors        *)
(* require in their turn.                                                  *)
ClosedThroughLibraries(C) ==
    /\ Closed(C)
    /\ \A n \in C : FindNode(n) = {} /\ library[n] # NoNode =>
         {r.name : r \in ToSet(ContractOf[library[n].contract].requires)} \subseteq C

DependsOn(i) ==
    {n \in Names : \A C \in SUBSET Names :
                     ToSet(RequiredNames(i)) \subseteq C /\ ClosedThroughLibraries(C) => n \in C}

(* A pure behavior that is let through "depends only on `pure` behaviors   *)
(* (transitive)" (docs/SIGIL-LANGUAGE-REFERENCE.md:787): "if a behavior    *)
(* declares `pure`, all its dependencies (transitively) must also be pure" *)
(* (graph/validate.rs:186-187).  The walk does not go on through a library *)
(* behavior, and a library is built without the check (main.rs:824-830).   *)
TransitivePurity ==
    walk.at = "pure" => \A n \in DependsOn(walk.node) : IsPure(n)

(* What the walk does decide: a pure behavior is refused exactly when it   *)
(* reaches an impure one through the REQUIRES of local behaviors, along    *)
(* any path, around cycles and past unknown names.                         *)
PurityThroughLocals ==
    /\ walk.at = "pure" => \A n \in Reaches(walk.node) : IsPure(n)
    /\ walk.at = "impure" => \E n \in Reaches(walk.node) : ~IsPure(n)

(* The gap detector and the whole-graph checks agree on which references   *)
(* are broken, except for a pin to a library behavior whose registry       *)
(* block has no hash, which only the gap detector reports                  *)
(* (find_dependency_gaps against check_dependencies_resolve and            *)
(* check_hash_consistency).  While no reference is broken, the percentage  *)
(* lies between 0 and 100 and is 100 exactly for a complete graph;         *)
(* otherwise broken references are subtracted from the ports, and the      *)
(* unsigned difference may wrap (completeness_pct).                        *)
GapsAgree ==
    /\ \A i \in LocalNodes :
         {Requires(i)[k] : k \in DependencyGaps(i)}
           = UndefinedRefs(i) \cup StaleRefs(i)
               \cup {r \in ToSet(Requires(i)) : r.pin # "" /\ "" \in Lookup(r.name)}
    /\ (\A i \in LocalNodes : DependencyGaps(i) = {}) =>
         /\ Completeness[1] <= Completeness[2]
         /\ Completeness[1] = Completeness[2] <=> IsComplete

=============================================================================
