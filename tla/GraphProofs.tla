---------------------------- MODULE GraphProofs ----------------------------
(***************************************************************************)
(* Proofs about the behavior graph: its edges stay sound, the whole-graph  *)
(* check and the topological sort find a cycle exactly when there is one,  *)
(* an order lists dependencies first, the purity check reaches exactly     *)
(* what a behavior requires, and the gap detector agrees with the checks.  *)
(* The proofs hold for any names, contracts and number of nodes that       *)
(* GraphAssumption and InputAssumption allow.                              *)
(***************************************************************************)
EXTENDS BehaviorGraph, FiniteSetTheorems, NaturalsInduction, WellFoundedInduction, TLAPS

-----------------------------------------------------------------------------
(* The inductive invariant. *)

(* Ids are handed out in increasing order, and a name has one node. *)
IdsFresh == \A i \in Ids : i >= nextId => nodes[i] = NoNode

NamesUnique == \A i, j \in LocalNodes : nodes[i].name = nodes[j].name => i = j

(* The references of node j to local nodes that are not in D. *)
Waiting(j, D) == {k \in LocalRefs(j) : FindNode(Requires(j)[k].name) \cap D = {}}

(* A sequence of different local nodes. *)
Distinct(s) ==
    /\ s \in Seq(LocalNodes)
    /\ \A k, l \in 1 .. Len(s) : s[k] = s[l] => k = l

Elems(s) == {s[k] : k \in 1 .. Len(s)}

(* The order so far has dependencies first. *)
Sorted(s) ==
    \A k \in 1 .. Len(s) : LocalDeps(s[k]) \subseteq {s[l] : l \in 1 .. k - 1}

(* The in-degree of a node is the number of its references to nodes that   *)
(* are not in the order yet; a node without any is in the queue or in the  *)
(* order, and in one place of them.                                        *)
SortSound(s) ==
    /\ Distinct(s.order) /\ Sorted(s.order)
    /\ Distinct(s.queue) /\ Elems(s.queue) \cap Elems(s.order) = {}
    /\ \A j \in LocalNodes :
         /\ s.deg[j] = Cardinality(Waiting(j, Elems(s.order)))
         /\ s.deg[j] = 0 <=> j \in Elems(s.queue) \cup Elems(s.order)

SortOK(s) ==
    /\ s.at = "none" => s = NoSort
    /\ s.at # "none" => SortSound(s)
    /\ s.at \in {"ok", "cycle"} => s.queue = <<>>
    /\ s.at = "ok" => Elems(s.order) = LocalNodes
    /\ s.at = "cycle" => Elems(s.order) # LocalNodes

SortInv == SortOK(sort)

(* What the walk has seen or has still to see. *)
Listed(w) == w.visited \cup Elems(w.todo)

(* The walk stays among what its node reaches, and while it has found      *)
(* nothing impure, what the node and the visited names require is listed.  *)
WalkSound(w) ==
    /\ w.node \in LocalNodes
    /\ Listed(w) \subseteq Reaches(w.node)
    /\ w.at # "impure" =>
         /\ Elems(RequiredNames(w.node)) \subseteq Listed(w)
         /\ \A n \in w.visited :
              IsPure(n) /\ \A j \in FindNode(n) : Elems(RequiredNames(j)) \subseteq Listed(w)
    /\ w.at = "impure" => \E n \in w.visited : ~IsPure(n)

WalkOK(w) ==
    /\ w.at = "none" => w = NoWalk
    /\ w.at # "none" => WalkSound(w)
    /\ w.at = "pure" => w.todo = <<>>

WalkInv == WalkOK(walk)

IInv == EdgesSound /\ IdsFresh /\ NamesUnique /\ SortInv /\ WalkInv

-----------------------------------------------------------------------------
(* Nodes, contracts and sequences. *)

(* What GraphTypeOK and GraphAssumption say of a local node. *)
LEMMA NodeFacts ==
    ASSUME GraphTypeOK, NEW i \in LocalNodes
    PROVE  /\ i \in Ids /\ nodes[i] \in BehaviorNode
           /\ nodes[i].name \in Names /\ nodes[i].hash \in Hashes /\ nodes[i].calls \in Seq(Names)
           /\ Ports(i) \in Seq(PortDecl)
           /\ Requires(i) \in Seq(Reference)
           /\ Pure(i) \in BOOLEAN
<1>1. i \in Ids /\ nodes[i] \in BehaviorNode
  BY DEF LocalNodes, GraphTypeOK
<1>2. nodes[i].name \in Names /\ nodes[i].hash \in Hashes /\ nodes[i].calls \in Seq(Names)
  BY <1>1 DEF BehaviorNode
<1>3. IsContract(ContractOf[nodes[i].hash])
  BY <1>2, GraphAssumption
<1> QED
  BY <1>1, <1>2, <1>3 DEF IsContract, Ports, Requires, Pure

(* The names a node requires, one for each of its references. *)
LEMMA RequiredFacts ==
    ASSUME GraphTypeOK, NEW i \in LocalNodes
    PROVE  /\ RequiredNames(i) \in Seq(Names)
           /\ Len(RequiredNames(i)) = Len(Requires(i))
           /\ \A k \in 1 .. Len(Requires(i)) :
                RequiredNames(i)[k] = Requires(i)[k].name /\ Requires(i)[k].name \in Names
           /\ Elems(RequiredNames(i)) = {Requires(i)[k].name : k \in 1 .. Len(Requires(i))}
           /\ Elems(RequiredNames(i)) \subseteq Names
<1>1. PICK r : r = Requires(i) /\ r \in Seq(Reference)
  BY NodeFacts
<1>2. \A k \in 1 .. Len(r) : r[k].name \in Names
  <2>1. \A k \in 1 .. Len(r) : r[k] \in Reference
    BY <1>1
  <2> QED
    BY <2>1 DEF Reference
<1>3. DOMAIN r = 1 .. Len(r) /\ Len(r) \in Nat
  BY <1>1
<1>4. RequiredNames(i) = [k \in 1 .. Len(r) |-> r[k].name]
  BY <1>1, <1>3 DEF RequiredNames
<1>5. RequiredNames(i) \in Seq(Names) /\ Len(RequiredNames(i)) = Len(r)
  BY <1>2, <1>3, <1>4
<1>6. \A k \in 1 .. Len(r) : RequiredNames(i)[k] = r[k].name
  BY <1>4
<1>7. Elems(RequiredNames(i)) = {r[k].name : k \in 1 .. Len(r)}
  BY <1>5, <1>6 DEF Elems
<1> QED
  BY <1>1, <1>2, <1>5, <1>6, <1>7

(* The elements of a sequence. *)
LEMMA ToSetElems ==
    ASSUME NEW S, NEW s \in Seq(S)
    PROVE  ToSet(s) = Elems(s) /\ Elems(s) \subseteq S
BY DEF ToSet, Elems

(* The order with a further node.                                          *)
LEMMA AppendElems ==
    ASSUME NEW S, NEW s \in Seq(S), NEW x \in S
    PROVE  /\ Append(s, x) \in Seq(S) /\ Len(Append(s, x)) = Len(s) + 1
           /\ \A k \in 1 .. Len(s) : Append(s, x)[k] = s[k]
           /\ Append(s, x)[Len(s) + 1] = x
           /\ Elems(Append(s, x)) = Elems(s) \cup {x}
<1>1. /\ Append(s, x) \in Seq(S) /\ Len(Append(s, x)) = Len(s) + 1
      /\ \A k \in 1 .. Len(s) : Append(s, x)[k] = s[k]
      /\ Append(s, x)[Len(s) + 1] = x
  OBVIOUS
<1>2. 1 .. Len(s) + 1 = (1 .. Len(s)) \cup {Len(s) + 1}
  OBVIOUS
<1>3. PICK t : t = Append(s, x)
  OBVIOUS
<1>4. Elems(t) \subseteq Elems(s) \cup {x}
  BY <1>1, <1>2, <1>3 DEF Elems
<1>5. Elems(s) \cup {x} \subseteq Elems(t)
  BY <1>1, <1>2, <1>3 DEF Elems
<1> QED
  BY <1>1, <1>3, <1>4, <1>5

(* The queue, or the list of names, with further elements.                 *)
LEMMA ConcatElems ==
    ASSUME NEW S, NEW s \in Seq(S), NEW t \in Seq(S)
    PROVE  /\ s \o t \in Seq(S) /\ Len(s \o t) = Len(s) + Len(t)
           /\ \A k \in 1 .. Len(s) : (s \o t)[k] = s[k]
           /\ \A k \in 1 .. Len(t) : (s \o t)[Len(s) + k] = t[k]
           /\ Elems(s \o t) = Elems(s) \cup Elems(t)
<1>1. PICK c : c = s \o t
  OBVIOUS
<1>2. /\ c \in Seq(S) /\ Len(c) = Len(s) + Len(t)
      /\ \A k \in 1 .. Len(c) : c[k] = IF k <= Len(s) THEN s[k] ELSE t[k - Len(s)]
  BY <1>1
<1>3. \A k \in 1 .. Len(s) : k \in 1 .. Len(c) /\ c[k] = s[k]
  <2> TAKE k \in 1 .. Len(s)
  <2>1. k \in 1 .. Len(c) /\ k <= Len(s)
    BY <1>2
  <2> QED BY <2>1, <1>2
<1>4. \A k \in 1 .. Len(t) : Len(s) + k \in 1 .. Len(c) /\ c[Len(s) + k] = t[k]
  <2> TAKE k \in 1 .. Len(t)
  <2>1. Len(s) + k \in 1 .. Len(c) /\ ~(Len(s) + k <= Len(s)) /\ Len(s) + k - Len(s) = k
    BY <1>2
  <2> QED BY <2>1, <1>2
<1>5. Elems(c) \subseteq Elems(s) \cup Elems(t)
  <2> SUFFICES ASSUME NEW k \in 1 .. Len(c) PROVE c[k] \in Elems(s) \cup Elems(t)
    BY DEF Elems
  <2>1. CASE k <= Len(s)
    <3>1. k \in 1 .. Len(s)
      BY <2>1, <1>2
    <3> QED BY <3>1, <1>3 DEF Elems
  <2>2. CASE ~(k <= Len(s))
    <3>1. k - Len(s) \in 1 .. Len(t)
      BY <2>2, <1>2
    <3>2. c[k] = t[k - Len(s)]
      BY <2>2, <1>2
    <3> QED BY <3>1, <3>2 DEF Elems
  <2> QED BY <2>1, <2>2
<1>6. Elems(s) \cup Elems(t) \subseteq Elems(c)
  <2>1. Elems(s) \subseteq Elems(c)
    BY <1>3 DEF Elems
  <2>2. Elems(t) \subseteq Elems(c)
    BY <1>4 DEF Elems
  <2> QED BY <2>1, <2>2
<1> QED
  BY <1>1, <1>2, <1>3, <1>4, <1>5, <1>6

(* The queue without its first element.                                    *)
LEMMA TailElems ==
    ASSUME NEW S, NEW s \in Seq(S), s # <<>>
    PROVE  /\ Tail(s) \in Seq(S) /\ Len(Tail(s)) = Len(s) - 1 /\ Len(s) >= 1
           /\ \A k \in 1 .. Len(s) - 1 : Tail(s)[k] = s[k + 1]
           /\ Head(s) = s[1] /\ s[1] \in S
           /\ Elems(s) = Elems(Tail(s)) \cup {s[1]}
<1>1. PICK t : t = Tail(s)
  OBVIOUS
<1>2. /\ t \in Seq(S) /\ Len(t) = Len(s) - 1 /\ Len(s) >= 1
      /\ \A k \in 1 .. Len(s) - 1 : t[k] = s[k + 1]
      /\ Head(s) = s[1] /\ s[1] \in S
  BY <1>1
<1>3. Elems(s) \subseteq Elems(t) \cup {s[1]}
  <2> SUFFICES ASSUME NEW k \in 1 .. Len(s), k # 1 PROVE s[k] \in Elems(t)
    BY DEF Elems
  <2>1. k - 1 \in 1 .. Len(s) - 1 /\ k - 1 + 1 = k
    BY <1>2
  <2>2. t[k - 1] = s[k] /\ k - 1 \in 1 .. Len(t)
    BY <2>1, <1>2
  <2> QED BY <2>2 DEF Elems
<1>4. Elems(t) \cup {s[1]} \subseteq Elems(s)
  <2>1. \A k \in 1 .. Len(t) : k + 1 \in 1 .. Len(s) /\ t[k] = s[k + 1]
    BY <1>2
  <2>2. 1 \in 1 .. Len(s)
    BY <1>2
  <2> QED BY <2>1, <2>2 DEF Elems
<1> QED
  BY <1>1, <1>2, <1>3, <1>4

(* The list of names without its last.                                     *)
LEMMA FrontElems ==
    ASSUME NEW S, NEW s \in Seq(S), s # <<>>
    PROVE  /\ Front(s) \in Seq(S) /\ Last(s) \in S
           /\ Elems(s) = Elems(Front(s)) \cup {Last(s)}
<1>1. Len(s) \in Nat /\ Len(s) >= 1 /\ Last(s) = s[Len(s)] /\ Len(s) \in 1 .. Len(s)
  BY DEF Last
<1>2. PICK f : f = Front(s)
  OBVIOUS
<1>3. f \in Seq(S) /\ Len(f) = Len(s) - 1 /\ \A k \in 1 .. Len(s) - 1 : f[k] = s[k]
  <2>1. PICK m : m = Len(s) - 1
    OBVIOUS
  <2>2. f = SubSeq(s, 1, m)
    BY <1>2, <2>1 DEF Front
  <2>3. m \in Nat /\ m <= Len(s) /\ m - 1 + 1 = m
    BY <1>1, <2>1
  <2>4. \A k \in 1 .. m : s[k] \in S
    BY <2>3
  <2>5. f \in Seq(S) /\ Len(f) = m
    BY <2>2, <2>3, <2>4
  <2>6. \A k \in 1 .. m : f[k] = s[k]
    BY <2>2, <2>3, <2>4
  <2> QED
    BY <2>1, <2>5, <2>6
<1>4. 1 .. Len(s) = (1 .. Len(f)) \cup {Len(s)}
  BY <1>1, <1>3
<1>5. \A k \in 1 .. Len(f) : k \in 1 .. Len(s) /\ f[k] = s[k]
  BY <1>3
<1>6. Elems(s) = Elems(f) \cup {s[Len(s)]}
  BY <1>4, <1>5 DEF Elems
<1> QED
  BY <1>1, <1>2, <1>3, <1>6

-----------------------------------------------------------------------------
(* Finite sets. *)

(* A non-empty set of natural numbers has a least element. *)
LEMMA LeastNumber ==
    ASSUME NEW T, T \subseteq Nat, T # {}
    PROVE  \E x \in T : \A y \in T : x <= y
<1> DEFINE R == {ss \in Nat \X Nat : ss[1] < ss[2]}
<1>1. IsWellFoundedOn(R, Nat)
  BY NatLessThanWellFounded, Zenon DEF OpToRel
<1>2. \E x \in T : \A y \in T : ~ (<<y, x>> \in R)
  <2> HIDE DEF R
  <2> QED BY <1>1, WFMin, Zenon
<1>3. PICK x \in T : \A y \in T : ~ (<<y, x>> \in R)
  BY <1>2
<1>4. ASSUME NEW y \in T
      PROVE  x <= y
  <2>1. x \in Nat /\ y \in Nat
    OBVIOUS
  <2>2. ~(<<y, x>> \in R)
    BY <1>3
  <2>3. ~(y < x)
    BY <2>1, <2>2
  <2> QED BY <2>1, <2>3
<1> QED
  BY <1>4

(* A non-empty set has an element of the least measure. *)
LEMMA LeastMeasure ==
    ASSUME NEW S, S # {}, NEW f, \A x \in S : f[x] \in Nat
    PROVE  \E x \in S : \A y \in S : f[x] <= f[y]
<1> DEFINE T == {f[x] : x \in S}
<1>1. T \subseteq Nat /\ T # {}
  OBVIOUS
<1>2. PICK m \in T : \A y \in T : m <= y
  <2> HIDE DEF T
  <2> QED BY <1>1, LeastNumber
<1> QED
  BY <1>2

(* The union of a finite family of finite sets is finite. *)
LEMMA FiniteFamily ==
    ASSUME NEW D, IsFiniteSet(D), NEW f, \A x \in D : IsFiniteSet(f[x])
    PROVE  IsFiniteSet(UNION {f[x] : x \in D})
<1> DEFINE I == {f[x] : x \in D}
           g == [x \in D |-> f[x]]
<1>1. g \in Surjection(D, I)
  BY DEF Surjection
<1>2. IsFiniteSet(I)
  <2> HIDE DEF I, g
  <2> QED BY <1>1, FS_Surjection
<1>3. \A T \in I : IsFiniteSet(T)
  OBVIOUS
<1>4. IsFiniteSet(UNION I)
  <2> HIDE DEF I
  <2> QED BY <1>2, <1>3, FS_UNION
<1> QED
  BY <1>4

(* The positions of references. *)
RefPlaces == UNION {DOMAIN ContractOf[h].requires : h \in Hashes}

(* The names, the local nodes and the references of a node are finite in   *)
(* number, and so are all ports and all references.                        *)
LEMMA FiniteFacts ==
    /\ IsFiniteSet(Names) /\ IsFiniteSet(Ids) /\ IsFiniteSet(LocalNodes)
    /\ Cardinality(Ids) = MaxNodes
    /\ IsFiniteSet(PortPlaces) /\ IsFiniteSet(RefPlaces)
    /\ IsFiniteSet(Ids \X PortPlaces) /\ Cardinality(Ids \X PortPlaces) < WordSize
    /\ IsFiniteSet(Ids \X RefPlaces)
<1>1. IsFiniteSet(Names) /\ IsFiniteSet(Hashes) /\ MaxNodes \in Nat
  BY GraphAssumption
<1>2. IsFiniteSet(Ids) /\ Cardinality(Ids) = MaxNodes
  BY <1>1, FS_Interval DEF Ids
<1>3. IsFiniteSet(LocalNodes)
  <2>1. LocalNodes \in SUBSET Ids
    BY DEF LocalNodes
  <2> QED BY <2>1, <1>2, FS_Subset
<1>4. \A h \in Hashes : IsContract(ContractOf[h])
  BY GraphAssumption
<1>5. IsFiniteSet(PortPlaces)
  <2> DEFINE f == [h \in Hashes |-> DOMAIN ContractOf[h].ports]
  <2>1. ASSUME NEW h \in Hashes PROVE IsFiniteSet(f[h])
    <3>1. PICK s : s = ContractOf[h].ports /\ s \in Seq(PortDecl)
      BY <1>4 DEF IsContract
    <3>2. f[h] = 1 .. Len(s) /\ Len(s) \in Int /\ 1 \in Int
      BY <3>1
    <3> HIDE DEF f
    <3> QED BY <3>2, FS_Interval
  <2>2. PortPlaces = UNION {f[h] : h \in Hashes}
    BY DEF PortPlaces
  <2> HIDE DEF f
  <2> QED BY <1>1, <2>1, <2>2, FiniteFamily
<1>6. IsFiniteSet(RefPlaces)
  <2> DEFINE f == [h \in Hashes |-> DOMAIN ContractOf[h].requires]
  <2>1. ASSUME NEW h \in Hashes PROVE IsFiniteSet(f[h])
    <3>1. PICK s : s = ContractOf[h].requires /\ s \in Seq(Reference)
      BY <1>4 DEF IsContract
    <3>2. f[h] = 1 .. Len(s) /\ Len(s) \in Int /\ 1 \in Int
      BY <3>1
    <3> HIDE DEF f
    <3> QED BY <3>2, FS_Interval
  <2>2. RefPlaces = UNION {f[h] : h \in Hashes}
    BY DEF RefPlaces
  <2> HIDE DEF f
  <2> QED BY <1>1, <2>1, <2>2, FiniteFamily
<1>7. IsFiniteSet(Ids \X PortPlaces)
      /\ Cardinality(Ids \X PortPlaces) = MaxNodes * Cardinality(PortPlaces)
  BY <1>2, <1>5, FS_Product
<1>8. IsFiniteSet(Ids \X RefPlaces)
  BY <1>2, <1>6, FS_Product
<1>9. MaxNodes * Cardinality(PortPlaces) < WordSize
  BY GraphAssumption
<1> QED
  BY <1>1, <1>2, <1>3, <1>5, <1>6, <1>7, <1>8, <1>9

(* A sequence without repetition is as long as its set of elements.        *)
LEMMA DistinctLength ==
    ASSUME NEW s, Distinct(s)
    PROVE  IsFiniteSet(Elems(s)) /\ Cardinality(Elems(s)) = Len(s)
<1>1. s \in Seq(LocalNodes) /\ Len(s) \in Nat
  BY DEF Distinct
<1> DEFINE g == [k \in 1 .. Len(s) |-> s[k]]
<1>2. g \in Bijection(1 .. Len(s), Elems(s))
  BY <1>1 DEF Distinct, Elems, Bijection, Injection, Surjection, IsInjective
<1>3. ExistsBijection(1 .. Len(s), Elems(s))
  <2> HIDE DEF g
  <2> QED BY <1>2 DEF ExistsBijection
<1>4. IsFiniteSet(1 .. Len(s))
  BY <1>1, FS_Interval
<1> QED
  BY <1>1, <1>3, <1>4, FS_CountingElements, FS_Bijection

-----------------------------------------------------------------------------
(* What a node reaches, and cycles. *)

(* A set that has the requirements of a node and is closed has everything  *)
(* the node reaches.                                                       *)
LEMMA ReachLeast ==
    ASSUME GraphTypeOK, NEW i \in LocalNodes, NEW C \in SUBSET Names,
           Elems(RequiredNames(i)) \subseteq C,
           \A j \in LocalNodes : nodes[j].name \in C => Elems(RequiredNames(j)) \subseteq C
    PROVE  Reaches(i) \subseteq C
<1>1. \A j \in LocalNodes : ToSet(RequiredNames(j)) = Elems(RequiredNames(j))
  BY RequiredFacts, ToSetElems
<1>2. Closed(C)
  BY <1>1 DEF Closed
<1>3. ToSet(RequiredNames(i)) \subseteq C
  BY <1>1
<1> QED
  BY <1>2, <1>3 DEF Reaches

(* What a node reaches is itself such a set.                               *)
LEMMA ReachFacts ==
    ASSUME GraphTypeOK, NEW i \in LocalNodes
    PROVE  /\ Reaches(i) \in SUBSET Names
           /\ IsFiniteSet(Reaches(i)) /\ Cardinality(Reaches(i)) \in Nat
           /\ Cardinality(Reaches(i)) <= Cardinality(Names)
           /\ Elems(RequiredNames(i)) \subseteq Reaches(i)
           /\ \A j \in LocalNodes : nodes[j].name \in Reaches(i) =>
                Elems(RequiredNames(j)) \subseteq Reaches(i) /\ Reaches(j) \subseteq Reaches(i)
<1>1. \A j \in LocalNodes : ToSet(RequiredNames(j)) = Elems(RequiredNames(j))
                       /\ Elems(RequiredNames(j)) \subseteq Names
  BY RequiredFacts, ToSetElems
<1>2. Reaches(i) \in SUBSET Names
  BY DEF Reaches
<1>3. IsFiniteSet(Reaches(i)) /\ Cardinality(Reaches(i)) \in Nat
      /\ Cardinality(Reaches(i)) <= Cardinality(Names)
  BY <1>2, FiniteFacts, FS_Subset, FS_CardinalityType
<1>4. Elems(RequiredNames(i)) \subseteq Reaches(i)
  BY <1>1 DEF Reaches
<1>5. ASSUME NEW j \in LocalNodes, nodes[j].name \in Reaches(i)
      PROVE  Elems(RequiredNames(j)) \subseteq Reaches(i)
  <2> SUFFICES ASSUME NEW n \in Elems(RequiredNames(j)), NEW C \in SUBSET Names,
                      ToSet(RequiredNames(i)) \subseteq C, Closed(C)
               PROVE  n \in C
    BY <1>1 DEF Reaches
  <2>1. nodes[j].name \in C
    BY <1>5 DEF Reaches
  <2>2. ToSet(RequiredNames(j)) \subseteq C
    BY <2>1 DEF Closed
  <2> QED
    BY <2>2, <1>1
<1>6. ASSUME NEW j \in LocalNodes, nodes[j].name \in Reaches(i)
      PROVE  Reaches(j) \subseteq Reaches(i)
  <2>1. Elems(RequiredNames(j)) \subseteq Reaches(i)
    BY <1>5, <1>6
  <2> QED
    BY <2>1, <1>2, <1>5, ReachLeast
<1> QED
  BY <1>2, <1>3, <1>4, <1>5, <1>6

(* A node depends on the local nodes whose names it requires.              *)
LEMMA DepFacts ==
    ASSUME GraphTypeOK, NEW i \in LocalNodes, NEW d \in LocalNodes
    PROVE  d \in LocalDeps(i) <=> nodes[d].name \in Elems(RequiredNames(i))
<1>1. PICK r : r = Requires(i) /\ r \in Seq(Reference) /\ DOMAIN r = 1 .. Len(r)
  BY NodeFacts
<1>2. RefsTo(i, d) = {k \in 1 .. Len(r) : r[k].name = nodes[d].name}
  BY <1>1 DEF RefsTo
<1>3. Elems(RequiredNames(i)) = {r[k].name : k \in 1 .. Len(r)}
  BY <1>1, RequiredFacts
<1>4. d \in LocalDeps(i) <=> \E k \in 1 .. Len(r) : r[k].name = nodes[d].name
  BY <1>2 DEF LocalDeps
<1> QED
  BY <1>3, <1>4

(* If every node of a set depends on a node of the set, one of them        *)
(* reaches itself: one that reaches as little as any.                      *)
LEMMA CycleForward ==
    ASSUME GraphTypeOK, NEW S, S \subseteq LocalNodes, S # {},
           \A i \in S : \E d \in S : d \in LocalDeps(i)
    PROVE  RequiresCycle
<1> DEFINE f == [i \in S |-> Cardinality(Reaches(i))]
<1>1. \A i \in S : f[i] = Cardinality(Reaches(i)) /\ f[i] \in Nat
  BY ReachFacts
<1>2. PICK i \in S : \A j \in S : f[i] <= f[j]
  <2> HIDE DEF f
  <2> QED BY <1>1, LeastMeasure
<1> HIDE DEF f
<1>3. PICK d \in S : d \in LocalDeps(i)
  OBVIOUS
<1>4. i \in LocalNodes /\ d \in LocalNodes
  OBVIOUS
<1>5. nodes[d].name \in Reaches(i)
  BY <1>3, <1>4, DepFacts, ReachFacts
<1>6. Reaches(d) \in SUBSET Reaches(i)
  BY <1>4, <1>5, ReachFacts
<1>7. Cardinality(Reaches(d)) <= Cardinality(Reaches(i)) /\ IsFiniteSet(Reaches(i))
  BY <1>4, <1>6, ReachFacts, FS_Subset
<1>8. Cardinality(Reaches(d)) = Cardinality(Reaches(i))
  BY <1>1, <1>2, <1>7
<1>9. Reaches(d) = Reaches(i)
  BY <1>6, <1>7, <1>8, FS_Subset
<1> QED
  BY <1>4, <1>5, <1>9 DEF RequiresCycle

(* The same if for every node of a set one of the set depends on it: one   *)
(* that reaches as much as any reaches itself.                             *)
LEMMA CycleBackward ==
    ASSUME GraphTypeOK, NEW S, S \subseteq LocalNodes, S # {},
           \A d \in S : \E i \in S : d \in LocalDeps(i)
    PROVE  RequiresCycle
<1> DEFINE f == [i \in S |-> Cardinality(Names) - Cardinality(Reaches(i))]
<1>1. \A i \in S : f[i] = Cardinality(Names) - Cardinality(Reaches(i)) /\ f[i] \in Nat
                   /\ Cardinality(Reaches(i)) \in Nat
  <2>1. Cardinality(Names) \in Nat
    BY FiniteFacts, FS_CardinalityType
  <2>2. \A i \in S : Cardinality(Reaches(i)) \in Nat /\ Cardinality(Reaches(i)) <= Cardinality(Names)
    BY ReachFacts
  <2> QED BY <2>1, <2>2
<1>2. PICK d \in S : \A j \in S : f[d] <= f[j]
  <2> HIDE DEF f
  <2> QED BY <1>1, LeastMeasure
<1> HIDE DEF f
<1>3. PICK i \in S : d \in LocalDeps(i)
  OBVIOUS
<1>4. i \in LocalNodes /\ d \in LocalNodes
  OBVIOUS
<1>5. nodes[d].name \in Reaches(i)
  BY <1>3, <1>4, DepFacts, ReachFacts
<1>6. Reaches(d) \in SUBSET Reaches(i)
  BY <1>4, <1>5, ReachFacts
<1>7. Cardinality(Reaches(d)) <= Cardinality(Reaches(i)) /\ IsFiniteSet(Reaches(i))
  BY <1>4, <1>6, ReachFacts, FS_Subset
<1>8. Cardinality(Reaches(d)) = Cardinality(Reaches(i))
  <2>1. Cardinality(Names) \in Nat
    BY FiniteFacts, FS_CardinalityType
  <2>2. f[d] <= f[i]
    BY <1>2
  <2> QED BY <1>1, <1>7, <2>1, <2>2
<1>9. Reaches(d) = Reaches(i)
  BY <1>6, <1>7, <1>8, FS_Subset
<1> QED
  BY <1>4, <1>5, <1>9 DEF RequiresCycle

(* On a cycle, every node that is reached is required by a node that is.   *)
LEMMA CycleSet ==
    ASSUME GraphTypeOK, RequiresCycle
    PROVE  \E S : /\ S \subseteq LocalNodes /\ S # {}
                  /\ \A d \in S : \E i \in S : d \in LocalDeps(i)
<1>1. PICK i \in LocalNodes : nodes[i].name \in Reaches(i)
  BY DEF RequiresCycle
<1> DEFINE S == {d \in LocalNodes : nodes[d].name \in Reaches(i)}
<1>2. ASSUME NEW d \in S, \A j \in S : d \notin LocalDeps(j)
      PROVE  FALSE
  <2> DEFINE C == Reaches(i) \ {nodes[d].name}
  <2>1. C \in SUBSET Names
    BY ReachFacts
  <2>2. ASSUME NEW j \in LocalNodes, j \in S
        PROVE  Elems(RequiredNames(j)) \subseteq C
    <3>1. Elems(RequiredNames(j)) \subseteq Reaches(i)
      BY <2>2, ReachFacts
    <3>2. nodes[d].name \notin Elems(RequiredNames(j))
      BY <1>2, <2>2, DepFacts
    <3> QED BY <3>1, <3>2
  <2>3. i \in S
    BY <1>1
  <2>4. \A j \in LocalNodes : nodes[j].name \in C => Elems(RequiredNames(j)) \subseteq C
    BY <2>2
  <2>5. Elems(RequiredNames(i)) \subseteq C
    BY <2>2, <2>3
  <2>6. Reaches(i) \subseteq C
    <3> HIDE DEF C
    <3> QED BY <2>1, <2>4, <2>5, ReachLeast
  <2> QED BY <2>6
<1>3. S \subseteq LocalNodes /\ S # {}
  BY <1>1
<1> QED
  BY <1>2, <1>3

(* After the nodes in E are emitted, the in-degree of a node is 0 exactly  *)
(* if every node that depends on it is in E.                               *)
LEMMA UnreferencedFacts ==
    ASSUME GraphTypeOK, NEW E, E \subseteq LocalNodes, NEW d \in LocalNodes
    PROVE  d \in Unreferenced(E) <=> \A i \in LocalNodes : d \in LocalDeps(i) => i \in E
<1>1. \A i \in LocalNodes : RefsTo(i, d) \subseteq RefPlaces
  <2> TAKE i \in LocalNodes
  <2>1. nodes[i].hash \in Hashes
    BY NodeFacts
  <2> QED BY <2>1 DEF RefsTo, RefPlaces, Requires
<1>2. \A x : x \in References(d, LocalNodes) <=>
              \E i \in LocalNodes : \E k \in RefsTo(i, d) : x = <<i, k>>
  BY DEF References
<1>3. \A x : x \in References(d, E) <=>
              \E i \in E : \E k \in RefsTo(i, d) : x = <<i, k>>
  BY DEF References
<1>4. References(d, LocalNodes) \in SUBSET (Ids \X RefPlaces)
  <2>1. LocalNodes \subseteq Ids
    BY DEF LocalNodes
  <2> QED BY <2>1, <1>1, <1>2
<1>5. References(d, E) \in SUBSET References(d, LocalNodes)
  BY <1>2, <1>3
<1>6. IsFiniteSet(References(d, LocalNodes)) /\ Cardinality(References(d, LocalNodes)) \in Nat
      /\ Cardinality(References(d, E)) \in Nat
  BY <1>4, <1>5, FiniteFacts, FS_Subset, FS_CardinalityType
<1>7. d \in Unreferenced(E) <=> References(d, LocalNodes) = References(d, E)
  <2>1. d \in Unreferenced(E) <=>
          Cardinality(References(d, LocalNodes)) - Cardinality(References(d, E)) = 0
    BY DEF Unreferenced
  <2>2. Cardinality(References(d, LocalNodes)) = Cardinality(References(d, E)) =>
          References(d, LocalNodes) = References(d, E)
    BY <1>5, <1>6, FS_Subset
  <2> QED BY <1>6, <2>1, <2>2
<1>8. \A i \in LocalNodes : d \in LocalDeps(i) <=> RefsTo(i, d) # {}
  BY DEF LocalDeps
<1>9. ASSUME References(d, LocalNodes) = References(d, E), NEW i \in LocalNodes, d \in LocalDeps(i)
      PROVE  i \in E
  <2>1. PICK k : k \in RefsTo(i, d)
    BY <1>8, <1>9
  <2>2. <<i, k>> \in References(d, E)
    BY <1>2, <1>9, <2>1
  <2> QED BY <1>3, <2>2
<1>10. ASSUME \A i \in LocalNodes : d \in LocalDeps(i) => i \in E
       PROVE  References(d, LocalNodes) = References(d, E)
  <2>1. \A x \in References(d, LocalNodes) : x \in References(d, E)
    BY <1>2, <1>3, <1>8, <1>10
  <2> QED BY <2>1, <1>5
<1> QED
  BY <1>7, <1>9, <1>10

(* check_circular_dependencies reports a cycle exactly when there is one.  *)
LEMMA CircularExact ==
    ASSUME GraphTypeOK
    PROVE  Circular <=> RequiresCycle
<1>1. Emitted \in SUBSET LocalNodes
  BY DEF Emitted
<1>2. IsFiniteSet(LocalNodes) /\ Cardinality(Emitted) <= Cardinality(LocalNodes)
      /\ Cardinality(LocalNodes) \in Nat /\ Cardinality(Emitted) \in Nat
      /\ (Cardinality(LocalNodes) = Cardinality(Emitted) => LocalNodes = Emitted)
  BY <1>1, FiniteFacts, FS_Subset, FS_CardinalityType
<1>3. Circular <=> Emitted # LocalNodes
  BY <1>2 DEF Circular
<1>4. ASSUME NEW d \in LocalNodes, \A i \in LocalNodes : d \in LocalDeps(i) => i \in Emitted
      PROVE  d \in Emitted
  <2> SUFFICES ASSUME NEW E \in SUBSET LocalNodes, Unreferenced(E) \subseteq E
               PROVE  d \in E
    BY DEF Emitted
  <2>1. Emitted \subseteq E
    BY DEF Emitted
  <2>2. d \in Unreferenced(E)
    BY <1>4, <2>1, UnreferencedFacts
  <2> QED BY <2>2
<1>5. ASSUME Emitted # LocalNodes
      PROVE  RequiresCycle
  <2> DEFINE S == LocalNodes \ Emitted
  <2>1. S \subseteq LocalNodes /\ S # {}
    BY <1>1, <1>5
  <2>2. \A d \in S : \E i \in S : d \in LocalDeps(i)
    BY <1>4
  <2> HIDE DEF S
  <2> QED BY <2>1, <2>2, CycleBackward
<1>6. ASSUME RequiresCycle
      PROVE  Emitted # LocalNodes
  <2>1. PICK S : /\ S \subseteq LocalNodes /\ S # {}
                 /\ \A d \in S : \E i \in S : d \in LocalDeps(i)
    BY <1>6, CycleSet
  <2> DEFINE E == LocalNodes \ S
  <2>2. E \in SUBSET LocalNodes
    OBVIOUS
  <2>3. ASSUME NEW d \in Unreferenced(E)
        PROVE  d \in E
    <3>1. d \in LocalNodes
      BY DEF Unreferenced
    <3>2. \A i \in LocalNodes : d \in LocalDeps(i) => i \in E
      BY <2>2, <2>3, <3>1, UnreferencedFacts
    <3> QED BY <2>1, <3>1, <3>2
  <2>4. Emitted \subseteq E
    <3> HIDE DEF E
    <3> QED BY <2>2, <2>3 DEF Emitted
  <2> QED BY <2>1, <2>4
<1> QED
  BY <1>3, <1>5, <1>6

-----------------------------------------------------------------------------
(* The topological sort. *)

(* A name of a local node finds that node.                                 *)
LEMMA FindFacts ==
    ASSUME NamesUnique, NEW d \in LocalNodes
    PROVE  FindNode(nodes[d].name) = {d}
BY DEF NamesUnique, FindNode

(* The references of node j that the sort still counts when the nodes in D *)
(* are in the order: there are none exactly if D has all dependencies of   *)
(* j, and a further node takes away the references to it.                  *)
LEMMA WaitingFacts ==
    ASSUME GraphTypeOK, NamesUnique, NEW j \in LocalNodes, NEW D, D \subseteq LocalNodes
    PROVE  /\ IsFiniteSet(Waiting(j, D)) /\ Cardinality(Waiting(j, D)) \in Nat
           /\ Cardinality(Waiting(j, D)) = 0 <=> LocalDeps(j) \subseteq D
           /\ Waiting(j, {}) = LocalRefs(j)
           /\ \A i \in LocalNodes \ D :
                /\ Cardinality(RefsTo(j, i)) \in Nat
                /\ Cardinality(Waiting(j, D \cup {i}))
                     = Cardinality(Waiting(j, D)) - Cardinality(RefsTo(j, i))
<1>1. PICK r : r = Requires(j) /\ r \in Seq(Reference) /\ DOMAIN r = 1 .. Len(r) /\ Len(r) \in Nat
  BY NodeFacts
<1>2. \A k : k \in LocalRefs(j) <=> k \in 1 .. Len(r) /\ \E d \in LocalNodes : nodes[d].name = r[k].name
  BY <1>1 DEF LocalRefs, FindNode
<1>3. \A d \in LocalNodes : \A k : k \in RefsTo(j, d) <=> k \in 1 .. Len(r) /\ nodes[d].name = r[k].name
  BY <1>1 DEF RefsTo
<1>4. ASSUME NEW F, F \subseteq LocalNodes, NEW k
      PROVE  k \in Waiting(j, F) <=>
               k \in 1 .. Len(r) /\ \E d \in LocalNodes \ F : nodes[d].name = r[k].name
  <2>1. k \in Waiting(j, F) <=> k \in LocalRefs(j) /\ FindNode(r[k].name) \cap F = {}
    BY <1>1 DEF Waiting
  <2>2. ASSUME NEW d \in LocalNodes, nodes[d].name = r[k].name
        PROVE  FindNode(r[k].name) = {d}
    BY <2>2, FindFacts
  <2> QED BY <1>2, <2>1, <2>2
<1>5. ASSUME NEW W, W \subseteq 1 .. Len(r)
      PROVE  IsFiniteSet(W) /\ Cardinality(W) \in Nat
  <2>1. IsFiniteSet(1 .. Len(r)) /\ W \in SUBSET (1 .. Len(r))
    BY <1>1, <1>5, FS_Interval
  <2> QED BY <2>1, FS_Subset, FS_CardinalityType
<1>6. \A F \in SUBSET LocalNodes : Waiting(j, F) \subseteq 1 .. Len(r)
  BY <1>4
<1>7. IsFiniteSet(Waiting(j, D)) /\ Cardinality(Waiting(j, D)) \in Nat
  BY <1>5, <1>6
<1>8. Cardinality(Waiting(j, D)) = 0 <=> LocalDeps(j) \subseteq D
  <2>1. Cardinality(Waiting(j, D)) = 0 <=> Waiting(j, D) = {}
    BY <1>7, FS_EmptySet
  <2>2. \A d : d \in LocalDeps(j) <=> d \in LocalNodes /\ \E k : k \in RefsTo(j, d)
    BY DEF LocalDeps
  <2>3. ASSUME Waiting(j, D) = {}, NEW d \in LocalDeps(j)
        PROVE  d \in D
    BY <1>3, <1>4, <2>2, <2>3
  <2>4. ASSUME LocalDeps(j) \subseteq D, NEW k \in Waiting(j, D)
        PROVE  FALSE
    <3>1. PICK d \in LocalNodes \ D : k \in 1 .. Len(r) /\ nodes[d].name = r[k].name
      BY <1>4, <2>4
    <3>2. k \in RefsTo(j, d)
      BY <1>3, <3>1
    <3> QED BY <2>2, <2>4, <3>1, <3>2
  <2> QED BY <2>1, <2>3, <2>4
<1>9. Waiting(j, {}) = LocalRefs(j)
  <2>1. \A k : k \in Waiting(j, {}) <=> k \in LocalRefs(j)
    BY <1>2, <1>4
  <2> QED BY <2>1
<1>10. ASSUME NEW i \in LocalNodes \ D
       PROVE  /\ Cardinality(RefsTo(j, i)) \in Nat
              /\ Cardinality(Waiting(j, D \cup {i}))
                   = Cardinality(Waiting(j, D)) - Cardinality(RefsTo(j, i))
  <2>1. RefsTo(j, i) \subseteq 1 .. Len(r)
    BY <1>3
  <2>2. \A d \in LocalNodes : nodes[d].name = nodes[i].name => d = i
    BY DEF NamesUnique
  <2>3. D \cup {i} \subseteq LocalNodes
    OBVIOUS
  <2>4. \A k : k \in Waiting(j, D \cup {i}) <=> k \in Waiting(j, D) /\ k \notin RefsTo(j, i)
    <3> TAKE k
    <3>1. k \in Waiting(j, D \cup {i}) <=>
            k \in 1 .. Len(r) /\ \E d \in LocalNodes \ (D \cup {i}) : nodes[d].name = r[k].name
      BY <1>4, <2>3
    <3>2. k \in Waiting(j, D) <=>
            k \in 1 .. Len(r) /\ \E d \in LocalNodes \ D : nodes[d].name = r[k].name
      BY <1>4
    <3>3. k \in RefsTo(j, i) <=> k \in 1 .. Len(r) /\ nodes[i].name = r[k].name
      BY <1>3
    <3> QED BY <2>2, <3>1, <3>2, <3>3
  <2>5. \A k \in RefsTo(j, i) : k \in Waiting(j, D)
    BY <1>3, <1>4
  <2>6. Waiting(j, D \cup {i}) = Waiting(j, D) \ RefsTo(j, i)
        /\ Waiting(j, D) \cap RefsTo(j, i) = RefsTo(j, i)
    BY <2>4, <2>5
  <2>7. Cardinality(Waiting(j, D) \ RefsTo(j, i))
          = Cardinality(Waiting(j, D)) - Cardinality(Waiting(j, D) \cap RefsTo(j, i))
    BY <1>7, FS_Difference
  <2> QED BY <1>5, <2>1, <2>6, <2>7
<1> QED
  BY <1>7, <1>8, <1>9, <1>10

(* A sequence of the elements of a set has each of them once.              *)
LEMMA SetToSeqsFacts ==
    ASSUME NEW A, A \subseteq LocalNodes, NEW q \in SetToSeqs(A)
    PROVE  Distinct(q) /\ Elems(q) = A
<1>1. IsFiniteSet(A) /\ Cardinality(A) \in Nat
  BY FiniteFacts, FS_Subset, FS_CardinalityType
<1>2. PICK n : n = Cardinality(A)
  OBVIOUS
<1>3. n \in Nat /\ q \in [1 .. n -> A] /\ \A k, l \in 1 .. n : k # l => q[k] # q[l]
  BY <1>1, <1>2 DEF SetToSeqs
<1>4. q \in Seq(LocalNodes) /\ Len(q) = n
  BY <1>3
<1>5. Distinct(q)
  BY <1>3, <1>4 DEF Distinct
<1>6. q \in Injection(1 .. n, A)
  BY <1>3 DEF Injection, IsInjective
<1>7. Cardinality(1 .. n) = n
  BY <1>3, FS_Interval
<1>8. q \in Surjection(1 .. n, A)
  BY <1>1, <1>2, <1>6, <1>7, FS_Injection
<1>9. Elems(q) = A
  BY <1>3, <1>4, <1>8 DEF Elems, Surjection
<1> QED
  BY <1>5, <1>9

(* The invariant of the sort speaks of the nodes and the sort only.        *)
LEMMA SortKept ==
    ASSUME nodes' = nodes, NEW s, sort' = s, SortOK(s)
    PROVE  SortInv'
<1>1. LocalNodes' = LocalNodes
  BY DEF LocalNodes
<1>2. \A i : Requires(i)' = Requires(i)
  BY DEF Requires
<1>3. \A n : FindNode(n)' = FindNode(n)
  BY <1>1 DEF FindNode
<1>4. \A i, d : RefsTo(i, d)' = RefsTo(i, d)
  BY <1>2 DEF RefsTo
<1>5. \A i : LocalDeps(i)' = LocalDeps(i)
  BY <1>1, <1>4 DEF LocalDeps
<1>6. \A i : LocalRefs(i)' = LocalRefs(i)
  <2> TAKE i
  <2>1. PICK r : r = Requires(i) /\ r = Requires(i)'
    BY <1>2
  <2>2. LocalRefs(i) = {k \in DOMAIN r : FindNode(r[k].name) # {}}
    BY <2>1 DEF LocalRefs
  <2>3. LocalRefs(i)' = {k \in DOMAIN r : FindNode(r[k].name)' # {}}
    BY <2>1 DEF LocalRefs
  <2> QED BY <1>3, <2>2, <2>3
<1>7. \A j, D : Waiting(j, D)' = Waiting(j, D)
  <2> TAKE j, D
  <2>1. PICK r : r = Requires(j) /\ r = Requires(j)'
    BY <1>2
  <2>2. Waiting(j, D) = {k \in LocalRefs(j) : FindNode(r[k].name) \cap D = {}}
    BY <2>1 DEF Waiting
  <2>3. Waiting(j, D)' = {k \in LocalRefs(j)' : FindNode(r[k].name)' \cap D = {}}
    BY <2>1 DEF Waiting
  <2> QED BY <1>3, <1>6, <2>2, <2>3
<1>8. \A t : Distinct(t)' <=> Distinct(t)
  BY <1>1 DEF Distinct
<1>9. \A t : Sorted(t)' <=> Sorted(t)
  BY <1>5 DEF Sorted
<1>10. SortSound(s)' <=> SortSound(s)
  BY <1>1, <1>7, <1>8, <1>9 DEF SortSound, Elems
<1>11. SortOK(s)'
  BY <1>1, <1>10 DEF SortOK, NoSort, Elems
<1> QED
  BY <1>11 DEF SortInv

(* The queue starts with the nodes that have no local dependency.          *)
LEMMA SortStartInv ==
    ASSUME GraphTypeOK, NamesUnique, SortStart
    PROVE  SortInv' /\ sort' \in Sort
<1> DEFINE deg == [i \in Ids |-> IF i \in LocalNodes THEN Cardinality(LocalRefs(i)) ELSE 0]
           A == {i \in LocalNodes : deg[i] = 0}
<1>1. PICK q \in SetToSeqs(A) :
        sort' = [at |-> "running", queue |-> q, deg |-> deg, order |-> <<>>]
  BY DEF SortStart
<1>2. nodes' = nodes
  BY DEF SortStart
<1>3. \A j \in LocalNodes : deg[j] = Cardinality(LocalRefs(j))
  BY DEF LocalNodes
<1>4. A \subseteq LocalNodes
  OBVIOUS
<1>5. \A j \in LocalNodes : j \in A <=> deg[j] = 0
  OBVIOUS
<1> HIDE DEF A, deg
<1>6. Distinct(q) /\ Elems(q) = A
  BY <1>1, <1>4, SetToSeqsFacts
<1>7. Distinct(<<>>) /\ Sorted(<<>>) /\ Elems(<<>>) = {}
  BY DEF Distinct, Sorted, Elems
<1>8. PICK s : s = [at |-> "running", queue |-> q, deg |-> deg, order |-> <<>>]
  OBVIOUS
<1>9. s.at = "running" /\ s.queue = q /\ s.deg = deg /\ s.order = <<>>
  BY <1>8
<1>10. \A j \in LocalNodes : Waiting(j, {}) = LocalRefs(j)
  BY WaitingFacts
<1>11. SortSound(s)
  BY <1>3, <1>5, <1>6, <1>7, <1>9, <1>10 DEF SortSound
<1>12. SortOK(s)
  BY <1>9, <1>11 DEF SortOK
<1>13. deg \in [Ids -> Nat]
  <2>1. \A j \in LocalNodes : Cardinality(LocalRefs(j)) \in Nat
    BY <1>10, WaitingFacts
  <2> QED BY <2>1 DEF deg
<1>14. q \in Seq(Ids) /\ <<>> \in Seq(Ids)
  <2>1. q \in Seq(LocalNodes) /\ LocalNodes \subseteq Ids
    BY <1>6 DEF Distinct, LocalNodes
  <2> QED BY <2>1
<1>15. sort' \in Sort
  BY <1>1, <1>13, <1>14 DEF Sort
<1> QED
  BY <1>1, <1>2, <1>8, <1>12, <1>15, SortKept

(* A step of the sort moves the head of the queue to the order and queues  *)
(* the nodes whose last reference it was.                                  *)
LEMMA SortPopInv ==
    ASSUME GraphTypeOK, NamesUnique, SortInv, SortPop
    PROVE  SortInv' /\ sort' \in Sort
<1>1. sort.at = "running" /\ sort.queue # <<>> /\ nodes' = nodes
  BY DEF SortPop
<1>2. PICK Q, O, D : Q = sort.queue /\ O = sort.order /\ D = sort.deg
  OBVIOUS
<1>3. SortSound(sort)
  BY <1>1 DEF SortInv, SortOK
<1>4. /\ Distinct(O) /\ Sorted(O) /\ Distinct(Q) /\ Elems(Q) \cap Elems(O) = {}
      /\ \A j \in LocalNodes :
           /\ D[j] = Cardinality(Waiting(j, Elems(O)))
           /\ D[j] = 0 <=> j \in Elems(Q) \cup Elems(O)
  BY <1>2, <1>3 DEF SortSound
<1>5. PICK i : i = Head(sort.queue)
  OBVIOUS
<1> DEFINE hd == Head(sort.queue)
           deg == [j \in Ids |-> IF j \in LocalNodes
                                THEN sort.deg[j] - Cardinality(RefsTo(j, hd)) ELSE 0]
           A == {j \in LocalNodes : sort.deg[j] > 0 /\ deg[j] = 0}
<1>6. PICK new \in SetToSeqs(A) :
        sort' = [sort EXCEPT !.queue = Tail(sort.queue) \o new, !.deg = deg,
                             !.order = Append(@, hd)]
  BY Zenon DEF SortPop
<1>7. PICK s : s = sort'
  OBVIOUS
<1>8. s.at = "running" /\ s.queue = Tail(Q) \o new /\ s.deg = deg /\ s.order = Append(O, i)
  <2>1. sort \in Sort
    BY DEF GraphTypeOK
  <2>2. DOMAIN sort = {"at", "queue", "deg", "order"}
    BY <2>1 DEF Sort
  <2> QED BY <1>1, <1>2, <1>5, <1>6, <1>7, <2>2
<1>9. \A j \in LocalNodes : deg[j] = D[j] - Cardinality(RefsTo(j, i))
  BY <1>2, <1>5 DEF LocalNodes
<1>10. A \subseteq LocalNodes /\ \A j \in LocalNodes : j \in A <=> D[j] > 0 /\ deg[j] = 0
  BY <1>2
<1> HIDE DEF deg, A
<1>11. Distinct(new) /\ Elems(new) = A
  BY <1>10, SetToSeqsFacts
<1>12. O \in Seq(LocalNodes) /\ Q \in Seq(LocalNodes) /\ new \in Seq(LocalNodes) /\ Q # <<>>
  BY <1>1, <1>2, <1>4, <1>11 DEF Distinct
<1>13. /\ Tail(Q) \in Seq(LocalNodes) /\ Len(Tail(Q)) = Len(Q) - 1 /\ Len(Q) >= 1
       /\ \A k \in 1 .. Len(Q) - 1 : Tail(Q)[k] = Q[k + 1]
       /\ i = Q[1] /\ i \in LocalNodes
       /\ Elems(Q) = Elems(Tail(Q)) \cup {i}
  BY <1>2, <1>5, <1>12, TailElems
<1>14. \A k, l \in 1 .. Len(Q) : Q[k] = Q[l] => k = l
  BY <1>4 DEF Distinct
<1>15. \A k, l \in 1 .. Len(O) : O[k] = O[l] => k = l
  BY <1>4 DEF Distinct
<1>16. \A k, l \in 1 .. Len(new) : new[k] = new[l] => k = l
  BY <1>11 DEF Distinct
<1>17. i \in Elems(Q) /\ i \notin Elems(O)
  BY <1>4, <1>13
<1>18. i \notin Elems(Tail(Q))
  <2> SUFFICES ASSUME NEW k \in 1 .. Len(Tail(Q)), Tail(Q)[k] = i PROVE FALSE
    BY DEF Elems
  <2>1. k + 1 \in 1 .. Len(Q) /\ k \in 1 .. Len(Q) - 1 /\ 1 \in 1 .. Len(Q) /\ k + 1 # 1
    BY <1>12, <1>13
  <2>2. Q[k + 1] = Q[1]
    BY <1>13, <2>1
  <2> QED BY <1>14, <2>1, <2>2
<1>19. PICK O2 : O2 = Append(O, i)
  OBVIOUS
<1>20. /\ O2 \in Seq(LocalNodes) /\ Len(O2) = Len(O) + 1 /\ Len(O) \in Nat
       /\ \A k \in 1 .. Len(O) : O2[k] = O[k]
       /\ O2[Len(O) + 1] = i
       /\ Elems(O2) = Elems(O) \cup {i}
  BY <1>12, <1>13, <1>19, AppendElems
<1>21. Distinct(O2)
  <2>1. \A k \in 1 .. Len(O) : O[k] # i
    BY <1>17 DEF Elems
  <2>2. ASSUME NEW k \in 1 .. Len(O2), NEW l \in 1 .. Len(O2), O2[k] = O2[l]
        PROVE  k = l
    <3>1. (k \in 1 .. Len(O) \/ k = Len(O) + 1) /\ (l \in 1 .. Len(O) \/ l = Len(O) + 1)
      BY <1>20
    <3> QED BY <1>15, <1>20, <2>1, <2>2, <3>1
  <2> QED BY <1>20, <2>2 DEF Distinct
<1>22. Elems(O) \subseteq LocalNodes
  BY <1>12, ToSetElems
<1>23. LocalDeps(i) \subseteq Elems(O)
  BY <1>4, <1>13, <1>17, <1>22, WaitingFacts
<1>24. Sorted(O2)
  <2> SUFFICES ASSUME NEW k \in 1 .. Len(O2), NEW d \in LocalDeps(O2[k])
               PROVE  \E l \in 1 .. k - 1 : d = O2[l]
    BY DEF Sorted
  <2>1. CASE k \in 1 .. Len(O)
    <3>1. PICK l \in 1 .. k - 1 : d = O[l]
      BY <1>4, <1>20, <2>1 DEF Sorted
    <3>2. l \in 1 .. Len(O)
      BY <1>20, <2>1
    <3> QED BY <1>20, <3>1, <3>2
  <2>2. CASE k = Len(O) + 1
    <3>1. d \in Elems(O)
      BY <1>20, <1>23, <2>2
    <3>2. PICK l \in 1 .. Len(O) : d = O[l]
      BY <3>1 DEF Elems
    <3>3. l \in 1 .. k - 1
      BY <1>20, <2>2
    <3> QED BY <1>20, <3>2, <3>3
  <2>3. k \in 1 .. Len(O) \/ k = Len(O) + 1
    BY <1>20
  <2> QED BY <2>1, <2>2, <2>3
<1>25. ASSUME NEW j \in LocalNodes
       PROVE  /\ Cardinality(RefsTo(j, i)) \in Nat /\ D[j] \in Nat /\ deg[j] \in Nat
              /\ deg[j] = Cardinality(Waiting(j, Elems(O2)))
  <2>1. i \in LocalNodes \ Elems(O)
    BY <1>13, <1>17
  <2>2. /\ Cardinality(RefsTo(j, i)) \in Nat
        /\ Cardinality(Waiting(j, Elems(O))) \in Nat
        /\ Cardinality(Waiting(j, Elems(O) \cup {i}))
             = Cardinality(Waiting(j, Elems(O))) - Cardinality(RefsTo(j, i))
    BY <1>22, <2>1, WaitingFacts
  <2>3. Elems(O) \cup {i} \subseteq LocalNodes
    BY <1>13, <1>22
  <2>4. Cardinality(Waiting(j, Elems(O) \cup {i})) \in Nat
    BY <2>3, WaitingFacts
  <2> QED BY <1>4, <1>9, <1>20, <2>2, <2>4
<1>26. ASSUME NEW j \in LocalNodes
       PROVE  deg[j] = 0 <=> j \in Elems(Q) \cup Elems(O) \cup A
  <2>1. D[j] = 0 <=> j \in Elems(Q) \cup Elems(O)
    BY <1>4
  <2>2. D[j] = 0 => deg[j] = 0
    BY <1>9, <1>25
  <2> QED BY <1>10, <1>25, <2>1, <2>2
<1>27. A \cap (Elems(Q) \cup Elems(O)) = {}
  <2> SUFFICES ASSUME NEW j \in A, j \in Elems(Q) \cup Elems(O) PROVE FALSE
    OBVIOUS
  <2>1. j \in LocalNodes /\ D[j] > 0 /\ D[j] = 0
    BY <1>4, <1>10
  <2> QED BY <2>1
<1>28. PICK Q2 : Q2 = Tail(Q) \o new
  OBVIOUS
<1>29. PICK T : T = Tail(Q)
  OBVIOUS
<1>30. /\ Q2 \in Seq(LocalNodes) /\ Len(Q2) = Len(T) + Len(new) /\ Len(T) \in Nat /\ Len(new) \in Nat
       /\ \A k \in 1 .. Len(T) : Q2[k] = T[k]
       /\ \A k \in 1 .. Len(new) : Q2[Len(T) + k] = new[k]
       /\ Elems(Q2) = Elems(T) \cup Elems(new)
  <2>1. T \in Seq(LocalNodes) /\ new \in Seq(LocalNodes) /\ Q2 = T \o new
    BY <1>12, <1>13, <1>28, <1>29
  <2>2. Len(T) \in Nat /\ Len(new) \in Nat
    BY <2>1
  <2> QED BY <2>1, <2>2, ConcatElems
<1>31. \A k, l \in 1 .. Len(T) : T[k] = T[l] => k = l
  <2> SUFFICES ASSUME NEW k \in 1 .. Len(T), NEW l \in 1 .. Len(T), T[k] = T[l] PROVE k = l
    OBVIOUS
  <2>1. k + 1 \in 1 .. Len(Q) /\ l + 1 \in 1 .. Len(Q) /\ k \in 1 .. Len(Q) - 1 /\ l \in 1 .. Len(Q) - 1
    BY <1>12, <1>13, <1>29
  <2>2. Q[k + 1] = Q[l + 1]
    BY <1>13, <1>29, <2>1
  <2>3. k + 1 = l + 1
    BY <1>14, <2>1, <2>2
  <2> QED BY <2>3
<1>32. \A k \in 1 .. Len(T), l \in 1 .. Len(new) : T[k] # new[l]
  <2> SUFFICES ASSUME NEW k \in 1 .. Len(T), NEW l \in 1 .. Len(new), T[k] = new[l] PROVE FALSE
    OBVIOUS
  <2>1. T[k] \in Elems(T) /\ new[l] \in Elems(new)
    BY DEF Elems
  <2> QED BY <1>11, <1>13, <1>27, <1>29, <2>1
<1>33. Distinct(Q2)
  <2>1. ASSUME NEW k \in 1 .. Len(Q2)
        PROVE  \/ k \in 1 .. Len(T) /\ Q2[k] = T[k]
               \/ k - Len(T) \in 1 .. Len(new) /\ Q2[k] = new[k - Len(T)]
    <3>1. k \in 1 .. Len(T) \/ k - Len(T) \in 1 .. Len(new)
      BY <1>30
    <3>2. Len(T) + (k - Len(T)) = k
      BY <1>30
    <3> QED BY <1>30, <3>1, <3>2
  <2>2. ASSUME NEW k \in 1 .. Len(Q2), NEW l \in 1 .. Len(Q2), Q2[k] = Q2[l]
        PROVE  k = l
    <3>1. CASE k \in 1 .. Len(T) /\ Q2[k] = T[k] /\ l \in 1 .. Len(T) /\ Q2[l] = T[l]
      BY <1>31, <2>2, <3>1
    <3>2. CASE /\ k - Len(T) \in 1 .. Len(new) /\ Q2[k] = new[k - Len(T)]
               /\ l - Len(T) \in 1 .. Len(new) /\ Q2[l] = new[l - Len(T)]
      <4>1. k - Len(T) = l - Len(T)
        BY <1>16, <2>2, <3>2
      <4> QED BY <1>30, <4>1
    <3>3. CASE /\ k \in 1 .. Len(T) /\ Q2[k] = T[k]
               /\ l - Len(T) \in 1 .. Len(new) /\ Q2[l] = new[l - Len(T)]
      BY <1>32, <2>2, <3>3
    <3>4. CASE /\ l \in 1 .. Len(T) /\ Q2[l] = T[l]
               /\ k - Len(T) \in 1 .. Len(new) /\ Q2[k] = new[k - Len(T)]
      BY <1>32, <2>2, <3>4
    <3> QED BY <2>1, <3>1, <3>2, <3>3, <3>4
  <2> QED BY <1>30, <2>2 DEF Distinct
<1>34. Elems(Q2) \cap Elems(O2) = {}
  BY <1>4, <1>11, <1>13, <1>17, <1>18, <1>20, <1>27, <1>29, <1>30
<1>35. \A j \in LocalNodes : deg[j] = 0 <=> j \in Elems(Q2) \cup Elems(O2)
  <2>1. Elems(Q2) \cup Elems(O2) = Elems(Q) \cup Elems(O) \cup A
    BY <1>11, <1>13, <1>20, <1>29, <1>30
  <2> QED BY <1>26, <2>1
<1>36. SortSound(s)
  <2>1. s.order = O2 /\ s.queue = Q2 /\ s.deg = deg
    BY <1>8, <1>19, <1>28
  <2> QED BY <1>21, <1>24, <1>25, <1>33, <1>34, <1>35, <2>1 DEF SortSound
<1>37. SortOK(s)
  BY <1>8, <1>36 DEF SortOK
<1>38. deg \in [Ids -> Nat]
  BY <1>25 DEF deg
<1>39. O2 \in Seq(Ids) /\ Q2 \in Seq(Ids)
  <2>1. LocalNodes \subseteq Ids
    BY DEF LocalNodes
  <2> QED BY <1>20, <1>30, <2>1
<1>40. sort' \in Sort
  <2>1. sort \in Sort
    BY DEF GraphTypeOK
  <2>2. sort' = [sort EXCEPT !.queue = Q2, !.deg = deg, !.order = O2]
    BY <1>2, <1>5, <1>6, <1>19, <1>28
  <2> QED BY <1>38, <1>39, <2>1, <2>2 DEF Sort
<1> QED
  BY <1>1, <1>7, <1>37, <1>40, SortKept

(* The sort ends with a cycle exactly if it has not emitted every node.    *)
LEMMA SortEndInv ==
    ASSUME GraphTypeOK, NamesUnique, SortInv, SortEnd
    PROVE  SortInv' /\ sort' \in Sort
<1>1. sort.at = "running" /\ sort.queue = <<>> /\ nodes' = nodes
  BY DEF SortEnd
<1>2. SortSound(sort)
  BY <1>1 DEF SortInv, SortOK
<1>3. PICK s : s = sort'
  OBVIOUS
<1>4. /\ s.queue = sort.queue /\ s.order = sort.order /\ s.deg = sort.deg
      /\ s.at = IF Len(sort.order) < Cardinality(LocalNodes) THEN "cycle" ELSE "ok"
  <2>1. sort \in Sort
    BY DEF GraphTypeOK
  <2>2. DOMAIN sort = {"at", "queue", "deg", "order"}
    BY <2>1 DEF Sort
  <2> QED BY <1>1, <1>3, <2>2 DEF SortEnd
<1>5. SortSound(s)
  BY <1>2, <1>4 DEF SortSound
<1>6. Distinct(sort.order)
  BY <1>2 DEF SortSound
<1>7. IsFiniteSet(Elems(sort.order)) /\ Cardinality(Elems(sort.order)) = Len(sort.order)
  BY <1>6, DistinctLength
<1>8. Elems(sort.order) \in SUBSET LocalNodes
  <2>1. sort.order \in Seq(LocalNodes)
    BY <1>6 DEF Distinct
  <2> QED BY <2>1, ToSetElems
<1>9. /\ Cardinality(Elems(sort.order)) <= Cardinality(LocalNodes)
      /\ Cardinality(Elems(sort.order)) = Cardinality(LocalNodes) => Elems(sort.order) = LocalNodes
      /\ Cardinality(LocalNodes) \in Nat /\ Cardinality(Elems(sort.order)) \in Nat
  BY <1>7, <1>8, FiniteFacts, FS_Subset, FS_CardinalityType
<1>10. Len(sort.order) < Cardinality(LocalNodes) <=> Elems(sort.order) # LocalNodes
  BY <1>7, <1>9
<1>11. SortOK(s)
  <2>1. CASE Len(sort.order) < Cardinality(LocalNodes)
    <3>1. s.at = "cycle" /\ Elems(s.order) # LocalNodes
      BY <1>4, <1>10, <2>1
    <3> QED BY <1>1, <1>4, <1>5, <3>1 DEF SortOK
  <2>2. CASE ~(Len(sort.order) < Cardinality(LocalNodes))
    <3>1. s.at = "ok" /\ Elems(s.order) = LocalNodes
      BY <1>4, <1>10, <2>2
    <3> QED BY <1>1, <1>4, <1>5, <3>1 DEF SortOK
  <2> QED BY <2>1, <2>2
<1>12. sort' \in Sort
  BY DEF SortEnd, GraphTypeOK, Sort
<1> QED
  BY <1>1, <1>3, <1>11, <1>12, SortKept

(* What the invariant of the sort means when it has ended, or not.         *)
LEMMA SortMeaning ==
    ASSUME GraphTypeOK, NamesUnique, SortInv
    PROVE  /\ sort.at = "cycle" => RequiresCycle
           /\ sort.at = "ok" => ~RequiresCycle /\ ToSet(sort.order) = LocalNodes
           /\ IsInjective(sort.order)
           /\ \A k \in DOMAIN sort.order :
                LocalDeps(sort.order[k]) \subseteq {sort.order[l] : l \in 1 .. k - 1}
<1>1. CASE sort.at = "none"
  <2>1. sort.order = <<>>
    BY <1>1 DEF SortInv, SortOK, NoSort
  <2> QED BY <1>1, <2>1 DEF IsInjective
<1>2. CASE sort.at # "none"
  <2>1. SortSound(sort) /\ SortOK(sort)
    BY <1>2 DEF SortInv, SortOK
  <2>2. PICK O : O = sort.order
    OBVIOUS
  <2>3. Distinct(O) /\ Sorted(O)
    BY <2>1, <2>2 DEF SortSound
  <2>4. /\ O \in Seq(LocalNodes) /\ DOMAIN O = 1 .. Len(O) /\ Len(O) \in Nat
        /\ \A k, l \in 1 .. Len(O) : O[k] = O[l] => k = l
    BY <2>3 DEF Distinct
  <2>5. ToSet(O) = Elems(O) /\ Elems(O) \subseteq LocalNodes
    BY <2>4, ToSetElems
  <2>6. ASSUME sort.at = "cycle"
        PROVE  RequiresCycle
    <3>1. sort.queue = <<>> /\ Elems(O) # LocalNodes
      BY <2>1, <2>2, <2>6 DEF SortOK
    <3>2. Elems(sort.queue) = {}
      BY <3>1 DEF Elems
    <3> DEFINE S == LocalNodes \ Elems(O)
    <3>3. S \subseteq LocalNodes /\ S # {}
      BY <2>5, <3>1
    <3>4. ASSUME NEW i \in S
          PROVE  \E d \in S : d \in LocalDeps(i)
      <4>1. Cardinality(Waiting(i, Elems(O))) # 0
        BY <2>1, <2>2, <3>2 DEF SortSound
      <4>2. ~(LocalDeps(i) \subseteq Elems(O))
        BY <2>5, <4>1, WaitingFacts
      <4>3. LocalDeps(i) \subseteq LocalNodes
        BY DEF LocalDeps
      <4> QED BY <4>2, <4>3
    <3> HIDE DEF S
    <3> QED BY <3>3, <3>4, CycleForward
  <2>7. ASSUME sort.at = "ok", NEW i \in LocalNodes, nodes[i].name \in Reaches(i)
        PROVE  FALSE
    <3>1. Elems(O) = LocalNodes
      BY <2>1, <2>2, <2>7 DEF SortOK
    <3>2. PICK k \in 1 .. Len(O) : O[k] = i
      BY <3>1 DEF Elems
    <3> DEFINE C == {n \in Names : FindNode(n) = {} \/ \E l \in 1 .. k - 1 : n = nodes[O[l]].name}
    <3>3. ASSUME NEW l \in 1 .. k
          PROVE  Elems(RequiredNames(O[l])) \subseteq C
      <4> SUFFICES ASSUME NEW n \in Elems(RequiredNames(O[l])), FindNode(n) # {}
                   PROVE  n \in Names /\ \E h \in 1 .. k - 1 : n = nodes[O[h]].name
        <5>1. l \in 1 .. Len(O) /\ O[l] \in LocalNodes
          BY <2>4
        <5>2. Elems(RequiredNames(O[l])) \subseteq Names
          BY <5>1, RequiredFacts
        <5> QED BY <5>2
      <4>1. l \in 1 .. Len(O) /\ O[l] \in LocalNodes
        BY <2>4
      <4>2. n \in Names
        BY <4>1, RequiredFacts
      <4>3. PICK d \in LocalNodes : nodes[d].name = n
        BY DEF FindNode
      <4>4. d \in LocalDeps(O[l])
        BY <4>1, <4>3, DepFacts
      <4>5. PICK h \in 1 .. l - 1 : d = O[h]
        BY <2>3, <4>1, <4>4 DEF Sorted
      <4>6. h \in 1 .. k - 1
        BY <2>4
      <4> QED BY <4>2, <4>3, <4>5, <4>6
    <3>4. k \in 1 .. k
      BY <2>4
    <3>5. Elems(RequiredNames(i)) \subseteq C
      BY <3>2, <3>3, <3>4
    <3>6. ASSUME NEW j \in LocalNodes, nodes[j].name \in C
          PROVE  \E l \in 1 .. k - 1 : j = O[l]
      <4>1. FindNode(nodes[j].name) # {}
        BY FindFacts
      <4>2. PICK l \in 1 .. k - 1 : nodes[j].name = nodes[O[l]].name
        BY <3>6, <4>1
      <4>3. l \in 1 .. Len(O) /\ O[l] \in LocalNodes
        BY <2>4
      <4> QED BY <4>2, <4>3 DEF NamesUnique
    <3>7. \A j \in LocalNodes : nodes[j].name \in C => Elems(RequiredNames(j)) \subseteq C
      <4>1. \A l \in 1 .. k - 1 : l \in 1 .. k
        BY <2>4
      <4> QED BY <3>3, <3>6, <4>1
    <3>8. C \in SUBSET Names
      OBVIOUS
    <3>9. Reaches(i) \subseteq C
      <4> HIDE DEF C
      <4> QED BY <3>5, <3>7, <3>8, ReachLeast
    <3>10. PICK l \in 1 .. k - 1 : i = O[l]
      BY <2>7, <3>6, <3>9
    <3>11. l \in 1 .. Len(O) /\ l # k
      BY <2>4
    <3> QED BY <2>4, <3>2, <3>10, <3>11
  <2>8. sort.at = "ok" => ~RequiresCycle
    BY <2>7 DEF RequiresCycle
  <2>9. sort.at = "ok" => ToSet(sort.order) = LocalNodes
    BY <2>1, <2>2, <2>5 DEF SortOK
  <2>10. IsInjective(O)
    BY <2>4 DEF IsInjective
  <2>11. \A k \in DOMAIN O : LocalDeps(O[k]) \subseteq {O[l] : l \in 1 .. k - 1}
    BY <2>3, <2>4 DEF Sorted
  <2> QED BY <2>2, <2>6, <2>8, <2>9, <2>10, <2>11
<1> QED
  BY <1>1, <1>2

-----------------------------------------------------------------------------
(* The purity check. *)

(* The invariant of the walk speaks of nodes, library and walk only.       *)
LEMMA WalkKept ==
    ASSUME nodes' = nodes, library' = library, NEW w, walk' = w, WalkOK(w)
    PROVE  WalkInv'
<1>1. LocalNodes' = LocalNodes
  BY DEF LocalNodes
<1>2. \A i : Requires(i)' = Requires(i) /\ (Pure(i)' <=> Pure(i))
  BY DEF Requires, Pure
<1>3. \A n : FindNode(n)' = FindNode(n)
  BY <1>1 DEF FindNode
<1>4. \A i : RequiredNames(i)' = RequiredNames(i)
  BY <1>2 DEF RequiredNames
<1>5. \A C : Closed(C)' <=> Closed(C)
  <2> TAKE C
  <2>1. Closed(C) <=> \A j \in LocalNodes : nodes[j].name \in C => ToSet(RequiredNames(j)) \subseteq C
    BY DEF Closed
  <2>2. Closed(C)' <=> \A j \in LocalNodes' : nodes'[j].name \in C => ToSet(RequiredNames(j)') \subseteq C
    BY DEF Closed, ToSet
  <2> QED BY <1>1, <1>4, <2>1, <2>2
<1>6. \A i : Reaches(i)' = Reaches(i)
  <2> TAKE i
  <2>1. PICK r : r = RequiredNames(i) /\ r = RequiredNames(i)'
    BY <1>4
  <2>2. Reaches(i) = {n \in Names : \A C \in SUBSET Names :
                         ToSet(r) \subseteq C /\ Closed(C) => n \in C}
    BY <2>1 DEF Reaches
  <2>3. Reaches(i)' = {n \in Names : \A C \in SUBSET Names :
                         ToSet(r) \subseteq C /\ Closed(C)' => n \in C}
    BY <2>1 DEF Reaches, ToSet
  <2> QED BY <1>5, <2>2, <2>3
<1>7. \A n : IsPure(n)' <=> IsPure(n)
  BY <1>2, <1>3 DEF IsPure
<1>8. Listed(w)' = Listed(w)
  BY DEF Listed, Elems
<1>9. \A i : Elems(RequiredNames(i))' = Elems(RequiredNames(i))
  BY <1>4 DEF Elems
<1>10. WalkSound(w)' <=> WalkSound(w)
  BY <1>1, <1>3, <1>6, <1>7, <1>8, <1>9 DEF WalkSound
<1>11. WalkOK(w)'
  BY <1>10 DEF WalkOK, NoWalk
<1> QED
  BY <1>11 DEF WalkInv

(* The walk starts with what its node requires.                            *)
LEMMA WalkStartInv ==
    ASSUME GraphTypeOK, NEW i \in Ids, WalkStart(i)
    PROVE  WalkInv' /\ walk' \in Walk
<1>1. i \in LocalNodes /\ nodes' = nodes /\ library' = library
  BY DEF WalkStart
<1>2. PICK w : w = walk'
  OBVIOUS
<1>3. w.at = "running" /\ w.node = i /\ w.todo = RequiredNames(i) /\ w.visited = {}
  BY <1>2 DEF WalkStart
<1>4. Listed(w) = Elems(RequiredNames(i))
  BY <1>3 DEF Listed
<1>5. Elems(RequiredNames(i)) \subseteq Reaches(i)
  BY <1>1, ReachFacts
<1>6. WalkSound(w)
  BY <1>1, <1>3, <1>4, <1>5 DEF WalkSound
<1>7. WalkOK(w)
  BY <1>3, <1>6 DEF WalkOK
<1>8. walk' \in Walk
  <2>1. RequiredNames(i) \in Seq(Names)
    BY <1>1, RequiredFacts
  <2> QED BY <2>1 DEF WalkStart, Walk
<1> QED
  BY <1>1, <1>2, <1>7, <1>8, WalkKept

(* A step of the walk takes a name off the list; what a local behavior of  *)
(* that name requires is put on it.                                        *)
LEMMA WalkPopInv ==
    ASSUME GraphTypeOK, NamesUnique, WalkInv, WalkPop
    PROVE  WalkInv' /\ walk' \in Walk
<1>1. walk.at = "running" /\ walk.todo # <<>> /\ nodes' = nodes /\ library' = library
  BY DEF WalkPop
<1>2. PICK n : n = Last(walk.todo)
  OBVIOUS
<1>3. PopSeen(n) \/ PopLocal(n) \/ PopOther(n)
  BY <1>2 DEF WalkPop
<1>4. PICK v, f, i : v = walk.visited /\ f = Front(walk.todo) /\ i = walk.node
  OBVIOUS
<1>5. /\ walk \in Walk /\ walk.todo \in Seq(Names) /\ v \in SUBSET Names
      /\ DOMAIN walk = {"at", "node", "todo", "visited"}
  BY <1>4 DEF GraphTypeOK, Walk
<1>6. f \in Seq(Names) /\ n \in Names /\ Elems(walk.todo) = Elems(f) \cup {n}
  BY <1>1, <1>2, <1>4, <1>5, FrontElems
<1>7. WalkSound(walk)
  BY <1>1 DEF WalkInv, WalkOK
<1>8. PICK L : L = v \cup Elems(f) \cup {n} /\ L = Listed(walk)
  BY <1>4, <1>6 DEF Listed
<1>9. /\ i \in LocalNodes /\ L \subseteq Reaches(i) /\ Elems(RequiredNames(i)) \subseteq L
      /\ \A m \in v : IsPure(m) /\ \A j \in FindNode(m) : Elems(RequiredNames(j)) \subseteq L
  BY <1>1, <1>4, <1>7, <1>8 DEF WalkSound
<1>10. PICK w : w = walk'
  OBVIOUS
<1>11. CASE PopSeen(n)
  <2>1. w.at = "running" /\ w.node = i /\ w.todo = f /\ w.visited = v /\ n \in v
    BY <1>1, <1>4, <1>5, <1>10, <1>11 DEF PopSeen
  <2>2. Listed(w) = L
    BY <1>8, <2>1 DEF Listed
  <2>3. WalkSound(w)
    BY <1>9, <2>1, <2>2 DEF WalkSound
  <2>4. WalkOK(w)
    BY <2>1, <2>3 DEF WalkOK
  <2>5. walk' \in Walk
    BY <1>4, <1>5, <1>6, <1>11 DEF PopSeen, Walk
  <2> QED BY <1>1, <1>10, <2>4, <2>5, WalkKept
<1>12. CASE PopLocal(n)
  <2>1. PICK j \in FindNode(n) :
          walk' = [walk EXCEPT !.todo = Front(@) \o RequiredNames(j),
                               !.visited = @ \cup {n}, !.at = Found(Pure(j))]
    BY <1>12 DEF PopLocal
  <2>2. w.at = Found(Pure(j)) /\ w.node = i /\ w.todo = f \o RequiredNames(j)
        /\ w.visited = v \cup {n}
    BY <1>1, <1>4, <1>5, <1>10, <2>1
  <2>3. j \in LocalNodes /\ nodes[j].name = n
    BY DEF FindNode
  <2>4. FindNode(n) = {j} /\ RequiredNames(j) \in Seq(Names)
    BY <2>3, FindFacts, RequiredFacts
  <2>5. Elems(w.todo) = Elems(f) \cup Elems(RequiredNames(j))
    BY <1>6, <2>2, <2>4, ConcatElems
  <2>6. Listed(w) = L \cup Elems(RequiredNames(j))
    BY <1>8, <2>2, <2>5 DEF Listed
  <2>7. n \in Reaches(i)
    BY <1>8, <1>9
  <2>8. Elems(RequiredNames(j)) \subseteq Reaches(i)
    BY <1>9, <2>3, <2>7, ReachFacts
  <2>9. IsPure(n) <=> Pure(j)
    BY <2>4 DEF IsPure
  <2>10. (w.at = "running" /\ Pure(j)) \/ (w.at = "impure" /\ ~Pure(j))
    BY <2>2 DEF Found
  <2>11. WalkSound(w)
    <3>1. w.node \in LocalNodes /\ Listed(w) \subseteq Reaches(w.node)
      BY <1>9, <2>2, <2>6, <2>8
    <3>2. Elems(RequiredNames(w.node)) \subseteq Listed(w)
      BY <1>9, <2>2, <2>6
    <3>3. \A m \in w.visited : \A h \in FindNode(m) : Elems(RequiredNames(h)) \subseteq Listed(w)
      BY <1>9, <2>2, <2>4, <2>6
    <3>4. w.at # "impure" => \A m \in w.visited : IsPure(m)
      BY <1>9, <2>2, <2>9, <2>10
    <3>5. w.at = "impure" => \E m \in w.visited : ~IsPure(m)
      BY <2>2, <2>9, <2>10
    <3> QED BY <3>1, <3>2, <3>3, <3>4, <3>5 DEF WalkSound
  <2>12. WalkOK(w)
    BY <2>10, <2>11 DEF WalkOK
  <2>13. walk' \in Walk
    <3>1. f \o RequiredNames(j) \in Seq(Names)
      BY <1>6, <2>4, ConcatElems
    <3>2. Found(Pure(j)) \in {"none", "running", "pure", "impure"}
      BY DEF Found
    <3>3. walk' = [walk EXCEPT !.todo = f \o RequiredNames(j), !.visited = v \cup {n},
                              !.at = Found(Pure(j))]
      BY <1>4, <2>1
    <3> QED BY <1>5, <1>6, <3>1, <3>2, <3>3 DEF Walk
  <2> QED BY <1>1, <1>10, <2>12, <2>13, WalkKept
<1>13. CASE PopOther(n)
  <2> DEFINE p == library[n] # NoNode => ContractOf[library[n].contract].pure
  <2>1. w.at = Found(p) /\ w.node = i /\ w.todo = f /\ w.visited = v \cup {n}
        /\ FindNode(n) = {}
    BY <1>1, <1>4, <1>5, <1>10, <1>13 DEF PopOther
  <2>2. IsPure(n) <=> p
    BY <2>1 DEF IsPure
  <2>3. (w.at = "running" /\ p) \/ (w.at = "impure" /\ ~p)
    BY <2>1 DEF Found
  <2> HIDE DEF p
  <2>4. Listed(w) = L
    BY <1>8, <2>1 DEF Listed
  <2>5. WalkSound(w)
    <3>1. w.node \in LocalNodes /\ Listed(w) \subseteq Reaches(w.node)
          /\ Elems(RequiredNames(w.node)) \subseteq Listed(w)
      BY <1>9, <2>1, <2>4
    <3>2. \A m \in w.visited : \A h \in FindNode(m) : Elems(RequiredNames(h)) \subseteq Listed(w)
      BY <1>9, <2>1, <2>4
    <3>3. w.at # "impure" => \A m \in w.visited : IsPure(m)
      BY <1>9, <2>1, <2>2, <2>3
    <3>4. w.at = "impure" => \E m \in w.visited : ~IsPure(m)
      BY <2>1, <2>2, <2>3
    <3> QED BY <3>1, <3>2, <3>3, <3>4 DEF WalkSound
  <2>6. WalkOK(w)
    BY <2>3, <2>5 DEF WalkOK
  <2>7. walk' \in Walk
    <3>1. Found(p) \in {"none", "running", "pure", "impure"}
      BY DEF Found
    <3>2. walk' = [walk EXCEPT !.todo = f, !.visited = v \cup {n}, !.at = Found(p)]
      BY <1>4, <1>13 DEF PopOther, p
    <3> QED BY <1>5, <1>6, <3>1, <3>2 DEF Walk
  <2> QED BY <1>1, <1>10, <2>6, <2>7, WalkKept
<1> QED
  BY <1>3, <1>11, <1>12, <1>13

(* A walk that has worked off its list ends with "pure".                   *)
LEMMA WalkEndInv ==
    ASSUME GraphTypeOK, WalkInv, WalkEnd
    PROVE  WalkInv' /\ walk' \in Walk
<1>1. walk.at = "running" /\ walk.todo = <<>> /\ nodes' = nodes /\ library' = library
  BY DEF WalkEnd
<1>2. WalkSound(walk)
  BY <1>1 DEF WalkInv, WalkOK
<1>3. PICK w : w = walk'
  OBVIOUS
<1>4. w.at = "pure" /\ w.node = walk.node /\ w.todo = walk.todo /\ w.visited = walk.visited
  <2>1. DOMAIN walk = {"at", "node", "todo", "visited"}
    BY DEF GraphTypeOK, Walk
  <2> QED BY <1>1, <1>3, <2>1 DEF WalkEnd
<1>5. WalkSound(w)
  BY <1>1, <1>2, <1>4 DEF WalkSound, Listed
<1>6. WalkOK(w)
  BY <1>1, <1>4, <1>5 DEF WalkOK
<1>7. walk' \in Walk
  BY DEF WalkEnd, GraphTypeOK, Walk
<1> QED
  BY <1>1, <1>3, <1>6, <1>7, WalkKept

(* What the invariant of the walk means when it has ended.                 *)
LEMMA WalkMeaning ==
    ASSUME GraphTypeOK, WalkInv
    PROVE  PurityThroughLocals
<1>1. ASSUME walk.at = "pure"
      PROVE  \A n \in Reaches(walk.node) : IsPure(n)
  <2>1. PICK v, i : v = walk.visited /\ i = walk.node
    OBVIOUS
  <2>2. WalkSound(walk) /\ walk.todo = <<>>
    BY <1>1 DEF WalkInv, WalkOK
  <2>3. Listed(walk) = v
    BY <2>1, <2>2 DEF Listed, Elems
  <2>4. /\ i \in LocalNodes /\ v \subseteq Names /\ Elems(RequiredNames(i)) \subseteq v
        /\ \A m \in v : IsPure(m) /\ \A j \in FindNode(m) : Elems(RequiredNames(j)) \subseteq v
    BY <1>1, <2>1, <2>2, <2>3 DEF WalkSound, GraphTypeOK, Walk
  <2>5. \A j \in LocalNodes : j \in FindNode(nodes[j].name)
    BY DEF FindNode
  <2>6. \A j \in LocalNodes : nodes[j].name \in v => Elems(RequiredNames(j)) \subseteq v
    BY <2>4, <2>5
  <2>7. Reaches(i) \subseteq v
    BY <2>4, <2>6, ReachLeast
  <2> QED BY <2>1, <2>4, <2>7
<1>2. ASSUME walk.at = "impure"
      PROVE  \E n \in Reaches(walk.node) : ~IsPure(n)
  <2>1. WalkSound(walk)
    BY <1>2 DEF WalkInv, WalkOK
  <2>2. /\ Listed(walk) \subseteq Reaches(walk.node)
        /\ \E n \in walk.visited : ~IsPure(n)
    BY <1>2, <2>1 DEF WalkSound
  <2> QED BY <2>2 DEF Listed
<1> QED
  BY <1>1, <1>2 DEF PurityThroughLocals

-----------------------------------------------------------------------------
(* Edges and types. *)

Fits(e) ==
    /\ e.from \in LocalNodes /\ e.to \in LocalNodes
    /\ \E p \in Port(e.from, e.fp), q \in Port(e.to, e.tp) :
         p.dir # "In" /\ q.dir = "In" /\ <<p.type, p.size>> = <<q.type, q.size>>

(* An edge fits as long as the nodes at its ends stay.                     *)
LEMMA FitsKept ==
    ASSUME NEW e, Fits(e), nodes'[e.from] = nodes[e.from], nodes'[e.to] = nodes[e.to]
    PROVE  Fits(e)'
<1>1. \A i : nodes'[i] = nodes[i] => \A p : Port(i, p)' = Port(i, p)
  BY DEF Port, Ports
<1>2. e.from \in LocalNodes' /\ e.to \in LocalNodes'
  BY DEF Fits, LocalNodes
<1> QED
  BY <1>1, <1>2 DEF Fits

(* An edge that add_edge accepts fits.                                     *)
LEMMA AllowedFits ==
    ASSUME NEW e, EdgeAllowed(e)
    PROVE  Fits(e) /\ \A d \in edges : ~(d.to = e.to /\ d.tp = e.tp)
BY DEF EdgeAllowed, Fits, PortHasSource

(* While a sort or a check runs, the graph stays as it is.                 *)
LEMMA GraphKept ==
    ASSUME EdgesSound, IdsFresh, NamesUnique, UNCHANGED <<nodes, library, edges, nextId>>,
           sort' \in Sort, walk' \in Walk
    PROVE  EdgesSound' /\ IdsFresh' /\ NamesUnique'
<1>1. GraphTypeOK
  BY DEF EdgesSound
<1>2. GraphTypeOK'
  BY <1>1 DEF GraphTypeOK, Sort, Walk
<1>3. LocalNodes' = LocalNodes
  BY DEF LocalNodes
<1>4. IdsFresh' /\ NamesUnique'
  BY <1>3 DEF IdsFresh, NamesUnique
<1>5. \A e \in edges : Fits(e)
  BY DEF EdgesSound, Fits
<1>6. \A e \in edges' : Fits(e)'
  BY <1>5, FitsKept
<1>7. (\A d, e \in edges : <<d.to, d.tp>> = <<e.to, e.tp>> => d = e)'
  BY DEF EdgesSound
<1>8. EdgesSound'
  BY <1>2, <1>6, <1>7 DEF EdgesSound, Fits
<1> QED
  BY <1>4, <1>8

(* An edit falls into neither.                                             *)
LEMMA IdleInv ==
    ASSUME Unchecked, UNCHANGED <<sort, walk>>
    PROVE  SortInv' /\ WalkInv'
BY DEF Unchecked, NoSort, NoWalk, SortInv, SortOK, WalkInv, WalkOK

(* A new node has an id that no edge names.                                *)
LEMMA AddNodeInv ==
    ASSUME IInv, NEW b \in Locals, AddNode(b.name, b.hash, b.calls)
    PROVE  IInv'
<1>1. GraphTypeOK /\ EdgesSound /\ IdsFresh /\ NamesUnique
  BY DEF IInv, EdgesSound
<1>2. SortInv' /\ WalkInv'
  BY IdleInv DEF AddNode
<1>3. PICK new : new = [name |-> b.name, hash |-> b.hash, calls |-> b.calls]
  OBVIOUS
<1>4. b \in BehaviorNode
  BY InputAssumption
<1>5. new \in BehaviorNode /\ new.name = b.name
  BY <1>3, <1>4 DEF BehaviorNode
<1>6. new # NoNode
  <2>1. "hash" \in DOMAIN new /\ "hash" \notin DOMAIN NoNode
    BY <1>3 DEF NoNode
  <2> QED BY <2>1
<1>7. /\ nextId <= MaxNodes /\ FindNode(b.name) = {} /\ nodes' = [nodes EXCEPT ![nextId] = new]
      /\ nextId' = nextId + 1 /\ UNCHANGED <<library, edges, sort, walk>>
  BY <1>3 DEF AddNode
<1>8. nextId \in Ids /\ MaxNodes \in Nat /\ nextId \in Nat
  <2>1. MaxNodes \in Nat
    BY GraphAssumption
  <2>2. nextId \in 1 .. MaxNodes + 1 /\ nextId <= MaxNodes
    BY <1>1, <1>7 DEF GraphTypeOK
  <2> QED BY <2>1, <2>2 DEF Ids
<1>9. DOMAIN nodes = Ids /\ DOMAIN nodes' = Ids /\ nodes'[nextId] = new
      /\ \A i \in Ids : i # nextId => nodes'[i] = nodes[i]
  BY <1>1, <1>7, <1>8 DEF GraphTypeOK
<1>10. GraphTypeOK'
  <2>1. \A i \in Ids : nodes'[i] = NoNode \/ nodes'[i] \in BehaviorNode
    BY <1>1, <1>5, <1>9 DEF GraphTypeOK
  <2>2. nextId' \in 1 .. MaxNodes + 1
    BY <1>7, <1>8
  <2> QED BY <1>1, <1>7, <1>9, <2>1, <2>2 DEF GraphTypeOK, Sort, Walk
<1>11. nodes[nextId] = NoNode
  BY <1>1, <1>8 DEF IdsFresh
<1>12. \A i : i \in LocalNodes' <=> i \in LocalNodes \/ i = nextId
  BY <1>6, <1>8, <1>9 DEF LocalNodes
<1>13. IdsFresh'
  <2>1. \A i \in Ids : i >= nextId + 1 => i >= nextId /\ i # nextId
    BY <1>8 DEF Ids
  <2> QED BY <1>1, <1>7, <1>9, <2>1 DEF IdsFresh
<1>14. NamesUnique'
  <2>1. \A i \in LocalNodes : nodes'[i] = nodes[i] /\ i # nextId /\ nodes[i].name # b.name
    <3>1. \A i \in LocalNodes : i \in Ids /\ i # nextId
      BY <1>11 DEF LocalNodes
    <3> QED BY <1>7, <1>9, <3>1 DEF FindNode
  <2> QED BY <1>1, <1>5, <1>9, <1>12, <2>1 DEF NamesUnique
<1>15. \A e \in edges : Fits(e)
  BY <1>1 DEF EdgesSound, Fits
<1>16. \A e \in edges' : Fits(e)'
  <2> SUFFICES ASSUME NEW e \in edges PROVE Fits(e)'
    BY <1>7
  <2>1. e.from \in LocalNodes /\ e.to \in LocalNodes
    BY <1>15 DEF Fits
  <2>2. e.from \in Ids /\ e.to \in Ids /\ e.from # nextId /\ e.to # nextId
    BY <1>11, <2>1 DEF LocalNodes
  <2> QED BY <1>9, <1>15, <2>2, FitsKept
<1>17. (\A d, e \in edges : <<d.to, d.tp>> = <<e.to, e.tp>> => d = e)'
  BY <1>1, <1>7 DEF EdgesSound
<1>18. EdgesSound'
  BY <1>10, <1>16, <1>17 DEF EdgesSound, Fits
<1> QED
  BY <1>2, <1>13, <1>14, <1>18 DEF IInv

(* A node goes with its edges.                                             *)
LEMMA RemoveNodeInv ==
    ASSUME IInv, NEW i \in Ids, RemoveNode(i)
    PROVE  IInv'
<1>1. GraphTypeOK /\ EdgesSound /\ IdsFresh /\ NamesUnique
  BY DEF IInv, EdgesSound
<1>2. SortInv' /\ WalkInv'
  BY IdleInv DEF RemoveNode
<1>3. /\ nodes' = [nodes EXCEPT ![i] = NoNode] /\ edges' = {e \in edges : e.from # i /\ e.to # i}
      /\ UNCHANGED <<library, nextId, sort, walk>>
  BY DEF RemoveNode
<1>4. DOMAIN nodes = Ids /\ DOMAIN nodes' = Ids /\ nodes'[i] = NoNode
      /\ \A j \in Ids : j # i => nodes'[j] = nodes[j]
  BY <1>1, <1>3 DEF GraphTypeOK
<1>5. GraphTypeOK'
  <2>1. \A j \in Ids : nodes'[j] = NoNode \/ nodes'[j] \in BehaviorNode
    BY <1>1, <1>4 DEF GraphTypeOK
  <2>2. edges' \subseteq Edge
    BY <1>1, <1>3 DEF GraphTypeOK
  <2> QED BY <1>1, <1>3, <1>4, <2>1, <2>2 DEF GraphTypeOK, Sort, Walk
<1>6. \A j : j \in LocalNodes' <=> j \in LocalNodes /\ j # i
  BY <1>4 DEF LocalNodes
<1>7. IdsFresh'
  BY <1>1, <1>3, <1>4 DEF IdsFresh
<1>8. NamesUnique'
  <2>1. \A j \in LocalNodes' : nodes'[j] = nodes[j] /\ j \in LocalNodes
    BY <1>4, <1>6 DEF LocalNodes
  <2> QED BY <1>1, <2>1 DEF NamesUnique
<1>9. \A e \in edges : Fits(e)
  BY <1>1 DEF EdgesSound, Fits
<1>10. \A e \in edges' : Fits(e)'
  <2> SUFFICES ASSUME NEW e \in edges, e.from # i, e.to # i PROVE Fits(e)'
    BY <1>3
  <2>1. e.from \in Ids /\ e.to \in Ids
    BY <1>9 DEF Fits, LocalNodes
  <2> QED BY <1>4, <1>9, <2>1, FitsKept
<1>11. (\A d, e \in edges : <<d.to, d.tp>> = <<e.to, e.tp>> => d = e)'
  BY <1>1, <1>3 DEF EdgesSound
<1>12. EdgesSound'
  BY <1>5, <1>10, <1>11 DEF EdgesSound, Fits
<1> QED
  BY <1>2, <1>7, <1>8, <1>12 DEF IInv

(* Steps that leave the nodes: what the new edges must be.                 *)
LEMMA EdgeStep ==
    ASSUME IInv, Unchecked, UNCHANGED <<nodes, nextId, sort, walk>>,
           DOMAIN library' = Names,
           \A n \in Names : library'[n] = NoNode \/ library'[n] \in LibNode,
           edges' \subseteq Edge,
           \A e \in edges' : Fits(e),
           \A d, e \in edges' : <<d.to, d.tp>> = <<e.to, e.tp>> => d = e
    PROVE  IInv'
<1>1. GraphTypeOK /\ IdsFresh /\ NamesUnique
  BY DEF IInv, EdgesSound
<1>2. SortInv' /\ WalkInv'
  BY IdleInv
<1>3. GraphTypeOK'
  BY <1>1 DEF GraphTypeOK, Sort, Walk
<1>4. LocalNodes' = LocalNodes
  BY DEF LocalNodes
<1>5. IdsFresh' /\ NamesUnique'
  BY <1>1, <1>4 DEF IdsFresh, NamesUnique
<1>6. \A e \in edges' : Fits(e)'
  BY FitsKept
<1>7. EdgesSound'
  BY <1>3, <1>6 DEF EdgesSound, Fits
<1> QED
  BY <1>2, <1>5, <1>7 DEF IInv

(* add_library_node changes no edge.                                       *)
LEMMA AddLibraryInv ==
    ASSUME IInv, NEW x \in Exports, AddLibraryNode(x[1], x[2], x[3])
    PROVE  IInv'
<1>1. GraphTypeOK /\ EdgesSound
  BY DEF IInv, EdgesSound
<1>2. /\ library' = [library EXCEPT ![x[1]] = [hash |-> x[3], contract |-> x[2]]]
      /\ Unchecked /\ UNCHANGED <<nodes, edges, nextId, sort, walk>>
  BY DEF AddLibraryNode
<1>3. x[1] \in Names /\ x[2] \in Hashes /\ x[3] \in {x[2], ""}
  BY InputAssumption
<1>4. [hash |-> x[3], contract |-> x[2]] \in LibNode
  BY <1>3 DEF LibNode
<1>5. DOMAIN library' = Names
      /\ \A n \in Names : library'[n] = NoNode \/ library'[n] \in LibNode
  BY <1>1, <1>2, <1>3, <1>4 DEF GraphTypeOK
<1>6. edges' \subseteq Edge
      /\ (\A d, e \in edges' : <<d.to, d.tp>> = <<e.to, e.tp>> => d = e)
  BY <1>1, <1>2 DEF EdgesSound, GraphTypeOK
<1>7. \A e \in edges' : Fits(e)
  BY <1>1, <1>2 DEF EdgesSound, Fits
<1> QED
  BY <1>2, <1>5, <1>6, <1>7, EdgeStep

(* add_edge adds an edge that fits, to an input without a source.          *)
LEMMA AddEdgeInv ==
    ASSUME IInv, NEW i \in LocalNodes, NEW j \in LocalNodes,
           NEW p \in ToSet(Ports(i)), NEW q \in ToSet(Ports(j)),
           AddEdge([from |-> i, fp |-> p.name, to |-> j, tp |-> q.name])
    PROVE  IInv'
<1>1. GraphTypeOK /\ EdgesSound
  BY DEF IInv, EdgesSound
<1>2. PICK e : e = [from |-> i, fp |-> p.name, to |-> j, tp |-> q.name]
  OBVIOUS
<1>3. /\ EdgeAllowed(e) /\ edges' = edges \cup {e}
      /\ Unchecked /\ UNCHANGED <<nodes, library, nextId, sort, walk>>
  BY <1>2 DEF AddEdge
<1>4. p.name \in STRING /\ q.name \in STRING
  <2>1. p \in PortDecl /\ q \in PortDecl
    BY <1>1, NodeFacts, ToSetElems
  <2> QED BY <2>1 DEF PortDecl
<1>5. e \in Edge
  BY <1>2, <1>4 DEF Edge, LocalNodes
<1>6. DOMAIN library' = Names
      /\ \A n \in Names : library'[n] = NoNode \/ library'[n] \in LibNode
  BY <1>1, <1>3 DEF GraphTypeOK
<1>7. edges' \subseteq Edge
  BY <1>1, <1>3, <1>5 DEF GraphTypeOK
<1>8. Fits(e) /\ \A d \in edges : ~(d.to = e.to /\ d.tp = e.tp)
  BY <1>3, AllowedFits
<1>9. \A d \in edges' : Fits(d)
  BY <1>1, <1>3, <1>8 DEF EdgesSound, Fits
<1>10. \A d, f \in edges' : <<d.to, d.tp>> = <<f.to, f.tp>> => d = f
  BY <1>1, <1>3, <1>8 DEF EdgesSound
<1> QED
  BY <1>3, <1>6, <1>7, <1>9, <1>10, EdgeStep

(* remove_edge only takes an edge away.                                    *)
LEMMA RemoveEdgeInv ==
    ASSUME IInv, NEW e \in edges, RemoveEdge(e)
    PROVE  IInv'
<1>1. GraphTypeOK /\ EdgesSound
  BY DEF IInv, EdgesSound
<1>2. edges' = edges \ {e} /\ Unchecked /\ UNCHANGED <<nodes, library, nextId, sort, walk>>
  BY DEF RemoveEdge
<1>3. DOMAIN library' = Names
      /\ \A n \in Names : library'[n] = NoNode \/ library'[n] \in LibNode
  BY <1>1, <1>2 DEF GraphTypeOK
<1>4. edges' \subseteq Edge
      /\ (\A d, f \in edges' : <<d.to, d.tp>> = <<f.to, f.tp>> => d = f)
  BY <1>1, <1>2 DEF EdgesSound, GraphTypeOK
<1>5. \A d \in edges' : Fits(d)
  BY <1>1, <1>2 DEF EdgesSound, Fits
<1> QED
  BY <1>2, <1>3, <1>4, <1>5, EdgeStep

(* The edges that are derived fit, one to an input, whatever the order.    *)
LEMMA DeriveEdgesInv ==
    ASSUME IInv, DeriveEdges
    PROVE  IInv'
<1>1. GraphTypeOK /\ EdgesSound
  BY DEF IInv, EdgesSound
<1>2. PICK new \in SUBSET {e \in Proposed : EdgeAllowed(e)} :
        /\ \A d, e \in new : <<d.to, d.tp>> = <<e.to, e.tp>> => d = e
        /\ edges' = edges \cup new
  BY DEF DeriveEdges
<1>3. Unchecked /\ UNCHANGED <<nodes, library, nextId, sort, walk>>
  BY DEF DeriveEdges
<1>4. ASSUME NEW e \in new
      PROVE  e \in Edge /\ Fits(e) /\ \A d \in edges : ~(d.to = e.to /\ d.tp = e.tp)
  <2>1. e \in Proposed /\ EdgeAllowed(e)
    BY <1>4
  <2>2. PICK i \in LocalNodes : e \in UNION {Wires(i, j) : j \in Called(i)}
    BY <2>1 DEF Proposed
  <2>3. PICK j \in Called(i) : e \in Wires(i, j)
    BY <2>2
  <2>4. j \in LocalNodes
    BY DEF Called
  <2>5. PICK p \in ToSet(Ports(j)) : e = [from |-> i, fp |-> p.name, to |-> j, tp |-> p.name]
    BY <2>3 DEF Wires
  <2>6. p.name \in STRING
    <3>1. p \in PortDecl
      BY <1>1, <2>4, NodeFacts, ToSetElems
    <3> QED BY <3>1 DEF PortDecl
  <2>7. e \in Edge
    BY <2>4, <2>5, <2>6 DEF Edge, LocalNodes
  <2> QED BY <2>1, <2>7, AllowedFits
<1>5. DOMAIN library' = Names
      /\ \A n \in Names : library'[n] = NoNode \/ library'[n] \in LibNode
  BY <1>1, <1>3 DEF GraphTypeOK
<1>6. edges' \subseteq Edge
  BY <1>1, <1>2, <1>4 DEF GraphTypeOK
<1>7. \A d \in edges' : Fits(d)
  <2>1. \A d \in edges : Fits(d)
    BY <1>1 DEF EdgesSound, Fits
  <2> QED BY <1>2, <1>4, <2>1
<1>8. \A d, f \in edges' : <<d.to, d.tp>> = <<f.to, f.tp>> => d = f
  <2>1. \A d, f \in edges : <<d.to, d.tp>> = <<f.to, f.tp>> => d = f
    BY <1>1 DEF EdgesSound
  <2> QED BY <1>2, <1>4, <2>1
<1> QED
  BY <1>3, <1>5, <1>6, <1>7, <1>8, EdgeStep

(* The steps of the sort.                                                  *)
LEMMA SortStepInv ==
    ASSUME IInv, SortStart \/ SortPop \/ SortEnd \/ SortTaken
    PROVE  IInv'
<1>1. GraphTypeOK /\ EdgesSound /\ IdsFresh /\ NamesUnique /\ SortInv /\ WalkInv
  BY DEF IInv, EdgesSound
<1>2. UNCHANGED <<nodes, library, edges, nextId, walk>>
  BY DEF SortStart, SortPop, SortEnd, SortTaken
<1>3. WalkInv'
  <2>1. PICK w : w = walk /\ w = walk'
    BY <1>2
  <2>2. WalkOK(w)
    BY <1>1, <2>1 DEF WalkInv
  <2> QED BY <1>2, <2>1, <2>2, WalkKept
<1>4. SortInv' /\ sort' \in Sort
  <2>1. CASE SortStart
    BY <1>1, <2>1, SortStartInv
  <2>2. CASE SortPop
    BY <1>1, <2>2, SortPopInv
  <2>3. CASE SortEnd
    BY <1>1, <2>3, SortEndInv
  <2>4. CASE SortTaken
    <3>1. SortInv'
      BY <2>4 DEF SortTaken, SortInv, SortOK, NoSort
    <3>2. <<>> \in Seq(Ids)
      OBVIOUS
    <3> QED BY <2>4, <3>1, <3>2 DEF SortTaken, NoSort, Sort
  <2> QED BY <2>1, <2>2, <2>3, <2>4
<1>5. walk' \in Walk
  BY <1>1, <1>2 DEF GraphTypeOK, Walk
<1>6. EdgesSound' /\ IdsFresh' /\ NamesUnique'
  BY <1>1, <1>2, <1>4, <1>5, GraphKept
<1> QED
  BY <1>3, <1>4, <1>6 DEF IInv

(* The steps of the purity check.                                          *)
LEMMA WalkStepInv ==
    ASSUME IInv, (\E i \in Ids : WalkStart(i)) \/ WalkPop \/ WalkEnd \/ WalkTaken
    PROVE  IInv'
<1>1. GraphTypeOK /\ EdgesSound /\ IdsFresh /\ NamesUnique /\ SortInv /\ WalkInv
  BY DEF IInv, EdgesSound
<1>2. UNCHANGED <<nodes, library, edges, nextId, sort>>
  BY DEF WalkStart, WalkPop, WalkEnd, WalkTaken
<1>3. SortInv'
  <2>1. PICK s : s = sort /\ s = sort'
    BY <1>2
  <2>2. SortOK(s)
    BY <1>1, <2>1 DEF SortInv
  <2> QED BY <1>2, <2>1, <2>2, SortKept
<1>4. WalkInv' /\ walk' \in Walk
  <2>1. CASE \E i \in Ids : WalkStart(i)
    BY <1>1, <2>1, WalkStartInv
  <2>2. CASE WalkPop
    BY <1>1, <2>2, WalkPopInv
  <2>3. CASE WalkEnd
    BY <1>1, <2>3, WalkEndInv
  <2>4. CASE WalkTaken
    <3>1. WalkInv'
      BY <2>4 DEF WalkTaken, WalkInv, WalkOK, NoWalk
    <3>2. <<>> \in Seq(Names)
      OBVIOUS
    <3> QED BY <2>4, <3>1, <3>2 DEF WalkTaken, NoWalk, Walk
  <2> QED BY <2>1, <2>2, <2>3, <2>4
<1>5. sort' \in Sort
  BY <1>1, <1>2 DEF GraphTypeOK, Sort
<1>6. EdgesSound' /\ IdsFresh' /\ NamesUnique'
  BY <1>1, <1>2, <1>4, <1>5, GraphKept
<1> QED
  BY <1>3, <1>4, <1>6 DEF IInv

-----------------------------------------------------------------------------
(* The gap detector. *)

(* The remainder of a number that is below the divisor.                    *)
LEMMA SmallRemainder ==
    ASSUME NEW x \in Nat, NEW w \in Nat \ {0}, x < w
    PROVE  x % w = x
OBVIOUS

(* The gap detector agrees with the checks in every state.                 *)
LEMMA GapsExact ==
    ASSUME GraphTypeOK
    PROVE  GapsAgree
<1>1. ASSUME NEW i \in LocalNodes
      PROVE  {Requires(i)[k] : k \in DependencyGaps(i)}
               = UndefinedRefs(i) \cup StaleRefs(i)
                   \cup {r \in ToSet(Requires(i)) : r.pin # "" /\ "" \in Lookup(r.name)}
  <2>1. PICK R : R = Requires(i)
    OBVIOUS
  <2> DEFINE Broken(r) == \/ Lookup(r.name) = {}
                          \/ r.pin # "" /\ \E h \in Lookup(r.name) : h # r.pin
  <2>2. \A k : k \in DependencyGaps(i) <=> k \in DOMAIN R /\ Broken(R[k])
    BY <2>1 DEF DependencyGaps
  <2>3. UndefinedRefs(i) = {r \in ToSet(R) : Lookup(r.name) = {}}
    BY <2>1 DEF UndefinedRefs
  <2>4. StaleRefs(i) = {r \in ToSet(R) : r.pin # "" /\ \E h \in Lookup(r.name) : h # "" /\ h # r.pin}
    BY <2>1 DEF StaleRefs
  <2>5. \A r : r \in ToSet(R) <=> \E k \in DOMAIN R : r = R[k]
    BY DEF ToSet
  <2>6. ASSUME NEW r
        PROVE  r \in ToSet(R) /\ Broken(r) <=>
                 (\/ r \in UndefinedRefs(i) \/ r \in StaleRefs(i)
                  \/ (r \in ToSet(R) /\ r.pin # "" /\ "" \in Lookup(r.name)))
    BY <2>3, <2>4
  <2> HIDE DEF Broken
  <2>7. ASSUME NEW r
        PROVE  r \in {R[k] : k \in DependencyGaps(i)} <=> r \in ToSet(R) /\ Broken(r)
    BY <2>2, <2>5
  <2>8. \A r : r \in {R[k] : k \in DependencyGaps(i)} <=>
                r \in UndefinedRefs(i) \cup StaleRefs(i)
                        \cup {t \in ToSet(R) : t.pin # "" /\ "" \in Lookup(t.name)}
    BY <2>6, <2>7
  <2> QED BY <2>1, <2>8
<1>2. ASSUME \A i \in LocalNodes : DependencyGaps(i) = {}
      PROVE  /\ Completeness[1] <= Completeness[2]
             /\ Completeness[1] = Completeness[2] <=> IsComplete
  <2>1. PICK total, pg, dg : /\ total = Cardinality(AllPorts) /\ pg = Cardinality(AllPortGaps)
                             /\ dg = Cardinality(AllDependencyGaps)
    OBVIOUS
  <2>2. AllDependencyGaps = {}
    BY <1>2 DEF AllDependencyGaps
  <2>3. dg = 0
    BY <2>1, <2>2, FS_EmptySet
  <2>4. \A i \in LocalNodes : PortGaps(i) \subseteq DOMAIN Ports(i)
    BY DEF PortGaps
  <2>5. AllPortGaps \in SUBSET AllPorts
    BY <2>4 DEF AllPortGaps, AllPorts
  <2>6. AllPorts \in SUBSET (Ids \X PortPlaces)
    <3>1. \A i \in LocalNodes : i \in Ids /\ DOMAIN Ports(i) \subseteq PortPlaces
      <4> TAKE i \in LocalNodes
      <4>1. nodes[i].hash \in Hashes /\ i \in Ids
        BY NodeFacts
      <4> QED BY <4>1 DEF Ports, PortPlaces
    <3> QED BY <3>1 DEF AllPorts
  <2>7. IsFiniteSet(Ids \X PortPlaces) /\ Cardinality(Ids \X PortPlaces) < WordSize
        /\ Cardinality(Ids \X PortPlaces) \in Nat
    BY FiniteFacts, FS_CardinalityType
  <2>8. IsFiniteSet(AllPorts) /\ total \in Nat /\ total <= Cardinality(Ids \X PortPlaces)
    BY <2>1, <2>6, <2>7, FS_Subset, FS_CardinalityType
  <2>9. IsFiniteSet(AllPortGaps) /\ pg \in Nat /\ pg <= total
    BY <2>1, <2>5, <2>8, FS_Subset, FS_CardinalityType
  <2>10. pg = 0 <=> AllPortGaps = {}
    BY <2>1, <2>9, FS_EmptySet
  <2>11. AllPortGaps = {} <=> \A i \in LocalNodes : PortGaps(i) = {}
    <3>1. \A i \in LocalNodes : \A k \in PortGaps(i) : <<i, k>> \in AllPortGaps
      BY DEF AllPortGaps
    <3>2. \A x \in AllPortGaps : \E i \in LocalNodes : \E k : k \in PortGaps(i)
      BY DEF AllPortGaps
    <3> QED BY <3>1, <3>2
  <2>12. IsComplete <=> pg = 0
    BY <1>2, <2>10, <2>11 DEF IsComplete
  <2>13. Completeness = IF total = 0 THEN <<1, 1>> ELSE <<(total - (pg + dg)) % WordSize, total>>
    BY <2>1 DEF Completeness
  <2>14. CASE total = 0
    BY <2>9, <2>12, <2>13, <2>14
  <2>15. CASE total # 0
    <3>1. total - (pg + dg) \in Nat /\ total - (pg + dg) < WordSize /\ WordSize \in Nat \ {0}
          /\ total - (pg + dg) = total - pg
      <4>1. WordSize \in Nat \ {0}
        BY GraphAssumption
      <4> QED BY <2>3, <2>7, <2>8, <2>9, <4>1
    <3>2. (total - (pg + dg)) % WordSize = total - pg
      BY <3>1, SmallRemainder
    <3>3. Completeness[1] = total - pg /\ Completeness[2] = total
      BY <2>13, <2>15, <3>2
    <3> QED BY <2>8, <2>9, <2>12, <3>3
  <2> QED BY <2>14, <2>15
<1> QED
  BY <1>1, <1>2 DEF GapsAgree

-----------------------------------------------------------------------------
(* The theorems. *)

(* The empty graph satisfies the invariant.                                *)
LEMMA InitInv == GraphInit => IInv
<1> SUFFICES ASSUME GraphInit PROVE IInv
  OBVIOUS
<1>1. /\ nodes = [i \in Ids |-> NoNode] /\ library = [n \in Names |-> NoNode]
      /\ edges = {} /\ nextId = 1 /\ sort = NoSort /\ walk = NoWalk
  BY DEF GraphInit, Unchecked
<1>2. LocalNodes = {}
  BY <1>1 DEF LocalNodes
<1>3. sort \in Sort /\ walk \in Walk
  <2>1. <<>> \in Seq(Ids) /\ <<>> \in Seq(Names)
    OBVIOUS
  <2> QED BY <1>1, <2>1 DEF NoSort, NoWalk, Sort, Walk
<1>4. nextId \in 1 .. MaxNodes + 1
  <2>1. MaxNodes \in Nat
    BY GraphAssumption
  <2> QED BY <1>1, <2>1
<1>5. GraphTypeOK
  BY <1>1, <1>3, <1>4 DEF GraphTypeOK
<1>6. EdgesSound
  BY <1>1, <1>5 DEF EdgesSound
<1>7. IdsFresh /\ NamesUnique
  BY <1>1, <1>2 DEF IdsFresh, NamesUnique
<1>8. SortInv /\ WalkInv
  BY <1>1 DEF NoSort, NoWalk, SortInv, SortOK, WalkInv, WalkOK
<1> QED
  BY <1>6, <1>7, <1>8 DEF IInv

(* Every edit of the graph and every step of a sort or a check keeps the   *)
(* invariant.                                                              *)
LEMMA StepInv == IInv /\ [GraphNext]_graphVars => IInv'
<1> SUFFICES ASSUME IInv, [GraphNext]_graphVars PROVE IInv'
  OBVIOUS
<1>1. CASE \E b \in Locals : AddNode(b.name, b.hash, b.calls)
  BY <1>1, AddNodeInv
<1>2. CASE \E i \in Ids : RemoveNode(i)
  BY <1>2, RemoveNodeInv
<1>3. CASE \E x \in Exports : AddLibraryNode(x[1], x[2], x[3])
  BY <1>3, AddLibraryInv
<1>4. CASE \E i \in LocalNodes, j \in LocalNodes : \E p \in ToSet(Ports(i)), q \in ToSet(Ports(j)) :
             AddEdge([from |-> i, fp |-> p.name, to |-> j, tp |-> q.name])
  BY <1>4, AddEdgeInv
<1>5. CASE \E e \in edges : RemoveEdge(e)
  BY <1>5, RemoveEdgeInv
<1>6. CASE DeriveEdges
  BY <1>6, DeriveEdgesInv
<1>7. CASE SortStart \/ SortPop \/ SortEnd \/ SortTaken
  BY <1>7, SortStepInv
<1>8. CASE (\E i \in Ids : WalkStart(i)) \/ WalkPop \/ WalkEnd \/ WalkTaken
  BY <1>8, WalkStepInv
<1>9. CASE UNCHANGED graphVars
  <2>1. UNCHANGED <<nodes, library, edges, nextId, sort, walk>>
    BY <1>9 DEF graphVars
  <2>2. GraphTypeOK /\ EdgesSound /\ IdsFresh /\ NamesUnique /\ SortInv /\ WalkInv
    BY DEF IInv, EdgesSound
  <2>3. SortInv'
    <3>1. PICK s : s = sort /\ s = sort'
      BY <2>1
    <3>2. SortOK(s)
      BY <2>2, <3>1 DEF SortInv
    <3> QED BY <2>1, <3>1, <3>2, SortKept
  <2>4. WalkInv'
    <3>1. PICK w : w = walk /\ w = walk'
      BY <2>1
    <3>2. WalkOK(w)
      BY <2>2, <3>1 DEF WalkInv
    <3> QED BY <2>1, <3>1, <3>2, WalkKept
  <2>5. sort' \in Sort /\ walk' \in Walk
    BY <2>1, <2>2 DEF GraphTypeOK, Sort, Walk
  <2>6. EdgesSound' /\ IdsFresh' /\ NamesUnique'
    BY <2>1, <2>2, <2>5, GraphKept
  <2> QED BY <2>3, <2>4, <2>6 DEF IInv
<1> QED
  BY <1>1, <1>2, <1>3, <1>4, <1>5, <1>6, <1>7, <1>8, <1>9 DEF GraphNext

(* The inductive invariant of the behavior graph.                          *)
THEOREM Invariance == GraphSpec => []IInv
BY InitInv, StepInv, PTL DEF GraphSpec

(* Edges connect an output to an input of the same type and size, of       *)
(* behaviors that are in the graph, and an input has one source, for any   *)
(* contracts and any sequence of edits (add_edge, remove_node,             *)
(* derive_edges_from_composites).                                          *)
THEOREM EdgesStaySound == GraphSpec => []EdgesSound
<1>1. IInv => EdgesSound
  BY DEF IInv
<1> QED
  BY <1>1, Invariance, PTL

(* check_circular_dependencies and topological_sort find a cycle exactly   *)
(* when a behavior reaches itself; an order has every behavior once,       *)
(* dependencies first, whatever order the hash maps have.                  *)
THEOREM CyclesFoundExactly == GraphSpec => []OrderExact
<1>1. IInv => OrderExact
  <2> SUFFICES ASSUME IInv PROVE OrderExact
    OBVIOUS
  <2>1. GraphTypeOK /\ NamesUnique /\ SortInv
    BY DEF IInv, EdgesSound
  <2> QED BY <2>1, CircularExact, SortMeaning DEF OrderExact
<1> QED
  BY <1>1, Invariance, PTL

(* check_transitive_purity refuses a pure behavior exactly when it reaches *)
(* an impure one through local behaviors, around cycles too.               *)
THEOREM PurityExact == GraphSpec => []PurityThroughLocals
<1>1. IInv => PurityThroughLocals
  BY WalkMeaning DEF IInv, EdgesSound
<1> QED
  BY <1>1, Invariance, PTL

(* find_dependency_gaps and the checks agree on the broken references, and *)
(* completeness_pct is within bounds and 100 only for a complete graph as  *)
(* long as no reference is broken.                                         *)
THEOREM GapsFoundExactly == GraphSpec => []GapsAgree
<1>1. IInv => GapsAgree
  BY GapsExact DEF IInv, EdgesSound
<1> QED
  BY <1>1, Invariance, PTL

=============================================================================
