---------------------------- MODULE ScopeProofs ----------------------------
(***************************************************************************)
(* Proofs about the scope allocator, for any finite sets of scope and      *)
(* block addresses: scopes nested to any depth, left by any JUMPs, their   *)
(* addresses recycled at will.                                             *)
(***************************************************************************)
EXTENDS ScopeMemory, FiniteSetTheorems, SequenceTheorems, WellFoundedInduction, TLAPS

(* The tokens in force are different scopes, each the open child of the    *)
(* one before it.                                                          *)
PathLinked ==
    /\ \A i, j \in 1 .. Len(tokens) : tokens[i] = tokens[j] => i = j
    /\ \A i \in 1 .. Len(tokens) - 1 : openChild[tokens[i]] = tokens[i + 1]

(* A scope pushed out of the root's tree is out of the root's reach. *)
LostApart == tokens # <<>> => lost \cap Cascade(tokens[1]) = {}

(* A registered block is live, in one scope only, and every live block is  *)
(* registered.                                                             *)
BlocksOwned ==
    /\ ~doubleFree
    /\ \A s \in liveScopes : allocs[s] \subseteq liveBlocks
    /\ \A s, t \in liveScopes : \A b \in allocs[s] : b \in allocs[t] => s = t
    /\ \A b \in liveBlocks : \E s \in liveScopes : b \in allocs[s]

IInv == TreeSound /\ PathLinked /\ OnlyOverwrittenLeak /\ LostApart /\ BlocksOwned

-----------------------------------------------------------------------------
(* Following links *)

(* A set of scopes no link leads out of. *)
Closed(link, C) == \A u \in C : link[u] # None => link[u] \in C

(* The tokens p are linked, each to the next. *)
Linked(link, p) == \A i \in 1 .. Len(p) - 1 : link[p[i]] = p[i + 1]

(* A non-empty set of positions has a first one; the lemmas on paths of    *)
(* scopes of any depth argue by it.                                        *)
LEMMA LeastPosition ==
    ASSUME NEW T, T \subseteq Nat, T # {}
    PROVE  \E x \in T : \A y \in T : x <= y
<1> DEFINE R == {ss \in Nat \X Nat : ss[1] < ss[2]}
<1>1. IsWellFoundedOn(R, Nat)
  BY NatLessThanWellFounded, Zenon DEF OpToRel
<1>2. \E x \in T : \A y \in T : ~ (<<y, x>> \in R)
  <2> HIDE DEF R
  <2> QED BY <1>1, WFMin, Zenon
<1>3. PICK x \in T : \A y \in T : ~ (<<y, x>> \in R)
  BY <1>2
<1>4. ASSUME NEW y \in T
      PROVE  x <= y
  <2>1. x \in Nat /\ y \in Nat
    OBVIOUS
  <2>2. ~(<<y, x>> \in R)
    BY <1>3
  <2>3. ~(y < x)
    BY <2>1, <2>2
  <2> QED
    BY <2>1, <2>3
<1> QED
  BY <1>4

(* The scopes met from s are the least closed set that has s: sigil_scope_ *)
(* destroy and sigil_scope_free visit s first and go on from every scope   *)
(* they visit (memory.c:101-111, 73-96).                                   *)
LEMMA FollowFacts ==
    ASSUME NEW link, NEW s \in Scopes
    PROVE  /\ Follow(link, s) \subseteq Scopes
           /\ s \in Follow(link, s)
           /\ \A C \in SUBSET Scopes : s \in C /\ Closed(link, C) => Follow(link, s) \subseteq C
  BY DEF Follow, Closed

(* The walk goes on from every scope it meets that has a link. *)
LEMMA FollowClosed ==
    ASSUME NEW link, link \in [Scopes -> Pointers], NEW s \in Scopes
    PROVE  Closed(link, Follow(link, s))
<1>1. SUFFICES ASSUME NEW u \in Follow(link, s), link[u] # None
               PROVE  link[u] \in Follow(link, s)
  BY DEF Closed
<1>2. u \in Scopes /\ link[u] \in Scopes
  BY <1>1 DEF Follow, Pointers
<1>3. ASSUME NEW C \in SUBSET Scopes, s \in C, \A v \in C : link[v] # None => link[v] \in C
      PROVE  link[u] \in C
  BY <1>1, <1>3 DEF Follow
<1> QED
  BY <1>2, <1>3 DEF Follow

(* Every scope the walk meets after the first was led to by one met. *)
LEMMA FollowBack ==
    ASSUME NEW link, link \in [Scopes -> Pointers], NEW s \in Scopes,
           NEW t \in Follow(link, s), t # s
    PROVE  \E u \in Follow(link, s) : link[u] = t
<1>1. SUFFICES ASSUME \A u \in Follow(link, s) : link[u] # t
               PROVE  FALSE
  OBVIOUS
<1> DEFINE C == Follow(link, s) \ {t}
<1>2. C \in SUBSET Scopes /\ s \in C
  BY FollowFacts
<1>3. Closed(link, C)
  BY <1>1, FollowClosed DEF Closed
<1> QED
  BY <1>2, <1>3, FollowFacts

(* A walk from a scope stays in a closed set that has the scope. *)
LEMMA FollowIn ==
    ASSUME NEW link, NEW C, C \subseteq Scopes, NEW s \in C, Closed(link, C)
    PROVE  Follow(link, s) \subseteq C
  BY FollowFacts

(* A walk is its first scope and the walk from that one's link. *)
LEMMA FollowSplit ==
    ASSUME NEW link, link \in [Scopes -> Pointers], NEW s \in Scopes
    PROVE  /\ link[s] = None => Follow(link, s) = {s}
           /\ link[s] # None => Follow(link, s) = {s} \cup Follow(link, link[s])
<1>1. CASE link[s] = None
  <2>1. Closed(link, {s})
    BY <1>1 DEF Closed
  <2> QED
    BY <1>1, <2>1, FollowFacts
<1>2. CASE link[s] # None
  <2>1. link[s] \in Scopes
    BY <1>2 DEF Pointers
  <2> DEFINE C == {s} \cup Follow(link, link[s])
  <2>2. link[s] \in Follow(link, link[s]) /\ C \subseteq Scopes
    BY <2>1, FollowFacts
  <2>3. Closed(link, Follow(link, link[s]))
    BY <2>1, FollowClosed
  <2>4. Closed(link, C)
    BY <2>2, <2>3 DEF Closed
  <2>5. Follow(link, s) \subseteq C
    BY <2>2, <2>4, FollowIn
  <2>6. s \in Follow(link, s) /\ Follow(link, s) \subseteq Scopes
    BY FollowFacts
  <2>7. Closed(link, Follow(link, s))
    BY FollowClosed
  <2>8. link[s] \in Follow(link, s)
    BY <1>2, <2>6, <2>7 DEF Closed
  <2>9. Follow(link, link[s]) \subseteq Follow(link, s)
    BY <2>6, <2>7, <2>8, FollowIn
  <2> QED
    BY <1>2, <2>5, <2>6, <2>9
<1> QED
  BY <1>1, <1>2

(* A closed set with the first of some linked scopes has all of them. *)
LEMMA PathIn ==
    ASSUME NEW link, NEW C, Closed(link, C), None \notin Scopes,
           NEW p \in Seq(Scopes), Linked(link, p), p # <<>>, p[1] \in C
    PROVE  \A i \in 1 .. Len(p) : p[i] \in C
<1> DEFINE T == {i \in 1 .. Len(p) : p[i] \notin C}
<1>1. SUFFICES ASSUME T # {}
               PROVE  FALSE
  OBVIOUS
<1>2. PICK i \in T : \A j \in T : i <= j
  <2>1. T \subseteq Nat
    OBVIOUS
  <2> HIDE DEF T
  <2> QED
    BY <1>1, <2>1, LeastPosition
<1>3. i # 1 /\ i \in 1 .. Len(p) /\ p[i] \notin C
  OBVIOUS
<1>4. i - 1 \in 1 .. Len(p) - 1 /\ p[i - 1] \in C
  BY <1>2, <1>3
<1>5. link[p[i - 1]] = p[i]
  BY <1>3, <1>4 DEF Linked
<1>6. p[i] # None
  BY <1>3
<1> QED
  BY <1>3, <1>4, <1>5, <1>6 DEF Closed

(* The walk from the first of some linked scopes is the part of them       *)
(* before any position and the walk from there.                            *)
LEMMA FollowAlong ==
    ASSUME NEW link, link \in [Scopes -> Pointers],
           NEW p \in Seq(Scopes), Linked(link, p), NEW k \in 1 .. Len(p)
    PROVE  Follow(link, p[1]) = {p[i] : i \in 1 .. k - 1} \cup Follow(link, p[k])
<1> DEFINE C == {p[i] : i \in 1 .. k - 1} \cup Follow(link, p[k])
<1>1. p # <<>> /\ p[1] \in Scopes /\ p[k] \in Scopes
  OBVIOUS
<1>2. None \notin Scopes
  BY ScopeAssumption
<1>3. Closed(link, Follow(link, p[1])) /\ Closed(link, Follow(link, p[k]))
  BY <1>1, FollowClosed
<1>4. p[1] \in Follow(link, p[1]) /\ p[k] \in Follow(link, p[k])
  BY <1>1, FollowFacts
<1>5. \A i \in 1 .. Len(p) : p[i] \in Follow(link, p[1])
  BY <1>1, <1>2, <1>3, <1>4, PathIn
<1>6. Follow(link, p[1]) \subseteq Scopes /\ Follow(link, p[k]) \subseteq Scopes
  BY <1>1, FollowFacts
<1>7. Follow(link, p[k]) \subseteq Follow(link, p[1])
  BY <1>3, <1>5, <1>6, FollowIn
<1>8. C \subseteq Follow(link, p[1])
  BY <1>5, <1>7
<1>9. C \subseteq Scopes
  BY <1>6, <1>8
<1>10. p[1] \in C
  <2>1. CASE k = 1
    BY <2>1, <1>4
  <2>2. CASE k # 1
    BY <2>2
  <2> QED
    BY <2>1, <2>2
<1>11. Closed(link, C)
  <2>1. SUFFICES ASSUME NEW u \in C, link[u] # None
                 PROVE  link[u] \in C
    BY DEF Closed
  <2>2. CASE u \in Follow(link, p[k])
    BY <2>1, <2>2, <1>3 DEF Closed
  <2>3. CASE u \notin Follow(link, p[k])
    <3>1. PICK i \in 1 .. k - 1 : u = p[i]
      BY <2>3
    <3>2. i \in 1 .. Len(p) - 1 /\ link[u] = p[i + 1]
      BY <3>1 DEF Linked
    <3>3. CASE i + 1 = k
      BY <3>2, <3>3, <1>4
    <3>4. CASE i + 1 # k
      <4>1. i + 1 \in 1 .. k - 1
        BY <3>4
      <4> QED
        BY <3>2, <4>1
    <3> QED
      BY <3>3, <3>4
  <2> QED
    BY <2>2, <2>3
<1>12. Follow(link, p[1]) \subseteq C
  <2> HIDE DEF C
  <2> QED
    BY <1>9, <1>10, <1>11, FollowIn
<1> QED
  BY <1>8, <1>12

(* When the last of some linked scopes has no link, the walk from the      *)
(* first is all of them.                                                   *)
LEMMA FollowAll ==
    ASSUME NEW link, link \in [Scopes -> Pointers],
           NEW p \in Seq(Scopes), Linked(link, p), p # <<>>, link[p[Len(p)]] = None
    PROVE  Follow(link, p[1]) = {p[i] : i \in 1 .. Len(p)}
<1>1. Len(p) \in 1 .. Len(p) /\ p[Len(p)] \in Scopes
  OBVIOUS
<1>2. Follow(link, p[1]) = {p[i] : i \in 1 .. Len(p) - 1} \cup Follow(link, p[Len(p)])
  BY <1>1, FollowAlong
<1>3. Follow(link, p[Len(p)]) = {p[Len(p)]}
  BY <1>1, FollowSplit
<1>4. \A i \in 1 .. Len(p) : i = Len(p) \/ i \in 1 .. Len(p) - 1
  OBVIOUS
<1> QED
  BY <1>1, <1>2, <1>3, <1>4

-----------------------------------------------------------------------------
(* The invariant *)

(* What the scope in force and the scopes below it are to the rest: the    *)
(* orphans below it are live, hang on it alone, and are none of the other  *)
(* tokens; with the other tokens they make up the root's tree.             *)
LEMMA CurrentFacts ==
    ASSUME IInv, tokens # <<>>
    PROVE  /\ Len(tokens) \in Nat /\ Len(tokens) >= 1
           /\ Current \in Cascade(Current)
           /\ Cascade(Current) \subseteq liveScopes
           /\ \A t \in Cascade(Current) : t # Current => parent[t] \in Cascade(Current)
           /\ \A i \in 1 .. Len(tokens) - 1 : tokens[i] \notin Cascade(Current)
           /\ Cascade(tokens[1]) = {tokens[i] : i \in 1 .. Len(tokens) - 1} \cup Cascade(Current)
<1> USE DEF Cascade
<1>1. /\ tokens \in Seq(Scopes) /\ openChild \in [Scopes -> Pointers]
      /\ liveScopes \subseteq Scopes /\ None \notin Scopes
  BY ScopeAssumption DEF IInv, TreeSound, ScopeTypeOK
<1>2. Len(tokens) \in Nat /\ Len(tokens) >= 1
  BY <1>1
<1>3. PICK n \in Nat : n = Len(tokens) /\ n \in 1 .. n
  BY <1>2
<1>4. PICK c \in Scopes : c = tokens[n] /\ c = Current
  BY <1>1, <1>2, <1>3 DEF Current
<1>5. /\ \A i \in 1 .. n : tokens[i] \in liveScopes
      /\ \A i \in 1 .. n : parent[tokens[i]] = IF i = 1 THEN None ELSE tokens[i - 1]
      /\ \A s \in liveScopes : openChild[s] # None =>
           openChild[s] \in liveScopes /\ parent[openChild[s]] = s
  BY <1>3 DEF IInv, TreeSound
<1>6. /\ \A i, j \in 1 .. n : tokens[i] = tokens[j] => i = j
      /\ Linked(openChild, tokens)
  BY <1>3 DEF IInv, PathLinked, Linked
<1>7. c \in Follow(openChild, c) /\ Closed(openChild, Follow(openChild, c))
  BY <1>1, FollowFacts, FollowClosed
<1>8. Follow(openChild, c) \subseteq liveScopes
  <2>1. Closed(openChild, liveScopes)
    BY <1>5 DEF Closed
  <2>2. c \in liveScopes
    BY <1>3, <1>4, <1>5
  <2> QED
    BY <1>1, <2>1, <2>2, FollowIn
<1>9. ASSUME NEW t \in Follow(openChild, c), t # c
      PROVE  parent[t] \in Follow(openChild, c)
  <2>1. PICK u \in Follow(openChild, c) : openChild[u] = t
    BY <1>1, <1>9, FollowBack
  <2>2. t # None
    BY <1>1, <1>8
  <2> QED
    BY <1>5, <1>8, <2>1, <2>2
<1>10. \A i \in 1 .. n - 1 : tokens[i] \notin Follow(openChild, c)
  <2> DEFINE A == {tokens[i] : i \in 1 .. n - 1}
             C == Follow(openChild, c) \ A
  <2>1. c \notin A
    <3>1. SUFFICES ASSUME NEW i \in 1 .. n - 1, c = tokens[i]
                   PROVE  FALSE
      OBVIOUS
    <3>2. i \in 1 .. n /\ i # n
      OBVIOUS
    <3> QED
      BY <1>3, <1>4, <1>6, <3>1, <3>2
  <2>2. c \in C /\ C \subseteq Scopes
    BY <1>1, <1>7, <1>8, <2>1
  <2>3. Closed(openChild, C)
    <3>1. SUFFICES ASSUME NEW u \in C, openChild[u] # None
                   PROVE  openChild[u] \in C
      BY DEF Closed
    <3>2. openChild[u] \in Follow(openChild, c)
      BY <1>7, <3>1 DEF Closed
    <3>3. SUFFICES ASSUME NEW i \in 1 .. n - 1, openChild[u] = tokens[i]
                   PROVE  FALSE
      BY <3>2
    <3>4. parent[tokens[i]] = u
      BY <1>5, <1>8, <3>1, <3>3
    <3>5. CASE i = 1
      BY <1>1, <1>5, <1>8, <3>3, <3>4, <3>5
    <3>6. CASE i # 1
      <4>1. i - 1 \in 1 .. n - 1 /\ u = tokens[i - 1]
        BY <1>5, <3>3, <3>4, <3>6
      <4> QED
        BY <4>1
    <3> QED
      BY <3>5, <3>6
  <2>4. Follow(openChild, c) \subseteq C
    <3> HIDE DEF C
    <3> QED
      BY <2>2, <2>3, FollowIn
  <2> QED
    BY <2>4
<1>11. Follow(openChild, tokens[1]) = {tokens[i] : i \in 1 .. n - 1} \cup Follow(openChild, c)
  <2>1. n \in 1 .. Len(tokens)
    BY <1>3
  <2>2. Follow(openChild, tokens[1]) = {tokens[i] : i \in 1 .. n - 1} \cup Follow(openChild, tokens[n])
    BY <1>1, <1>6, <2>1, FollowAlong, ZenonT(60)
  <2> QED
    BY <1>4, <2>2
<1> QED
  BY <1>2, <1>3, <1>4, <1>7, <1>8, <1>9, <1>10, <1>11

(* The invariant holds before the first behavior is invoked. *)
LEMMA InvInit == ScopeInit => IInv
<1>1. SUFFICES ASSUME ScopeInit
               PROVE  IInv
  OBVIOUS
<1>2. TreeSound
  <2>1. ScopeTypeOK
    <3>1. doubleFree \in BOOLEAN
      BY <1>1, Zenon DEF ScopeInit
    <3>2. tokens \in Seq(Scopes)
      BY <1>1 DEF ScopeInit
    <3> QED
      BY <1>1, <3>1, <3>2 DEF ScopeInit, ScopeTypeOK, Pointers
  <2>2. tokens = <<>> /\ liveScopes = {} /\ Len(<<>>) = 0
    BY <1>1 DEF ScopeInit
  <2> QED
    BY <2>1, <2>2 DEF TreeSound
<1>3. PathLinked /\ OnlyOverwrittenLeak /\ LostApart /\ BlocksOwned
  BY <1>1 DEF ScopeInit, PathLinked, OnlyOverwrittenLeak, LostApart, BlocksOwned
<1> QED
  BY <1>2, <1>3 DEF IInv

(* END_SCOPE and return: sigil_scope_destroy of the scope in force frees   *)
(* that scope and its orphans, each once, and unlinks it from its parent   *)
(* (memory.c:98-113).                                                      *)
LEMMA DestroyStep ==
    ASSUME IInv, tokens # <<>>, ScopeDestroy(Current),
           tokens' = SubSeq(tokens, 1, Len(tokens) - 1)
    PROVE  IInv'
<1>1. /\ tokens \in Seq(Scopes) /\ openChild \in [Scopes -> Pointers]
      /\ parent \in [Scopes -> Pointers] /\ allocs \in [Scopes -> SUBSET Blocks]
      /\ liveScopes \subseteq Scopes /\ liveBlocks \subseteq Blocks /\ lost \subseteq Scopes
      /\ None \notin Scopes
  BY ScopeAssumption DEF IInv, TreeSound, ScopeTypeOK
<1>2. PICK n \in Nat : n = Len(tokens) /\ n >= 1
  BY CurrentFacts
<1>3. PICK c \in Scopes : c = Current /\ c = tokens[n]
  BY <1>1, <1>2 DEF Current
<1>4. PICK G : G = Cascade(Current)
  OBVIOUS
<1>5. /\ c \in G /\ G \subseteq liveScopes
      /\ \A t \in G : t # c => parent[t] \in G
      /\ \A i \in 1 .. n - 1 : tokens[i] \notin G
  BY <1>2, <1>3, <1>4, CurrentFacts
<1>6. Cascade(tokens[1]) = {tokens[i] : i \in 1 .. n - 1} \cup G
  BY <1>2, <1>4, CurrentFacts
<1>7. liveScopes = lost \cup {tokens[i] : i \in 1 .. n - 1} \cup G /\ lost \cap G = {}
      /\ lost \cap {tokens[i] : i \in 1 .. n - 1} = {}
  BY <1>6 DEF IInv, OnlyOverwrittenLeak, LostApart
<1>8. /\ liveScopes' = liveScopes \ G
      /\ liveBlocks' = liveBlocks \ UNION {allocs[t] : t \in G}
      /\ doubleFree' = \/ doubleFree
                       \/ ~(G \subseteq liveScopes)
                       \/ \E t \in G : ~(allocs[t] \subseteq liveBlocks)
      /\ parent' = parent /\ allocs' = allocs /\ lost' = lost
  BY <1>4 DEF ScopeDestroy
<1>9. openChild' = [t \in Scopes |->
                     IF parent[c] = t /\ openChild[t] = c THEN None ELSE openChild[t]]
  BY <1>3 DEF ScopeDestroy
<1>10. /\ \A i \in 1 .. n : tokens[i] \in liveScopes
       /\ \A i \in 1 .. n : parent[tokens[i]] = IF i = 1 THEN None ELSE tokens[i - 1]
       /\ \A s \in liveScopes : openChild[s] # None =>
            openChild[s] \in liveScopes /\ parent[openChild[s]] = s
  BY <1>2 DEF IInv, TreeSound
<1>11. /\ \A i, j \in 1 .. n : tokens[i] = tokens[j] => i = j
       /\ \A i \in 1 .. n - 1 : openChild[tokens[i]] = tokens[i + 1]
  BY <1>2 DEF IInv, PathLinked
<1>12. tokens' \in Seq(Scopes) /\ Len(tokens') = n - 1 /\ \A i \in 1 .. n - 1 : tokens'[i] = tokens[i]
  BY <1>1, <1>2
<1>13. ~doubleFree'
  BY <1>5, <1>8 DEF IInv, BlocksOwned
<1>14. ScopeTypeOK'
  <2>1. openChild' \in [Scopes -> Pointers]
    BY <1>1, <1>9 DEF Pointers
  <2>2. doubleFree' \in BOOLEAN
    BY <1>13, <1>8, Zenon
  <2> QED
    BY <1>1, <1>8, <1>12, <2>1, <2>2 DEF ScopeTypeOK
<1>15. ASSUME NEW s \in liveScopes', openChild'[s] # None
       PROVE  openChild'[s] \in liveScopes' /\ parent'[openChild'[s]] = s
  <2>1. s \in liveScopes /\ s \notin G /\ s \in Scopes
    BY <1>1, <1>8, <1>15
  <2>2. openChild'[s] = openChild[s] /\ ~(parent[c] = s /\ openChild[s] = c)
    BY <1>9, <1>15, <2>1
  <2>3. openChild[s] \in liveScopes /\ parent[openChild[s]] = s
    BY <1>10, <1>15, <2>1, <2>2
  <2>4. openChild[s] \notin G
    BY <1>5, <2>1, <2>2, <2>3
  <2> QED
    BY <1>8, <2>2, <2>3, <2>4
<1>16. TreeSound'
  <2>1. \A i \in 1 .. n - 1 : tokens'[i] \in liveScopes'
    BY <1>5, <1>8, <1>10, <1>12
  <2>2. \A i \in 1 .. n - 1 : parent'[tokens'[i]] = IF i = 1 THEN None ELSE tokens'[i - 1]
    <3>1. TAKE i \in 1 .. n - 1
    <3>2. i \in 1 .. n /\ tokens'[i] = tokens[i]
      BY <1>12
    <3>3. i # 1 => i - 1 \in 1 .. n - 1
      OBVIOUS
    <3> QED
      BY <1>8, <1>10, <1>12, <3>2, <3>3
  <2> QED
    BY <1>12, <1>14, <1>15, <2>1, <2>2 DEF TreeSound
<1>17. \A i \in 1 .. n - 2 : openChild'[tokens'[i]] = tokens'[i + 1]
  <2>1. TAKE i \in 1 .. n - 2
  <2>2. i \in 1 .. n - 1 /\ i + 1 \in 1 .. n - 1 /\ i + 1 # n /\ n \in 1 .. n
    OBVIOUS
  <2>3. openChild[tokens[i]] = tokens[i + 1] /\ tokens[i + 1] # c
    BY <1>3, <1>11, <2>2
  <2>4. tokens[i] \in Scopes
    BY <1>1, <1>2, <2>2
  <2>5. openChild'[tokens[i]] = openChild[tokens[i]]
    BY <1>9, <2>3, <2>4
  <2> QED
    BY <1>12, <2>2, <2>3, <2>5
<1>18. PathLinked'
  <2>1. \A i, j \in 1 .. n - 1 : tokens'[i] = tokens'[j] => i = j
    BY <1>11, <1>12
  <2>2. Len(tokens') = n - 1 /\ Len(tokens') - 1 = n - 2
    BY <1>12
  <2> QED
    BY <1>17, <2>1, <2>2 DEF PathLinked
<1>19. tokens' # <<>> => Follow(openChild', tokens'[1]) = {tokens[i] : i \in 1 .. n - 1}
  <2>1. SUFFICES ASSUME tokens' # <<>>
                 PROVE  Follow(openChild', tokens'[1]) = {tokens[i] : i \in 1 .. n - 1}
    OBVIOUS
  <2>2. n - 1 \in 1 .. n - 1 /\ n \in 1 .. n /\ n # 1
    BY <1>12, <2>1
  <2>3. parent[c] = tokens[n - 1] /\ openChild[tokens[n - 1]] = c /\ tokens[n - 1] \in Scopes
    BY <1>1, <1>2, <1>3, <1>10, <1>11, <2>2
  <2>4. openChild'[tokens[n - 1]] = None
    BY <1>9, <2>3
  <2>5. Linked(openChild', tokens')
    BY <1>12, <1>17 DEF Linked
  <2>6. openChild' \in [Scopes -> Pointers]
    BY <1>14 DEF ScopeTypeOK
  <2>7. Follow(openChild', tokens'[1]) = {tokens'[i] : i \in 1 .. n - 1}
    BY <1>12, <2>1, <2>2, <2>4, <2>5, <2>6, FollowAll, ZenonT(60)
  <2> QED
    BY <1>12, <2>7
<1>20. OnlyOverwrittenLeak' /\ LostApart'
  <2>1. liveScopes' = lost' \cup {tokens[i] : i \in 1 .. n - 1}
    BY <1>5, <1>7, <1>8
  <2>2. CASE tokens' = <<>>
    <3>1. n - 1 = 0
      <4>1. Len(tokens') = Len(<<>>)
        BY <2>2
      <4>2. Len(<<>>) = 0
        OBVIOUS
      <4> QED
        BY <1>12, <4>1, <4>2
    <3> QED
      BY <2>1, <2>2, <3>1 DEF OnlyOverwrittenLeak, LostApart
  <2>3. CASE tokens' # <<>>
    BY <1>7, <1>8, <1>19, <2>1, <2>3 DEF OnlyOverwrittenLeak, LostApart, Cascade
  <2> QED
    BY <2>2, <2>3
<1>21. BlocksOwned'
  <2>1. /\ \A s \in liveScopes : allocs[s] \subseteq liveBlocks
        /\ \A s, t \in liveScopes : \A b \in allocs[s] : b \in allocs[t] => s = t
        /\ \A b \in liveBlocks : \E s \in liveScopes : b \in allocs[s]
    BY DEF IInv, BlocksOwned
  <2>2. \A b : b \in liveBlocks' <=> b \in liveBlocks /\ \A t \in G : b \notin allocs[t]
    BY <1>8
  <2>3. ASSUME NEW s \in liveScopes', NEW b \in allocs'[s]
        PROVE  b \in liveBlocks'
    BY <1>5, <1>8, <2>1, <2>2, <2>3
  <2>4. ASSUME NEW b \in liveBlocks'
        PROVE  \E s \in liveScopes' : b \in allocs'[s]
    BY <1>8, <2>1, <2>2, <2>4
  <2>5. \A s, t \in liveScopes' : \A b \in allocs'[s] : b \in allocs'[t] => s = t
    BY <1>8, <2>1
  <2> QED
    BY <1>13, <2>3, <2>4, <2>5 DEF BlocksOwned
<1> QED
  BY <1>16, <1>18, <1>20, <1>21 DEF IInv

(* SCOPE and the invocation of a behavior: sigil_scope_create links the    *)
(* new scope below the one in force, and what that one had below it is out *)
(* of reach from then on (memory.c:41-60).                                 *)
LEMMA CreateStep ==
    ASSUME IInv, NEW s \in Scopes, NEW p \in Pointers,
           p = (IF tokens = <<>> THEN None ELSE Current), ScopeCreate(s, p)
    PROVE  IInv'
<1>1. /\ tokens \in Seq(Scopes) /\ openChild \in [Scopes -> Pointers]
      /\ parent \in [Scopes -> Pointers] /\ allocs \in [Scopes -> SUBSET Blocks]
      /\ liveScopes \subseteq Scopes /\ liveBlocks \subseteq Blocks /\ lost \subseteq Scopes
      /\ None \notin Scopes /\ doubleFree \in BOOLEAN
  BY ScopeAssumption DEF IInv, TreeSound, ScopeTypeOK
<1>2. PICK n \in Nat : n = Len(tokens)
  BY <1>1
<1>3. /\ \A i \in 1 .. n : tokens[i] \in liveScopes
      /\ \A i \in 1 .. n : parent[tokens[i]] = IF i = 1 THEN None ELSE tokens[i - 1]
      /\ \A t \in liveScopes : openChild[t] # None =>
           openChild[t] \in liveScopes /\ parent[openChild[t]] = t
  BY <1>2 DEF IInv, TreeSound
<1>4. /\ \A i, j \in 1 .. n : tokens[i] = tokens[j] => i = j
      /\ \A i \in 1 .. n - 1 : openChild[tokens[i]] = tokens[i + 1]
  BY <1>2 DEF IInv, PathLinked
<1>5. /\ s \notin liveScopes /\ liveScopes' = liveScopes \cup {s}
      /\ allocs' = [allocs EXCEPT ![s] = {}] /\ parent' = [parent EXCEPT ![s] = p]
      /\ openChild' = [t \in Scopes |-> IF t = s THEN None
                                        ELSE IF t = p THEN s ELSE openChild[t]]
      /\ tokens' = Append(tokens, s) /\ liveBlocks' = liveBlocks /\ doubleFree' = doubleFree
  BY DEF ScopeCreate
<1>6. /\ tokens' \in Seq(Scopes) /\ Len(tokens') = n + 1 /\ tokens'[n + 1] = s
      /\ \A i \in 1 .. n : tokens'[i] = tokens[i]
  BY <1>1, <1>2, <1>5
<1>7. /\ parent'[s] = p /\ openChild'[s] = None /\ allocs'[s] = {}
      /\ \A t \in liveScopes : parent'[t] = parent[t] /\ allocs'[t] = allocs[t]
      /\ \A t \in liveScopes : t # p => openChild'[t] = openChild[t]
  BY <1>1, <1>5
<1>8. p # None => n >= 1 /\ n \in 1 .. n /\ p = tokens[n] /\ p \in liveScopes /\ openChild'[p] = s
  <2>1. SUFFICES ASSUME p # None
                 PROVE  n >= 1 /\ n \in 1 .. n /\ p = tokens[n] /\ p \in liveScopes /\ openChild'[p] = s
    OBVIOUS
  <2>2. n >= 1 /\ n \in 1 .. n /\ p = tokens[n]
    BY <1>1, <1>2, <2>1 DEF Current
  <2>3. p \in liveScopes
    BY <1>3, <2>2
  <2>4. openChild'[p] = s
    BY <1>1, <1>5, <2>3
  <2> QED
    BY <2>2, <2>3, <2>4
<1>9. p = None => n = 0 /\ tokens = <<>>
  <2>1. SUFFICES ASSUME p = None
                 PROVE  tokens = <<>>
    BY <1>2
  <2>2. tokens # <<>> => Current \in Scopes
    BY <1>1 DEF Current
  <2> QED
    BY <1>1, <2>1, <2>2
<1>10. ScopeTypeOK' /\ lost' \subseteq Scopes
  <2>1. parent' \in [Scopes -> Pointers] /\ openChild' \in [Scopes -> Pointers]
        /\ allocs' \in [Scopes -> SUBSET Blocks]
    BY <1>1, <1>5 DEF Pointers
  <2>2. lost' \subseteq Scopes
    BY <1>1 DEF ScopeCreate, Cascade, Follow
  <2> QED
    BY <1>1, <1>5, <1>6, <2>1, <2>2 DEF ScopeTypeOK
<1>11. TreeSound'
  <2>1. \A i \in 1 .. n + 1 : tokens'[i] \in liveScopes'
    BY <1>3, <1>5, <1>6
  <2>2. \A i \in 1 .. n + 1 : parent'[tokens'[i]] = IF i = 1 THEN None ELSE tokens'[i - 1]
    <3>1. TAKE i \in 1 .. n + 1
    <3>2. CASE i = n + 1
      BY <1>6, <1>7, <1>8, <1>9, <3>2
    <3>3. CASE i # n + 1
      <4>1. i \in 1 .. n /\ (i # 1 => i - 1 \in 1 .. n)
        BY <3>3
      <4> QED
        BY <1>3, <1>6, <1>7, <4>1
    <3> QED
      BY <3>2, <3>3
  <2>3. ASSUME NEW t \in liveScopes', openChild'[t] # None
        PROVE  openChild'[t] \in liveScopes' /\ parent'[openChild'[t]] = t
    <3>1. t # s /\ t \in liveScopes
      BY <1>5, <1>7, <2>3
    <3>2. CASE t = p
      BY <1>1, <1>5, <1>7, <1>8, <3>1, <3>2
    <3>3. CASE t # p
      BY <1>3, <1>5, <1>7, <2>3, <3>1, <3>3
    <3> QED
      BY <3>2, <3>3
  <2> QED
    BY <1>6, <1>10, <2>1, <2>2, <2>3 DEF TreeSound
<1>12. \A i \in 1 .. n : openChild'[tokens'[i]] = tokens'[i + 1]
  <2>1. TAKE i \in 1 .. n
  <2>2. CASE i = n
    BY <1>6, <1>8, <1>9, <2>2
  <2>3. CASE i # n
    <3>1. i \in 1 .. n - 1 /\ i + 1 \in 1 .. n /\ n \in 1 .. n
      BY <2>3
    <3>2. tokens[i] # p /\ tokens[i] \in liveScopes
      BY <1>3, <1>4, <1>8, <1>9, <2>3, <3>1
    <3> QED
      BY <1>4, <1>6, <1>7, <3>1, <3>2
  <2> QED
    BY <2>2, <2>3
<1>13. PathLinked'
  <2>1. \A i, j \in 1 .. n + 1 : tokens'[i] = tokens'[j] => i = j
    <3>1. \A i \in 1 .. n : tokens'[i] \in liveScopes
      BY <1>3, <1>6
    <3>2. SUFFICES ASSUME NEW i \in 1 .. n + 1, NEW j \in 1 .. n + 1, tokens'[i] = tokens'[j]
                   PROVE  i = j
      OBVIOUS
    <3>3. (i = n + 1 \/ i \in 1 .. n) /\ (j = n + 1 \/ j \in 1 .. n)
      OBVIOUS
    <3> QED
      BY <1>4, <1>5, <1>6, <3>1, <3>2, <3>3
  <2>2. Len(tokens') = n + 1 /\ Len(tokens') - 1 = n
    BY <1>6
  <2> QED
    BY <1>12, <2>1, <2>2 DEF PathLinked
<1>14. Follow(openChild', tokens'[1]) = {tokens[i] : i \in 1 .. n} \cup {s}
  <2>1. Linked(openChild', tokens') /\ openChild' \in [Scopes -> Pointers]
    BY <1>6, <1>10, <1>12 DEF Linked, ScopeTypeOK
  <2>2. tokens' # <<>>
    BY <1>6
  <2>3. Follow(openChild', tokens'[1]) = {tokens'[i] : i \in 1 .. n + 1}
    <3>1. openChild'[tokens'[Len(tokens')]] = None
      BY <1>6, <1>7
    <3>2. Follow(openChild', tokens'[1]) = {tokens'[i] : i \in 1 .. Len(tokens')}
      BY <1>6, <2>1, <2>2, <3>1, FollowAll
    <3> QED
      BY <1>6, <3>2
  <2>4. \A i \in 1 .. n + 1 : i \in 1 .. n \/ i = n + 1
    OBVIOUS
  <2>5. 1 .. n \subseteq 1 .. n + 1 /\ n + 1 \in 1 .. n + 1
    OBVIOUS
  <2> QED
    BY <1>6, <2>3, <2>4, <2>5
<1>15. /\ liveScopes' = lost' \cup {tokens[i] : i \in 1 .. n} \cup {s}
       /\ lost' \cap {tokens[i] : i \in 1 .. n} = {} /\ s \notin lost'
  <2>1. CASE p = None
    <3>1. lost' = lost /\ liveScopes = lost /\ n = 0
      BY <1>9, <2>1 DEF ScopeCreate, IInv, OnlyOverwrittenLeak
    <3> QED
      BY <1>5, <3>1
  <2>2. CASE p # None
    <3>1. p = Current /\ tokens # <<>> /\ p \in Scopes
      BY <1>1, <1>8, <2>2
    <3>2. PICK G : G = Cascade(p)
      OBVIOUS
    <3>3. /\ p \in G /\ G \subseteq liveScopes
          /\ \A i \in 1 .. n - 1 : tokens[i] \notin G
          /\ liveScopes = lost \cup {tokens[i] : i \in 1 .. n - 1} \cup G
          /\ lost \cap G = {} /\ lost \cap {tokens[i] : i \in 1 .. n - 1} = {}
      <4>1. /\ p \in G /\ G \subseteq liveScopes
            /\ \A i \in 1 .. n - 1 : tokens[i] \notin G
            /\ Cascade(tokens[1]) = {tokens[i] : i \in 1 .. n - 1} \cup G
        BY <1>2, <3>1, <3>2, CurrentFacts
      <4> QED
        BY <3>1, <4>1 DEF IInv, OnlyOverwrittenLeak, LostApart
    <3>4. {tokens[i] : i \in 1 .. n} = {tokens[i] : i \in 1 .. n - 1} \cup {p}
      <4>1. \A i \in 1 .. n : i \in 1 .. n - 1 \/ i = n
        OBVIOUS
      <4>2. 1 .. n - 1 \subseteq 1 .. n /\ n \in 1 .. n /\ tokens[n] = p
        BY <1>8, <2>2
      <4> QED
        BY <4>1, <4>2
    <3>5. CASE openChild[p] = None
      <4>1. lost' = lost
        BY <3>5 DEF ScopeCreate
      <4>2. G = {p}
        BY <1>1, <3>1, <3>2, <3>5, FollowSplit DEF Cascade
      <4> QED
        BY <1>3, <1>5, <1>8, <2>2, <3>3, <3>4, <4>1, <4>2
    <3>6. CASE openChild[p] # None
      <4>1. PICK H : H = Cascade(openChild[p])
        OBVIOUS
      <4>2. lost' = lost \cup H
        BY <2>2, <3>6, <4>1 DEF ScopeCreate
      <4>3. G = {p} \cup H
        BY <1>1, <3>1, <3>2, <3>6, <4>1, FollowSplit DEF Cascade
      <4>4. p \notin H
        <5>1. openChild[p] \in Scopes /\ openChild[p] \in G
          BY <1>1, <1>3, <1>8, <2>2, <3>6, <4>1, <4>3, FollowFacts DEF Cascade
        <5>2. SUFFICES ASSUME p \in H
                       PROVE  FALSE
          OBVIOUS
        <5>3. PICK u \in G : openChild[u] = p
          <6>1. CASE p = openChild[p]
            BY <3>3, <6>1
          <6>2. CASE p # openChild[p]
            BY <1>1, <4>1, <4>3, <5>1, <5>2, <6>2, FollowBack DEF Cascade
          <6> QED
            BY <6>1, <6>2
        <5>4. parent[p] = u
          BY <1>1, <1>3, <3>1, <3>3, <5>3
        <5>5. CASE n = 1
          BY <1>1, <1>3, <1>8, <2>2, <3>3, <5>3, <5>4, <5>5
        <5>6. CASE n # 1
          <6>1. n - 1 \in 1 .. n - 1 /\ u = tokens[n - 1]
            BY <1>3, <1>8, <2>2, <5>4, <5>6
          <6> QED
            BY <3>3, <5>3, <6>1
        <5> QED
          BY <5>5, <5>6
      <4> QED
        BY <1>3, <1>5, <1>8, <2>2, <3>3, <3>4, <4>2, <4>3, <4>4
    <3> QED
      BY <3>5, <3>6
  <2> QED
    BY <2>1, <2>2
<1>16. OnlyOverwrittenLeak' /\ LostApart'
  <2>1. tokens' # <<>>
    BY <1>6
  <2> QED
    BY <1>14, <1>15, <2>1 DEF OnlyOverwrittenLeak, LostApart, Cascade
<1>17. BlocksOwned'
  <2>1. /\ ~doubleFree
        /\ \A t \in liveScopes : allocs[t] \subseteq liveBlocks
        /\ \A t, u \in liveScopes : \A b \in allocs[t] : b \in allocs[u] => t = u
        /\ \A b \in liveBlocks : \E t \in liveScopes : b \in allocs[t]
    BY DEF IInv, BlocksOwned
  <2> QED
    BY <1>5, <1>7, <2>1 DEF BlocksOwned
<1> QED
  BY <1>11, <1>13, <1>16, <1>17 DEF IInv

(* JUMP out of scopes changes the tokens in force and nothing else: what   *)
(* it leaves stays in the root's tree (codegen/mod.rs, Jump).              *)
LEMMA JumpOutStep ==
    ASSUME IInv, NEW d, JumpOut(d)
    PROVE  IInv'
<1>1. /\ tokens \in Seq(Scopes) /\ Len(tokens) \in Nat
      /\ d \in 1 .. Len(tokens) - 1 /\ tokens' = SubSeq(tokens, 1, d)
      /\ liveScopes' = liveScopes /\ liveBlocks' = liveBlocks /\ parent' = parent
      /\ openChild' = openChild /\ allocs' = allocs /\ lost' = lost /\ doubleFree' = doubleFree
  BY DEF JumpOut, IInv, TreeSound, ScopeTypeOK
<1>2. /\ tokens' \in Seq(Scopes) /\ Len(tokens') = d /\ \A i \in 1 .. d : tokens'[i] = tokens[i]
      /\ tokens # <<>> /\ tokens' # <<>> /\ tokens'[1] = tokens[1]
      /\ 1 .. d \subseteq 1 .. Len(tokens) /\ 1 .. d - 1 \subseteq 1 .. Len(tokens) - 1
  BY <1>1
<1>3. ScopeTypeOK'
  BY <1>1, <1>2 DEF IInv, TreeSound, ScopeTypeOK
<1>4. \A i \in 1 .. d : /\ tokens'[i] \in liveScopes'
                       /\ parent'[tokens'[i]] = IF i = 1 THEN None ELSE tokens'[i - 1]
  <2>1. TAKE i \in 1 .. d
  <2>2. i \in 1 .. Len(tokens) /\ tokens'[i] = tokens[i] /\ (i # 1 => tokens'[i - 1] = tokens[i - 1])
    BY <1>1, <1>2
  <2> QED
    BY <1>1, <2>2 DEF IInv, TreeSound
<1>5. TreeSound'
  BY <1>1, <1>2, <1>3, <1>4 DEF IInv, TreeSound
<1>6. PathLinked'
  <2>1. \A i, j \in 1 .. d : tokens'[i] = tokens'[j] => i = j
    BY <1>2 DEF IInv, PathLinked
  <2>2. \A i \in 1 .. d - 1 : openChild'[tokens'[i]] = tokens'[i + 1]
    <3>1. TAKE i \in 1 .. d - 1
    <3>2. i \in 1 .. Len(tokens) - 1 /\ tokens'[i] = tokens[i] /\ tokens'[i + 1] = tokens[i + 1]
      BY <1>1, <1>2
    <3> QED
      BY <1>1, <3>2 DEF IInv, PathLinked
  <2> QED
    BY <1>2, <2>1, <2>2 DEF PathLinked
<1>7. OnlyOverwrittenLeak' /\ LostApart'
  BY <1>1, <1>2 DEF IInv, OnlyOverwrittenLeak, LostApart, Cascade
<1>8. BlocksOwned'
  BY <1>1 DEF IInv, BlocksOwned
<1> QED
  BY <1>5, <1>6, <1>7, <1>8 DEF IInv

(* ALLOC and FREE leave the scopes and their links alone, so only the      *)
(* registries of blocks are in question.                                   *)
LEMMA RegistryStep ==
    ASSUME IInv, UNCHANGED <<liveScopes, parent, openChild, tokens, lost>>,
           liveBlocks' \subseteq Blocks, allocs' \in [Scopes -> SUBSET Blocks],
           doubleFree' \in BOOLEAN, BlocksOwned'
    PROVE  IInv'
  BY DEF IInv, TreeSound, ScopeTypeOK, PathLinked, OnlyOverwrittenLeak, LostApart, Cascade

(* ALLOC registers a block malloc has just handed out, so in no other      *)
(* scope's registry (memory.c:62-84).                                      *)
LEMMA AllocStep ==
    ASSUME IInv, NEW b \in Blocks, ScopeAlloc(b)
    PROVE  IInv'
<1>1. PICK c \in liveScopes : c = Current
  BY CurrentFacts DEF ScopeAlloc
<1>2. /\ allocs \in [Scopes -> SUBSET Blocks] /\ liveBlocks \subseteq Blocks
      /\ liveScopes \subseteq Scopes
  BY DEF IInv, TreeSound, ScopeTypeOK
<1>3. /\ b \notin liveBlocks /\ liveBlocks' = liveBlocks \cup {b}
      /\ allocs' = [allocs EXCEPT ![c] = @ \cup {b}]
      /\ liveScopes' = liveScopes /\ doubleFree' = doubleFree
  BY <1>1 DEF ScopeAlloc
<1>4. /\ allocs'[c] = allocs[c] \cup {b}
      /\ \A s \in liveScopes : s # c => allocs'[s] = allocs[s]
  BY <1>2, <1>3
<1>5. BlocksOwned'
  BY <1>3, <1>4 DEF IInv, BlocksOwned
<1>6. doubleFree' \in BOOLEAN
  BY <1>3 DEF IInv, TreeSound, ScopeTypeOK
<1> QED
  BY <1>2, <1>3, <1>5, <1>6, RegistryStep, ZenonT(60) DEF ScopeAlloc

(* FREE finds its block in the registry of a scope in force, where it is   *)
(* live and registered once (memory.c:86-97).                              *)
LEMMA FreeStep ==
    ASSUME IInv, NEW b \in Blocks, ScopeFree(b)
    PROVE  IInv'
<1>1. /\ allocs \in [Scopes -> SUBSET Blocks] /\ liveBlocks \subseteq Blocks
      /\ liveScopes \subseteq Scopes /\ tokens \in Seq(Scopes) /\ parent \in [Scopes -> Pointers]
      /\ tokens # <<>>
  BY DEF ScopeFree, IInv, TreeSound, ScopeTypeOK
<1>2. PICK s \in Owners(b) : /\ allocs' = [allocs EXCEPT ![s] = @ \ {b}]
                             /\ liveBlocks' = liveBlocks \ {b}
  BY DEF ScopeFree
<1>3. s \in liveScopes /\ b \in allocs[s]
  <2> DEFINE C == {tokens[i] : i \in 1 .. Len(tokens)}
  <2>1. Current \in C /\ C \subseteq Scopes
    BY <1>1 DEF Current
  <2>2. Closed(parent, C)
    <3>1. SUFFICES ASSUME NEW i \in 1 .. Len(tokens), parent[tokens[i]] # None
                   PROVE  parent[tokens[i]] \in C
      BY DEF Closed
    <3>2. i # 1 /\ parent[tokens[i]] = tokens[i - 1]
      BY <3>1 DEF IInv, TreeSound
    <3>3. i - 1 \in 1 .. Len(tokens)
      BY <1>1, <3>2
    <3> QED
      BY <3>2, <3>3
  <2>3. Follow(parent, Current) \subseteq C
    <3> HIDE DEF C
    <3> QED
      BY <2>1, <2>2, FollowIn
  <2>4. s \in C /\ b \in allocs[s]
    BY <1>2, <2>3 DEF Owners, Chain
  <2> QED
    BY <2>4 DEF IInv, TreeSound
<1>4. /\ allocs'[s] = allocs[s] \ {b}
      /\ \A t \in liveScopes : t # s => allocs'[t] = allocs[t]
      /\ liveScopes' = liveScopes
  BY <1>1, <1>2, <1>3 DEF ScopeFree
<1>5. ~doubleFree'
  BY <1>3 DEF ScopeFree, IInv, BlocksOwned
<1>6. BlocksOwned'
  BY <1>2, <1>3, <1>4, <1>5 DEF IInv, BlocksOwned
<1>7. allocs' \in [Scopes -> SUBSET Blocks] /\ liveBlocks' \subseteq Blocks
  BY <1>1, <1>2, <1>3
<1>8. doubleFree' \in BOOLEAN
  BY Zenon DEF ScopeFree
<1> QED
  BY <1>6, <1>7, <1>8, RegistryStep DEF ScopeFree

(* Every call the generated code makes into the allocator, and every JUMP, *)
(* keeps the invariant.                                                    *)
LEMMA InvStep == IInv /\ [ScopeNext]_scopeVars => IInv'
<1>1. SUFFICES ASSUME IInv, [ScopeNext]_scopeVars
               PROVE  IInv'
  OBVIOUS
<1>2. tokens \in Seq(Scopes) /\ (tokens # <<>> => Current \in Scopes)
  BY <1>1 DEF IInv, TreeSound, ScopeTypeOK, Current
<1>3. ASSUME NEW s \in Scopes, Invoke(s)
      PROVE  IInv'
  BY <1>1, <1>3, CreateStep DEF Invoke, Pointers
<1>4. ASSUME NEW s \in Scopes, EnterScope(s)
      PROVE  IInv'
  BY <1>1, <1>2, <1>4, CreateStep DEF EnterScope, Pointers
<1>5. CASE EndScope
  BY <1>1, <1>2, <1>5, DestroyStep DEF EndScope
<1>6. CASE Return
  <2>1. tokens # <<>> /\ SubSeq(tokens, 1, Len(tokens) - 1) = <<>>
    BY <1>2, <1>6 DEF Return
  <2> QED
    BY <1>1, <1>6, <2>1, DestroyStep DEF Return
<1>7. ASSUME NEW d \in 1 .. Cardinality(Scopes), JumpOut(d)
      PROVE  IInv'
  BY <1>1, <1>7, JumpOutStep
<1>8. ASSUME NEW b \in Blocks, ScopeAlloc(b) \/ ScopeFree(b)
      PROVE  IInv'
  BY <1>1, <1>8, AllocStep, FreeStep
<1>9. CASE UNCHANGED scopeVars
  BY <1>1, <1>9 DEF scopeVars, IInv, TreeSound, ScopeTypeOK, PathLinked, OnlyOverwrittenLeak,
                    LostApart, Cascade, BlocksOwned
<1> QED
  BY <1>1, <1>3, <1>4, <1>5, <1>6, <1>7, <1>8, <1>9 DEF ScopeNext

(* The invariant holds in every state. *)
LEMMA Invariance == ScopeSpec => []IInv
  BY InvInit, InvStep, PTL DEF ScopeSpec

-----------------------------------------------------------------------------
(* The links of the scope tree never dangle, however many scopes are open  *)
(* and however their addresses are recycled: the tokens the generated code *)
(* passes are live, and an open child is a live scope that names its       *)
(* opener as its parent (memory.c:56-58, 101-111).                         *)
THEOREM TreeStaysSound == ScopeSpec => []TreeSound
<1>1. IInv => TreeSound
  BY DEF IInv
<1> QED
  BY <1>1, Invariance, PTL

(* free() is called at most once for every malloc, by FREE or by the end   *)
(* of a scope that cascades into orphans, and a live block is registered   *)
(* with exactly one live scope (memory.c:86-88, 104-111).                  *)
THEOREM BlocksFreedOnce == ScopeSpec => []FreedOnce
<1>1. IInv => FreedOnce
  <2>1. SUFFICES ASSUME IInv, NEW b \in liveBlocks
                 PROVE  Cardinality({s \in liveScopes : b \in allocs[s]}) = 1
    BY DEF IInv, BlocksOwned, FreedOnce
  <2>2. PICK s \in liveScopes : b \in allocs[s]
    BY <2>1 DEF IInv, BlocksOwned
  <2>3. {t \in liveScopes : b \in allocs[t]} = {s}
    BY <2>1, <2>2 DEF IInv, BlocksOwned
  <2> QED
    BY <2>3, FS_Singleton
<1> QED
  BY <1>1, Invariance, PTL

(* No scope leaks but the orphans a later SCOPE pushed out of the tree:    *)
(* all other live scopes are in the root's tree, which the behavior's      *)
(* return releases as a whole (memory.c:17-21, 101-111).                   *)
THEOREM LeakOnlyOverwritten == ScopeSpec => []OnlyOverwrittenLeak
<1>1. IInv => OnlyOverwrittenLeak
  BY DEF IInv
<1> QED
  BY <1>1, Invariance, PTL
=============================================================================
