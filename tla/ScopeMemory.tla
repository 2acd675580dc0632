---------------------------- MODULE ScopeMemory ----------------------------
(***************************************************************************)
(* The scope allocator (runtime/src/memory.c) under the code the compiler  *)
(* generates for one leaf behavior (codegen/mod.rs: root scope, SCOPE,     *)
(* END_SCOPE, ALLOC, FREE, JUMP).                                          *)
(*                                                                         *)
(* A scope token is an ordinary value of the generated code: the code      *)
(* between SCOPE and END_SCOPE uses that SCOPE's token, so the tokens in   *)
(* force follow the program text.  A JUMP out of a scope is a plain branch *)
(* and calls nothing: the scope it leaves stays allocated, linked to its   *)
(* parent.  malloc may return any address that is not in use, so scopes    *)
(* and blocks are recycled.                                                *)
(***************************************************************************)
EXTENDS Integers, Sequences, FiniteSets

CONSTANTS Scopes,     \* addresses of SigilScope structs
          Blocks,     \* addresses of ALLOCated memory
          None        \* the null pointer

ASSUME ScopeAssumption ==
    /\ IsFiniteSet(Scopes) /\ IsFiniteSet(Blocks)
    /\ None \notin Scopes

VARIABLES liveScopes,  \* the SigilScope structs malloced and not freed
          liveBlocks,  \* the blocks malloced and not freed
          parent,      \* s->parent
          openChild,   \* s->open_child
          allocs,      \* s->allocs[0 .. count - 1]; its order does not matter
          tokens,      \* the tokens of the enclosing scopes, root first
          lost,        \* history: orphans whose parent link was overwritten
          doubleFree   \* history: has free() been called on freed memory?

scopeVars == <<liveScopes, liveBlocks, parent, openChild, allocs, tokens, lost, doubleFree>>

Pointers == Scopes \cup {None}

ScopeTypeOK ==
    /\ liveScopes \subseteq Scopes
    /\ liveBlocks \subseteq Blocks
    /\ parent \in [Scopes -> Pointers]
    /\ openChild \in [Scopes -> Pointers]
    /\ allocs \in [Scopes -> SUBSET Blocks]
    /\ tokens \in Seq(Scopes)
    /\ lost \subseteq Scopes
    /\ doubleFree \in BOOLEAN

ScopeInit ==
    /\ liveScopes = {}
    /\ liveBlocks = {}
    /\ parent = [s \in Scopes |-> None]
    /\ openChild = [s \in Scopes |-> None]
    /\ allocs = [s \in Scopes |-> {}]
    /\ tokens = <<>>
    /\ lost = {}
    /\ doubleFree = FALSE

-----------------------------------------------------------------------------
(* self.current_scope: the token the generated code passes at this point. *)
Current == tokens[Len(tokens)]

(* The scopes met by following `link` from s until it is null: the least   *)
(* set that has s and, with a scope, the one it links to.                  *)
Follow(link, s) ==
    {t \in Scopes : \A C \in SUBSET Scopes :
        s \in C /\ (\A u \in C : link[u] # None => link[u] \in C) => t \in C}

(* The scopes sigil_scope_destroy(s) releases: s and the open children     *)
(* below it.                                                               *)
Cascade(s) == Follow(openChild, s)

(* The scopes sigil_scope_free(s, _) searches: s and its ancestors. *)
Chain(s) == Follow(parent, s)

(* sigil_scope_create(p) returning s. *)
ScopeCreate(s, p) ==
    /\ s \notin liveScopes
    /\ liveScopes' = liveScopes \cup {s}
    /\ allocs' = [allocs EXCEPT ![s] = {}]
    /\ parent' = [parent EXCEPT ![s] = p]
    /\ openChild' = [t \in Scopes |-> IF t = s THEN None
                                      ELSE IF t = p THEN s ELSE openChild[t]]
    /\ lost' = IF p # None /\ openChild[p] # None
               THEN lost \cup Cascade(openChild[p]) ELSE lost
    /\ tokens' = Append(tokens, s)
    /\ UNCHANGED <<liveBlocks, doubleFree>>

(* Mutation: the destroyed scope stays linked from its parent. *)
ScopeDestroyNoUnlink(s) ==
    LET gone == Cascade(s)
    IN  /\ liveScopes' = liveScopes \ gone
        /\ liveBlocks' = liveBlocks \ UNION {allocs[t] : t \in gone}
        /\ doubleFree' = \/ doubleFree
                         \/ ~(gone \subseteq liveScopes)
                         \/ \E t \in gone : ~(allocs[t] \subseteq liveBlocks)
        /\ UNCHANGED <<openChild, parent, allocs, lost>>

(* sigil_scope_destroy(s): everything in s and in the orphans below it is  *)
(* freed, and the parent forgets s.                                        *)
ScopeDestroy(s) ==
    LET gone == Cascade(s)
    IN  /\ liveScopes' = liveScopes \ gone
        /\ liveBlocks' = liveBlocks \ UNION {allocs[t] : t \in gone}
        /\ openChild' = [t \in Scopes |->
                           IF parent[s] = t /\ openChild[t] = s THEN None ELSE openChild[t]]
        /\ doubleFree' = \/ doubleFree
                         \/ ~(gone \subseteq liveScopes)
                         \/ \E t \in gone : ~(allocs[t] \subseteq liveBlocks)
        /\ UNCHANGED <<parent, allocs, lost>>

(* A behavior is invoked: its root scope has no parent. *)
Invoke(s) ==
    /\ tokens = <<>>
    /\ ScopeCreate(s, None)

(* SCOPE: a child of the scope in force. *)
EnterScope(s) ==
    /\ tokens # <<>>
    /\ ScopeCreate(s, Current)

(* END_SCOPE. *)
EndScope ==
    /\ Len(tokens) > 1
    /\ ScopeDestroy(Current)
    /\ tokens' = SubSeq(tokens, 1, Len(tokens) - 1)

(* The behavior falls off its end: the root scope is destroyed. *)
Return ==
    /\ Len(tokens) = 1
    /\ ScopeDestroy(Current)
    /\ tokens' = <<>>

(* JUMP to a label outside the innermost scopes, d levels being kept. *)
JumpOut(d) ==
    /\ d \in 1 .. Len(tokens) - 1
    /\ tokens' = SubSeq(tokens, 1, d)
    /\ UNCHANGED <<liveScopes, liveBlocks, parent, openChild, allocs, lost, doubleFree>>

(* ALLOC registers the new block in the scope in force. *)
ScopeAlloc(b) ==
    /\ tokens # <<>>
    /\ b \notin liveBlocks
    /\ liveBlocks' = liveBlocks \cup {b}
    /\ allocs' = [allocs EXCEPT ![Current] = @ \cup {b}]
    /\ UNCHANGED <<liveScopes, parent, openChild, tokens, lost, doubleFree>>

(* The scopes of Chain(Current) that have block b registered. *)
Owners(b) == {s \in Chain(Current) : b \in allocs[s]}

(* Mutation: the freed block stays in its scope's registry. *)
ScopeFreeKeepsEntry(b) ==
    /\ tokens # <<>>
    /\ \E i \in 1 .. Len(tokens) : b \in allocs[tokens[i]]
    /\ \E s \in Owners(b) : liveBlocks' = liveBlocks \ {b}
    /\ doubleFree' = (doubleFree \/ b \notin liveBlocks)
    /\ UNCHANGED <<liveScopes, allocs, parent, openChild, tokens, lost>>

(* FREE of a handle whose name is in scope: the compiler admits it once per *)
(* ALLOC, so the block is still registered with an enclosing scope, which  *)
(* the search finds; the entry is swap-removed.                            *)
ScopeFree(b) ==
    /\ tokens # <<>>
    /\ \E i \in 1 .. Len(tokens) : b \in allocs[tokens[i]]
    /\ \E s \in Owners(b) :
         /\ allocs' = [allocs EXCEPT ![s] = @ \ {b}]
         /\ liveBlocks' = liveBlocks \ {b}
    /\ doubleFree' = (doubleFree \/ b \notin liveBlocks)
    /\ UNCHANGED <<liveScopes, parent, openChild, tokens, lost>>

ScopeNext ==
    \/ \E s \in Scopes : Invoke(s) \/ EnterScope(s)
    \/ EndScope
    \/ Return
    \/ \E d \in 1 .. Cardinality(Scopes) : JumpOut(d)
    \/ \E b \in Blocks : ScopeAlloc(b) \/ ScopeFree(b)

ScopeSpec == ScopeInit /\ [][ScopeNext]_scopeVars

-----------------------------------------------------------------------------
(* The links never dangle although addresses are recycled: the tokens in   *)
(* force are live, each one's parent is the token before it, and an open   *)
(* child is a live scope that names its opener as its parent               *)
(* (memory.c:56-58, 101-111).                                              *)
TreeSound ==
    /\ ScopeTypeOK
    /\ \A i \in 1 .. Len(tokens) :
         /\ tokens[i] \in liveScopes
         /\ parent[tokens[i]] = IF i = 1 THEN None ELSE tokens[i - 1]
    /\ \A s \in liveScopes : openChild[s] # None =>
         openChild[s] \in liveScopes /\ parent[openChild[s]] = s

(* free() is never called twice for one malloc, neither by FREE nor by a   *)
(* scope's end cascading into orphans, and a live block belongs to exactly *)
(* one live scope (memory.c:86-88, 104-111).                               *)
FreedOnce ==
    /\ ~doubleFree
    /\ \A b \in liveBlocks : Cardinality({s \in liveScopes : b \in allocs[s]}) = 1

(* When a behavior has returned everything it allocated has been released, *)
(* also when it left scopes by JUMP: "the orphaned child stays linked to   *)
(* its parent, and destroying an ancestor cascades into it, so nothing     *)
(* leaks on abnormal exit" (memory.c:19-21).                               *)
NothingLeaks == tokens = <<>> => liveScopes = {} /\ liveBlocks = {}

(* What the code does instead: beside the root scope's tree of tokens and  *)
(* orphans only those orphans are live that a later SCOPE has pushed out   *)
(* of it, by overwriting the one link their parent has (memory.c:58).      *)
OnlyOverwrittenLeak ==
    liveScopes = lost \cup (IF tokens = <<>> THEN {} ELSE Cascade(tokens[1]))
=============================================================================
