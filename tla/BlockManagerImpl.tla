-------------------------- MODULE BlockManagerImpl --------------------------
(***************************************************************************)
(* One leaf of the KV-cache allocator: the free list and usage flags of    *)
(* BlockManagerImpl, the reference counters of Block, and the PrefixCache  *)
(* the leaf owns.  The leaf is a record; every operation is a function     *)
(* from a leaf to a leaf, so a caller's handler is a composition of them.  *)
(* ConcurrentBlockManagerImpl runs each operation under one recursive      *)
(* mutex, a single scheduler thread runs them unwrapped: either way an     *)
(* operation is one step.                                                  *)
(*                                                                         *)
(*   free      ids on free_blocks_[0 .. num_free_blocks_)                  *)
(*   used      ids whose usage_accounted_ids_ flag is 1                    *)
(*   ref       the shared counter behind every Block alias of an id        *)
(*   node      cached_blocks_: the block filed under a chained hash        *)
(*   ids       blocks_by_id_                                               *)
(*   evictable num_evictable_                                              *)
(*   ok        FALSE once a CHECK of the leaf would have aborted           *)
(*                                                                         *)
(* Blocks are the ids that can be handed out: id 0 is the padding block,   *)
(* taken in the constructor and never returned.  A hash is the token       *)
(* prefix it was computed from (XXH3-128 is taken to be collision free).   *)
(***************************************************************************)
EXTENDS Integers, FiniteSets

CONSTANTS Blocks,   \* block ids that can be handed out
          Hashes,   \* chained block hashes
          NoBlock   \* "no node under this hash"

ASSUME BlocksAssumption == IsFiniteSet(Blocks) /\ NoBlock \notin Blocks

LeafType ==
  [free : SUBSET Blocks, used : SUBSET Blocks, ref : [Blocks -> Nat],
   node : [Hashes -> Blocks \cup {NoBlock}], ids : SUBSET Blocks,
   evictable : Nat, ok : BOOLEAN]

\* The constructor: every id but the padding id is free, the cache is empty.
NewLeaf ==
  [free |-> Blocks, used |-> {}, ref |-> [b \in Blocks |-> 0],
   node |-> [h \in Hashes |-> NoBlock], ids |-> {}, evictable |-> 0,
   ok |-> TRUE]

Resident(p) == {h \in Hashes : p.node[h] # NoBlock}

\* Mutant: a resident one sequence still holds counts as unshared.
Unshared_OffByOne(p) == {b \in p.ids : ~(p.ref[b] > 2)}

\* Residents evict() may take: blocks that are not is_shared().
Unshared(p) == {b \in p.ids : ~(p.ref[b] > 1)}

NodeBlocks(p, H) == {p.node[h] : h \in H}

\* release_evictable_slot(), n times: the counter saturates at zero.
release_evictable_slot(e, n) == IF e > n THEN e - n ELSE 0

\* allocate(): ids B leave the free list, get marked and one alias each.
allocate(p, B) ==
  [p EXCEPT !.ok   = @ /\ B \subseteq p.free /\ B \cap p.used = {},
            !.free = @ \ B,
            !.used = @ \cup B,
            !.ref  = [b \in Blocks |-> IF b \in B THEN 1 ELSE p.ref[b]]]

\* free(): one alias of each block of B is destroyed.  A resident whose only
\* owner is now the cache node becomes evictable; a block with no owner left
\* goes back to the free list.
free(p, B) ==
  LET ref1     == [b \in Blocks |-> IF b \in B THEN p.ref[b] - 1 ELSE p.ref[b]]
      dead     == {b \in B : ref1[b] = 0}
      regained == {b \in B \cap p.ids : ref1[b] = 1}
  IN  [p EXCEPT !.ok   = @ /\ dead \cap p.ids = {} /\ dead \subseteq p.used
                           /\ dead \cap p.free = {},
                !.ref  = ref1,
                !.used = @ \ dead,
                !.free = @ \cup dead,
                !.evictable = @ + Cardinality(regained)]

\* Mutant: a hit does not take the node off the evictable count.
claim_KeepsEvictable(p, H) ==
  LET B == NodeBlocks(p, H)
  IN  [p EXCEPT !.ref = [b \in Blocks |-> IF b \in B THEN @[b] + 1 ELSE @[b]]]

\* match(), the part that changes the leaf: each node of H is hit once and its
\* block copied into the caller's vector (claim_matched_block, copy).
claim(p, H) ==
  LET B == NodeBlocks(p, H)
  IN  [p EXCEPT !.evictable =
                  release_evictable_slot(@, Cardinality({b \in B : p.ref[b] = 1})),
                !.ref = [b \in Blocks |-> IF b \in B THEN @[b] + 1 ELSE @[b]]]

\* insert(): pub is the published range, pairs of a hash and the caller's
\* block.  A hash already filed keeps its node; the caller's copy of that block
\* stays private.
insert(p, pub) ==
  LET fresh == {x \in pub : p.node[x[1]] = NoBlock}
      B     == {x[2] : x \in fresh}
  IN  [p EXCEPT !.ok   = @ /\ B \cap p.ids = {}
                           /\ \A x, y \in fresh : x[2] = y[2] => x = y,
                !.node = [h \in Hashes |->
                            IF \E x \in fresh : x[1] = h
                              THEN (CHOOSE x \in fresh : x[1] = h)[2]
                              ELSE p.node[h]],
                !.ids  = @ \cup B,
                !.ref  = [b \in Blocks |-> IF b \in B THEN @[b] + 1 ELSE @[b]]]

\* Mutant: the node is deleted before it is unfiled.
evict_DeletesFirst(p, B) ==
  [free(p, B) EXCEPT !.node = [h \in Hashes |->
                                 IF p.node[h] \in B THEN NoBlock ELSE p.node[h]],
                     !.ids  = @ \ B]

\* evict() of the residents B: each node is unfiled first, and deleting it then
\* destroys its alias through free().
evict(p, B) ==
  free([p EXCEPT !.node = [h \in Hashes |->
                             IF p.node[h] \in B THEN NoBlock ELSE p.node[h]],
                 !.ids  = @ \ B,
                 !.evictable = release_evictable_slot(@, Cardinality(B))],
       B)

num_free_blocks(p) == Cardinality(p.free)

\* has_enough_blocks(): the number of nodes an allocation of n blocks evicts
\* first, if that many can be evicted.
EvictGoal(p, n) == IF n > num_free_blocks(p) THEN n - num_free_blocks(p) ELSE 0
=============================================================================
