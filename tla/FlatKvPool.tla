----------------------------- MODULE FlatKvPool -----------------------------
(***************************************************************************)
(* The device KV cache of one data-parallel rank with a flat KV layout:    *)
(* BlockManagerPool and CompositeBlockManager (FLAT_KV) driving one leaf   *)
(* (BlockManagerImpl), the KVCacheState of every sequence, and the batch   *)
(* the scheduler is putting together.  All of it runs on the scheduler     *)
(* thread, so a call into the pool is one step; what interleaves is the    *)
(* order of calls for different sequences between two forward passes.      *)
(*                                                                         *)
(* A sequence s will read and generate Text[s]; the first PromptLen[s]     *)
(* tokens are its prompt.  The KV of position k depends on the tokens      *)
(* 1 .. k and, for an MTP draft layer, on the token after k (Lookahead=1): *)
(* KvOf(s, k) is that token prefix, and stands for the KV itself.          *)
(*                                                                         *)
(*   pool      the KV leaf                                                 *)
(*   kv_state  KVCacheState per sequence: blocks, number of leading shared *)
(*             blocks, publish cursor (cached), kv_cache_tokens_num (kv)   *)
(*   len       num_tokens()                                                *)
(*   prompt    max(volatile_num_prompt_tokens_, num_prompt_tokens())       *)
(*   batch     tokens the sequence will have in cache after the forward    *)
(*             pass being assembled, 0 when it is not in the batch         *)
(*   data      what each slot of each device block holds                   *)
(***************************************************************************)
EXTENDS BlockManagerImpl, Sequences

CONSTANTS Seqs,       \* sequences known to the scheduler
          Text,       \* Text[s]: prompt and the tokens s will generate
          PromptLen,  \* PromptLen[s]
          BlockSize,  \* tokens per block
          Lookahead,  \* block_hash_lookahead(): 1 for an MTP hasher, else 0
          InBatch     \* enable_in_batch_prefix_cache

VARIABLES pool, kv_state, len, prompt, batch, data

vars == <<pool, kv_state, len, prompt, batch, data>>

\* num_hash_blocks()
num_hash_blocks(n) ==
  IF n <= Lookahead THEN 0 ELSE (n - Lookahead) \div BlockSize

\* Mutant: the hash leaves out the last token of the block.
Hash_OneShort(s, i) == SubSeq(Text[s], 1, i * BlockSize + Lookahead - 1)

\* The chained hash of block i of s, and the KV of position k of s.
Hash(s, i) == SubSeq(Text[s], 1, i * BlockSize + Lookahead)
KvOf(s, k) == SubSeq(Text[s], 1, k + Lookahead)

ASSUME SeqsAssumption == IsFiniteSet(Seqs)
ASSUME BlockSizeAssumption == BlockSize \in Nat \ {0}
ASSUME LookaheadAssumption == Lookahead \in {0, 1}
ASSUME TextAssumption ==
  \A s \in Seqs : /\ Text[s] \in Seq(Nat)
                  /\ PromptLen[s] \in 1 .. Len(Text[s]) - 1
ASSUME HashesAssumption ==
  \A s \in Seqs : \A i \in 1 .. num_hash_blocks(Len(Text[s])) :
    Hash(s, i) \in Hashes

-----------------------------------------------------------------------------
(* KVCacheState                                                            *)

EmptyKv == [blocks |-> <<>>, shared |-> 0, cached |-> 0, kv |-> 0]

BlockOf(k)  == ((k - 1) \div BlockSize) + 1
SlotOf(k)   == ((k - 1) % BlockSize) + 1
CeilDiv(n)  == (n + BlockSize - 1) \div BlockSize
SmallerOf(a, b) == IF a < b THEN a ELSE b
LargerOf(a, b)  == IF a > b THEN a ELSE b

Held(k) == {k.blocks[i] : i \in 1 .. Len(k.blocks)}
HeldFrom(k, i) == {k.blocks[j] : j \in i .. Len(k.blocks)}

PrefillStage(s) == kv_state[s].kv < prompt[s]
ChunkedPrefillStage(s) == kv_state[s].kv > 0 /\ PrefillStage(s)

-----------------------------------------------------------------------------
(* Publishing: publish_blocks() inserts the blocks after the cursor, up to *)
(* block end, and moves the cursor.                                        *)

PublishedRange(k, end) == {i \in 1 .. Len(k.blocks) : k.cached < i /\ i <= end}

publish_pool(p, s, k, end) ==
  insert(p, {<<Hash(s, i), k.blocks[i]>> : i \in PublishedRange(k, end)})

publish_cursor(k, end) == [k EXCEPT !.cached = LargerOf(@, end)]

\* publishable_tokens() and the number of whole blocks they fill.
publishable_tokens(s) ==
  SmallerOf(kv_state[s].kv, IF len[s] > Lookahead THEN len[s] - Lookahead ELSE 0)

\* Mutant: a block begun is published.
FullBlocks_RoundsUp(s) ==
  SmallerOf((publishable_tokens(s) + BlockSize - 1) \div BlockSize,
            Len(kv_state[s].blocks))

FullBlocks(s) ==
  SmallerOf(publishable_tokens(s) \div BlockSize, Len(kv_state[s].blocks))

\* cache_for_sequence(seq, n): the in-batch publish of a prefill scheduled up
\* to n tokens.  Its KV is not written yet; a hasher with lookahead clamps it
\* to the tokens that are.
InBatchEnd(s, n) ==
  LET completed == IF Lookahead = 0 THEN n ELSE kv_state[s].kv
  IN  SmallerOf(SmallerOf(n, completed) \div BlockSize, num_hash_blocks(len[s]))

-----------------------------------------------------------------------------
(* allocate_shared_for_sequence(): match, then add_shared_blocks().        *)

\* match() returns m leading blocks: the shared ones the sequence already has,
\* then hits up to the first miss.
IsMatch(s, m) ==
  LET n == num_hash_blocks(len[s])
  IN  /\ SmallerOf(kv_state[s].shared, n) <= m /\ m <= n
      /\ \A i \in kv_state[s].shared + 1 .. m : pool.node[Hash(s, i)] # NoBlock
      /\ m < n => pool.node[Hash(s, m + 1)] = NoBlock

Matched(s, m) ==
  [i \in 1 .. m |-> IF i <= kv_state[s].shared THEN kv_state[s].blocks[i]
                                               ELSE pool.node[Hash(s, i)]]

\* Nodes the match copies.
HitHashes(s, m) == {Hash(s, i) : i \in kv_state[s].shared + 1 .. m}

\* Mutant: the publish cursor stays behind the mounted prefix.
ReplacePrefix_KeepsCursor(s, m) ==
  [kv_state[s] EXCEPT !.blocks = [i \in 1 .. Len(@) |->
                                    IF i <= m THEN Matched(s, m)[i] ELSE @[i]],
                      !.shared = m]

\* add_shared_blocks() with fewer matched blocks than held ones: the matched
\* ones replace the sequence's own, its token count stays.
ReplacePrefix(s, m) ==
  LET k == kv_state[s]
  IN  [k EXCEPT !.blocks = [i \in 1 .. Len(@) |->
                              IF i <= m THEN Matched(s, m)[i] ELSE @[i]],
                !.shared = m,
                !.cached = LargerOf(@, m)]

\* add_shared_blocks() with more: the match becomes the whole table, except
\* that a match of every token gives its last block back.
ExactRepeat(s, m) == m * BlockSize = len[s]

MountPrefix(s, m) ==
  LET kept == IF ExactRepeat(s, m) THEN m - 1 ELSE m
  IN  [blocks |-> [i \in 1 .. kept |-> Matched(s, m)[i]],
       shared |-> kept, cached |-> kept,
       kv     |-> IF ExactRepeat(s, m)
                    THEN ((len[s] - 1) \div BlockSize) * BlockSize
                    ELSE m * BlockSize]

\* Mutant: the block an exact repeat gives back keeps its alias.
SharedPool_LeaksLast(s, m) ==
  LET k == kv_state[s]
  IN  free(claim(pool, HitHashes(s, m)),
           {k.blocks[j] : j \in k.shared + 1 .. SmallerOf(m, Len(k.blocks))})

\* Aliases the mount destroys: the sequence's own copies from the first newly
\* matched position on, then the block an exact repeat gives back.
SharedPool(s, m) ==
  LET k  == kv_state[s]
      p1 == claim(pool, HitHashes(s, m))
      p2 == free(p1, {k.blocks[j] : j \in k.shared + 1 .. SmallerOf(m, Len(k.blocks))})
  IN  IF m > Len(k.blocks) /\ ExactRepeat(s, m)
        THEN free(p2, {Matched(s, m)[m]}) ELSE p2

allocate_shared(s) ==
  \E m \in 1 .. num_hash_blocks(len[s]) :
    /\ batch[s] = 0
    /\ kv_state[s].blocks = <<>> \/ ChunkedPrefillStage(s)
    /\ IsMatch(s, m)
    /\ m > kv_state[s].shared
    /\ pool' = SharedPool(s, m)
    /\ kv_state' = [kv_state EXCEPT ![s] =
                      IF m <= Len(kv_state[s].blocks)
                        THEN ReplacePrefix(s, m) ELSE MountPrefix(s, m)]
    /\ UNCHANGED <<len, prompt, batch, data>>

-----------------------------------------------------------------------------
(* allocate(seq, n): publish what is complete, grow the table to cover n   *)
(* tokens, evicting cache nodes for it if the free list is too short.  The *)
(* scheduler then adds the sequence to the batch or leaves it out: another *)
(* sequence of its request may not fit.  A prefill it adds is published    *)
(* ahead of the forward pass (cache_in_batch_prefix).                      *)

PublishedPool(s) == publish_pool(pool, s, kv_state[s], FullBlocks(s))
PublishedKv(s)   == publish_cursor(kv_state[s], FullBlocks(s))

Missing(s, n) == LargerOf(CeilDiv(n) - Len(kv_state[s].blocks), 0)

\* allocate() repeats the match for a sequence without blocks.  Its callers
\* have just matched, so the repeat keeps nothing.
NothingToMount(s) ==
  kv_state[s].blocks = <<>> =>
    \A m \in 1 .. num_hash_blocks(len[s]) :
      IsMatch(s, m) => m = 1 /\ ExactRepeat(s, 1)

CanAllocate(s, n) ==
  /\ batch[s] = 0
  /\ len[s] < Len(Text[s])
  /\ kv_state[s].kv < n /\ n <= len[s]
  /\ NothingToMount(s)

Victims(p, need) ==
  {ev \in SUBSET Unshared(p) : Cardinality(ev) = EvictGoal(p, need)}

Grow(p, q) == allocate(p, {q[i] : i \in 1 .. Len(q)})

NewBlocks(p, need) ==
  {q \in [1 .. need -> p.free] : \A i, j \in 1 .. need : q[i] = q[j] => i = j}

\* How a successful allocation of n tokens is used.
Uses(s) == {"idle", "scheduled"} \cup
           (IF InBatch /\ PrefillStage(s) THEN {"published"} ELSE {})

Allocate(s) ==
  \E n \in 1 .. len[s], use \in Uses(s) :
    /\ CanAllocate(s, n)
    /\ \E ev \in Victims(PublishedPool(s), Missing(s, n)) :
       \E q \in NewBlocks(evict(PublishedPool(s), ev), Missing(s, n)) :
         LET p  == Grow(evict(PublishedPool(s), ev), q)
             k  == [PublishedKv(s) EXCEPT !.blocks = @ \o q]
             to == IF use = "published" THEN InBatchEnd(s, n) ELSE 0
         IN  /\ pool' = publish_pool(p, s, k, to)
             /\ kv_state' = [kv_state EXCEPT ![s] = publish_cursor(k, to)]
    /\ batch' = [batch EXCEPT ![s] = IF use = "idle" THEN 0 ELSE n]
    /\ UNCHANGED <<len, prompt, data>>

\* has_enough_blocks() fails: every node it could evict is gone by then.  The
\* table stays, except that a sequence without blocks is reset.
AllocateFails(s) ==
  \E n \in 1 .. len[s] :
    LET p1 == PublishedPool(s)
    IN  /\ CanAllocate(s, n)
        /\ EvictGoal(p1, Missing(s, n)) > Cardinality(Unshared(p1))
        /\ pool' = evict(p1, Unshared(p1))
        /\ IF kv_state[s].blocks = <<>>
             THEN /\ kv_state' = [kv_state EXCEPT ![s] = EmptyKv]
                  /\ prompt' = [prompt EXCEPT ![s] = len[s]]
             ELSE /\ kv_state' = [kv_state EXCEPT ![s] = PublishedKv(s)]
                  /\ UNCHANGED prompt
        /\ UNCHANGED <<len, batch, data>>

\* cache(seq): after a prefill, and when a request expands to its siblings.
Cache(s) ==
  /\ batch[s] = 0
  /\ FullBlocks(s) > kv_state[s].cached
  /\ pool' = PublishedPool(s)
  /\ kv_state' = [kv_state EXCEPT ![s] = PublishedKv(s)]
  /\ UNCHANGED <<len, prompt, batch, data>>

-----------------------------------------------------------------------------
(* The forward pass: every sequence in the batch writes the KV of its      *)
(* scheduled positions and one that reaches its last token samples the     *)
(* next.  Two different values for one slot leave neither (<<>>).          *)

Writes(s) == kv_state[s].kv + 1 .. batch[s]

SlotValues(b, j) ==
  UNION {{KvOf(s, k) : k \in {k \in Writes(s) : /\ SlotOf(k) = j
                                                /\ kv_state[s].blocks[BlockOf(k)] = b}}
         : s \in Seqs}

Executed ==
  [b \in Blocks |-> [j \in 1 .. BlockSize |->
     LET V == SlotValues(b, j)
     IN  IF V = {} THEN data[b][j]
         ELSE IF \E v \in V : V = {v} THEN CHOOSE v \in V : TRUE
         ELSE <<>>]]

Forward ==
  /\ \E s \in Seqs : batch[s] > 0
  /\ data' = Executed
  /\ kv_state' = [s \in Seqs |-> [kv_state[s] EXCEPT !.kv = LargerOf(@, batch[s])]]
  /\ len' = [s \in Seqs |-> IF batch[s] = len[s] THEN len[s] + 1 ELSE len[s]]
  /\ batch' = [s \in Seqs |-> 0]
  /\ UNCHANGED <<pool, prompt>>

-----------------------------------------------------------------------------
(* deallocate(): publish, release every block, reset.                      *)

Release(s) ==
  /\ pool' = free(PublishedPool(s), Held(kv_state[s]))
  /\ kv_state' = [kv_state EXCEPT ![s] = EmptyKv]

\* A sequence is preempted and goes back to a queue with the tokens it has.
Preempt(s) ==
  /\ batch[s] = 0
  /\ kv_state[s] # EmptyKv
  /\ Release(s)
  /\ prompt' = [prompt EXCEPT ![s] = len[s]]
  /\ UNCHANGED <<len, batch, data>>

\* A request finishes, fails or is cancelled; the same prompt comes again.
Finish(s) ==
  /\ batch[s] = 0
  /\ kv_state[s] # EmptyKv \/ len[s] # PromptLen[s]
  /\ Release(s)
  /\ len' = [len EXCEPT ![s] = PromptLen[s]]
  /\ prompt' = [prompt EXCEPT ![s] = PromptLen[s]]
  /\ UNCHANGED <<batch, data>>

\* reset_prefix_cache(): evict as many nodes as the cache has.
ResetPrefixCache ==
  /\ Resident(pool) # {}
  /\ pool' = evict(pool, Unshared(pool))
  /\ UNCHANGED <<kv_state, len, prompt, batch, data>>

-----------------------------------------------------------------------------
Init ==
  /\ pool = NewLeaf
  /\ kv_state = [s \in Seqs |-> EmptyKv]
  /\ len = [s \in Seqs |-> PromptLen[s]]
  /\ prompt = [s \in Seqs |-> PromptLen[s]]
  /\ batch = [s \in Seqs |-> 0]
  /\ data = [b \in Blocks |-> [j \in 1 .. BlockSize |-> <<>>]]

Next ==
  \/ \E s \in Seqs : \/ allocate_shared(s) \/ Allocate(s) \/ AllocateFails(s)
                     \/ Cache(s) \/ Preempt(s) \/ Finish(s)
  \/ Forward
  \/ ResetPrefixCache

Spec == Init /\ [][Next]_vars

-----------------------------------------------------------------------------
(* Properties                                                              *)

\* Type invariant.
TypeOK ==
  /\ pool \in LeafType
  /\ kv_state \in [Seqs -> [blocks : Seq(Blocks), shared : Nat, cached : Nat,
                            kv : Nat]]
  /\ len \in [Seqs -> Nat] /\ prompt \in [Seqs -> Nat] /\ batch \in [Seqs -> Nat]
  /\ data \in [Blocks -> [1 .. BlockSize -> Seq(Nat)]]

\* No CHECK of the allocator or of the prefix cache aborts the process: no
\* block is handed out or freed twice, none is filed under two hashes, and no
\* resident's counter reaches zero (block_manager_impl.cpp, prefix_cache.cpp).
NoCheckFails == pool.ok

Holders(b) == {s \in Seqs : b \in Held(kv_state[s])}
NodeAlias(p, b) == IF b \in p.ids THEN 1 ELSE 0

\* Reference counters are exact: a block's counter is the number of block
\* tables that hold it plus one for a cache node, and it is on the free list
\* exactly when that is zero.  Nothing leaks and nothing is freed early,
\* whatever the order of matches, growth, eviction and release.
RefExact ==
  /\ \A b \in Blocks :
       pool.ref[b] = Cardinality(Holders(b)) + NodeAlias(pool, b)
  /\ pool.free = {b \in Blocks : pool.ref[b] = 0}
  /\ pool.used = Blocks \ pool.free
  /\ pool.ids = NodeBlocks(pool, Resident(pool))
  /\ \A g, h \in Resident(pool) : pool.node[g] = pool.node[h] => g = h

\* num_evictable_ counts exactly the nodes evict() would take, so that
\* num_available_blocks(), which admission and DP routing trust, is the number
\* of blocks an allocation can really get.
EvictableExact == pool.evictable = Cardinality(Unshared(pool))

\* Every KV entry a sequence counts as cached is its own: the device slot
\* holds the KV of exactly its tokens, or will once the batch being assembled
\* has run, whoever computed it and however often the block changed hands.
CachedKvIsOwn ==
  \A s \in Seqs : \A k \in 1 .. kv_state[s].kv :
    /\ BlockOf(k) <= Len(kv_state[s].blocks)
    /\ Executed[kv_state[s].blocks[BlockOf(k)]][SlotOf(k)] = KvOf(s, k)

\* A prefix hit is sound: the block filed under a hash holds the KV of the
\* tokens the hash was computed from (after the batch being assembled).
FiledKvMatchesHash ==
  \A s \in Seqs : \A i \in 1 .. num_hash_blocks(Len(Text[s])) :
    pool.node[Hash(s, i)] # NoBlock =>
      \A j \in 1 .. BlockSize :
        Executed[pool.node[Hash(s, i)]][j] = KvOf(s, (i - 1) * BlockSize + j)

\* Two sequences of one batch that write the same slot write the same KV: a
\* shared block is only ever regenerated with the same tokens
\* (sequence_kv_state.cpp, the comment in add_shared_blocks).
SharedWritesAgree ==
  \A b \in Blocks, j \in 1 .. BlockSize : Cardinality(SlotValues(b, j)) <= 1

\* A block that a sequence has not published yet is nobody else's.
UnpublishedIsPrivate ==
  \A s \in Seqs : \A b \in HeldFrom(kv_state[s], kv_state[s].cached + 1) :
    b \notin pool.ids /\ Holders(b) = {s}

\* No step takes a cached block out of the cache while some table holds it: an
\* eviction, for an allocation of any size or a reset, spares prefixes in use
\* (prefix_cache.cpp, evict() skips is_shared() blocks).
SharedPrefixStays ==
  [][\A s \in Seqs : \A b \in Held(kv_state[s]) :
       b \in pool.ids => b \in pool'.ids]_vars
=============================================================================
