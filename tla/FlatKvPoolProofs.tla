-------------------------- MODULE FlatKvPoolProofs --------------------------
(***************************************************************************)
(* The allocator's books are right in every reachable state of FlatKvPool, *)
(* for any number of sequences and blocks, any texts and any block size:   *)
(* no CHECK fires, every reference counter is exact, num_evictable_ is     *)
(* exact, and a block not yet published is private.                        *)
(*                                                                         *)
(* Books(p, K) is the inductive invariant, over a leaf p and the block     *)
(* tables K, so that it can be carried through the calls one handler makes *)
(* (publish, evict, grow, ...), not only from state to state.  Beyond the  *)
(* properties themselves it needs: a table holds no block twice; a shared  *)
(* block is the one filed under the sequence's hash for that position; and *)
(* a block of a table that is filed at all is filed under that hash.       *)
(*                                                                         *)
(* So is the KV in the blocks: what a sequence counts as cached is the KV  *)
(* of its own tokens, what is filed under a hash is the KV of the hashed   *)
(* tokens, and two sequences never write different KV to one slot.         *)
(* ContentInv is the invariant for these three: each slot relied on has    *)
(* its KV or is about to be written by the batch, and a block in two       *)
(* tables is filed.  Every handler keeps it because each is a HandlerStep. *)
(***************************************************************************)
EXTENDS FlatKvPool, BlockManagerImplProofs, SequenceTheorems

KvType == [blocks : Seq(Blocks), shared : Nat, cached : Nat, kv : Nat]

HoldersIn(K, b) == {s \in Seqs : b \in Held(K[s])}
Cnt(K) == [b \in Blocks |-> Cardinality(HoldersIn(K, b))]

NoDuplicates(k) ==
  \A i, j \in 1 .. Len(k.blocks) : k.blocks[i] = k.blocks[j] => i = j

\* i is a position of s that can have a hash.
Hashable(s, i) == i \in 1 .. num_hash_blocks(Len(Text[s]))

SharedIsFiled(p, s, k) ==
  /\ k.shared <= Len(k.blocks)
  /\ \A i \in 1 .. k.shared : Hashable(s, i) /\ k.blocks[i] = p.node[Hash(s, i)]

FiledUnderOwnHash(p, s, k) ==
  \A i \in 1 .. Len(k.blocks) :
    k.blocks[i] \in p.ids => Hashable(s, i) /\ p.node[Hash(s, i)] = k.blocks[i]

Unpublished(p, K, s) ==
  \A i \in 1 .. Len(K[s].blocks) : i > K[s].cached =>
    K[s].blocks[i] \notin p.ids /\ HoldersIn(K, K[s].blocks[i]) = {s}

TableInv(p, K, s) ==
  /\ NoDuplicates(K[s])
  /\ SharedIsFiled(p, s, K[s])
  /\ FiledUnderOwnHash(p, s, K[s])
  /\ Unpublished(p, K, s)

Books(p, K) ==
  /\ K \in [Seqs -> KvType]
  /\ LeafInv(p, Cnt(K))
  /\ \A s \in Seqs : TableInv(p, K, s)

-----------------------------------------------------------------------------
(* Arithmetic                                                              *)

\* Integer division, as the provers need it.
LEMMA DivMul ==
  ASSUME NEW a \in Nat, NEW d \in Nat \ {0}
  PROVE  a \div d \in Nat /\ (a \div d) * d <= a /\ a < (a \div d) * d + d
OBVIOUS

\* Multiplication by a positive number is monotonic.
LEMMA MulMono ==
  ASSUME NEW i \in Nat, NEW j \in Nat, NEW d \in Nat \ {0}, i <= j
  PROVE  i * d <= j * d
OBVIOUS

\* ... and injective.
LEMMA MulInj ==
  ASSUME NEW i \in Nat, NEW j \in Nat, NEW d \in Nat \ {0}, i * d = j * d
  PROVE  i = j
OBVIOUS

\* Division by a positive number is monotonic.
LEMMA DivMono ==
  ASSUME NEW a \in Nat, NEW b \in Nat, NEW d \in Nat \ {0}, a <= b
  PROVE  a \div d <= b \div d
<1>1. /\ (a \div d) * d <= a /\ b < (b \div d) * d + d
      /\ a \div d \in Nat /\ b \div d \in Nat
  BY DivMul
<1>2. SUFFICES ASSUME b \div d < a \div d PROVE FALSE
  BY <1>1
<1>3. ((b \div d) + 1) * d <= (a \div d) * d
  BY <1>1, <1>2, MulMono
<1>4. ((b \div d) + 1) * d = (b \div d) * d + d
  BY <1>1
<1> QED
  BY <1>1, <1>3, <1>4

-----------------------------------------------------------------------------
(* Hashes                                                                  *)

\* num_hash_blocks() is a number, grows with the tokens, and the hashes of
\* that many blocks only read tokens that exist.
LEMMA NumHashBlocks ==
  /\ \A n \in Nat : num_hash_blocks(n) \in Nat
  /\ \A n, m \in Nat : n <= m => num_hash_blocks(n) <= num_hash_blocks(m)
  /\ \A n \in Nat, i \in Nat : i \in 1 .. num_hash_blocks(n) =>
       i * BlockSize + Lookahead <= n
<1> USE BlockSizeAssumption, LookaheadAssumption
<1>1. ASSUME NEW n \in Nat PROVE num_hash_blocks(n) \in Nat
  BY DivMul DEF num_hash_blocks
<1>2. ASSUME NEW n \in Nat, NEW m \in Nat, n <= m
      PROVE  num_hash_blocks(n) <= num_hash_blocks(m)
  <2>1. CASE n <= Lookahead
    BY <1>1, <2>1 DEF num_hash_blocks
  <2>2. CASE n > Lookahead
    <3>1. n - Lookahead \in Nat /\ m - Lookahead \in Nat /\ n - Lookahead <= m - Lookahead
      BY <1>2, <2>2
    <3>2. (n - Lookahead) \div BlockSize <= (m - Lookahead) \div BlockSize
      BY <3>1, DivMono
    <3> QED
      BY <1>2, <2>2, <3>2 DEF num_hash_blocks
  <2> QED
    BY <2>1, <2>2
<1>3. ASSUME NEW n \in Nat, NEW i \in Nat, i \in 1 .. num_hash_blocks(n)
      PROVE  i * BlockSize + Lookahead <= n
  <2>1. n > Lookahead /\ i <= (n - Lookahead) \div BlockSize
    BY <1>3 DEF num_hash_blocks
  <2> DEFINE d == (n - Lookahead) \div BlockSize
  <2>2. d \in Nat /\ d * BlockSize <= n - Lookahead
    BY <2>1, DivMul
  <2>3. i * BlockSize <= d * BlockSize
    BY <2>1, <2>2, MulMono
  <2>4. i * BlockSize \in Nat /\ d * BlockSize \in Nat
    BY <2>2
  <2> HIDE DEF d
  <2> QED
    BY <2>2, <2>3, <2>4
<1> QED
  BY <1>1, <1>2, <1>3

\* Different positions of a sequence have different hashes.
LEMMA HashInjective ==
  ASSUME NEW s \in Seqs, NEW i, NEW j, Hashable(s, i), Hashable(s, j),
         Hash(s, i) = Hash(s, j)
  PROVE  i = j
<1> USE BlockSizeAssumption, LookaheadAssumption
<1>1. Text[s] \in Seq(Nat) /\ Len(Text[s]) \in Nat
  BY TextAssumption
<1>2. /\ i \in Nat /\ j \in Nat
      /\ i * BlockSize + Lookahead <= Len(Text[s])
      /\ j * BlockSize + Lookahead <= Len(Text[s])
  <2>1. num_hash_blocks(Len(Text[s])) \in Nat
    BY <1>1, NumHashBlocks
  <2>2. /\ i \in Nat /\ i \in 1 .. num_hash_blocks(Len(Text[s]))
        /\ j \in Nat /\ j \in 1 .. num_hash_blocks(Len(Text[s]))
    BY <2>1 DEF Hashable
  <2> QED
    BY <1>1, <2>2, NumHashBlocks
<1>3. i * BlockSize \in Nat /\ j * BlockSize \in Nat
  BY <1>2
<1>4. ASSUME NEW n \in Nat, n <= Len(Text[s]) PROVE Len(SubSeq(Text[s], 1, n)) = n
  BY <1>1, <1>4
<1>5. i * BlockSize + Lookahead = j * BlockSize + Lookahead
  BY <1>2, <1>3, <1>4 DEF Hash
<1>6. i * BlockSize = j * BlockSize
  BY <1>3, <1>5
<1> QED
  BY <1>2, <1>6, MulInj

\* A hashable position's hash is one the leaf can file.
LEMMA HashType ==
  ASSUME NEW s \in Seqs, NEW i, Hashable(s, i)
  PROVE  Hash(s, i) \in Hashes /\ i \in Nat \ {0}
BY HashesAssumption, NumHashBlocks, TextAssumption DEF Hashable

\* A function on 1 .. n is a sequence of length n.
LEMMA FunctionSeq ==
  ASSUME NEW S, NEW T, T \subseteq S, NEW n \in Nat, NEW f, f \in [1 .. n -> T]
  PROVE  f \in Seq(S) /\ Len(f) = n
<1>1. f \in [1 .. n -> S]
  OBVIOUS
<1>2. f \in Seq(S)
  BY <1>1, SeqDef
<1>3. 1 .. Len(f) = 1 .. n /\ Len(f) \in Nat
  BY <1>1, <1>2, LenProperties
<1>4. ASSUME NEW m \in Nat, 1 .. m = 1 .. n PROVE m = n
  <2>1. m > 0 => m \in 1 .. n
    BY <1>4
  <2>2. n > 0 => n \in 1 .. m
    BY <1>4
  <2> QED
    BY <2>1, <2>2
<1> QED
  BY <1>2, <1>3, <1>4

-----------------------------------------------------------------------------
(* Block tables and their holders                                          *)

\* What Books says of one block table.
LEMMA TableFacts ==
  ASSUME NEW p, NEW K, Books(p, K), NEW t \in Seqs
  PROVE  /\ K[t] \in KvType /\ K[t].blocks \in Seq(Blocks)
         /\ K[t].shared \in Nat /\ K[t].cached \in Nat /\ K[t].kv \in Nat
         /\ Len(K[t].blocks) \in Nat
         /\ \A i \in 1 .. Len(K[t].blocks) :
              K[t].blocks[i] \in Blocks /\ K[t].blocks[i] \in Held(K[t])
         /\ Held(K[t]) \subseteq Blocks
<1>1. K[t] \in KvType
  BY DEF Books
<1>2. K[t].blocks \in Seq(Blocks) /\ K[t].shared \in Nat /\ K[t].cached \in Nat
      /\ K[t].kv \in Nat
  BY <1>1 DEF KvType
<1>3. Len(K[t].blocks) \in Nat /\ \A i \in 1 .. Len(K[t].blocks) : K[t].blocks[i] \in Blocks
  BY <1>2
<1> QED
  BY <1>1, <1>2, <1>3 DEF Held

\* Changing one table changes the holders, and so the counts, of the blocks
\* that enter or leave it.
LEMMA HoldersChange ==
  ASSUME NEW K, K \in [Seqs -> KvType], NEW s \in Seqs, NEW k, k \in KvType
  PROVE  LET L == [K EXCEPT ![s] = k]
         IN  /\ L \in [Seqs -> KvType]
             /\ L[s] = k /\ \A t \in Seqs : t # s => L[t] = K[t]
             /\ \A b \in Blocks : HoldersIn(L, b) =
                  IF b \in Held(k) THEN HoldersIn(K, b) \cup {s}
                                   ELSE HoldersIn(K, b) \ {s}
             /\ Cnt(L) \in [Blocks -> Nat]
             /\ \A b \in Blocks : Cnt(L)[b] =
                  IF b \in Held(k)
                    THEN IF b \in Held(K[s]) THEN Cnt(K)[b] ELSE Cnt(K)[b] + 1
                    ELSE IF b \in Held(K[s]) THEN Cnt(K)[b] - 1 ELSE Cnt(K)[b]
             /\ \A b \in Blocks : b \in Held(K[s]) => Cnt(K)[b] >= 1
<1> DEFINE L == [K EXCEPT ![s] = k]
<1>1. L \in [Seqs -> KvType] /\ L[s] = k /\ \A t \in Seqs : t # s => L[t] = K[t]
  OBVIOUS
<1>2. ASSUME NEW b \in Blocks
      PROVE  HoldersIn(L, b) = IF b \in Held(k) THEN HoldersIn(K, b) \cup {s}
                                               ELSE HoldersIn(K, b) \ {s}
  BY <1>1 DEF HoldersIn
<1>3. ASSUME NEW b \in Blocks
      PROVE  /\ IsFiniteSet(HoldersIn(K, b)) /\ IsFiniteSet(HoldersIn(L, b))
             /\ Cardinality(HoldersIn(K, b)) \in Nat
             /\ Cardinality(HoldersIn(L, b)) \in Nat
             /\ s \in HoldersIn(K, b) <=> b \in Held(K[s])
  <2>1. HoldersIn(K, b) \subseteq Seqs /\ HoldersIn(L, b) \subseteq Seqs
    BY DEF HoldersIn
  <2>2. IsFiniteSet(HoldersIn(K, b)) /\ IsFiniteSet(HoldersIn(L, b))
    BY <2>1, SeqsAssumption, FS_Subset
  <2> QED
    BY <2>2, FS_CardinalityType DEF HoldersIn
<1>4. ASSUME NEW b \in Blocks, b \in Held(K[s]) PROVE Cardinality(HoldersIn(K, b)) >= 1
  <2>1. s \in HoldersIn(K, b)
    BY <1>3, <1>4
  <2>2. Cardinality(HoldersIn(K, b)) # 0
    BY <2>1, <1>3, FS_EmptySet
  <2> QED
    BY <2>2, <1>3
<1>5. ASSUME NEW b \in Blocks
      PROVE  Cardinality(HoldersIn(L, b)) =
               IF b \in Held(k)
                 THEN IF b \in Held(K[s]) THEN Cardinality(HoldersIn(K, b))
                                          ELSE Cardinality(HoldersIn(K, b)) + 1
                 ELSE IF b \in Held(K[s]) THEN Cardinality(HoldersIn(K, b)) - 1
                                          ELSE Cardinality(HoldersIn(K, b))
  <2> DEFINE H == HoldersIn(K, b)
  <2>1. /\ Cardinality(H \cup {s}) = IF s \in H THEN Cardinality(H) ELSE Cardinality(H) + 1
        /\ Cardinality(H \ {s}) = IF s \in H THEN Cardinality(H) - 1 ELSE Cardinality(H)
    BY <1>3, FS_AddElement, FS_RemoveElement
  <2> QED
    BY <2>1, <1>2, <1>3
<1>6. Cnt(L) \in [Blocks -> Nat]
  BY <1>3 DEF Cnt
<1>7. \A b \in Blocks : Cnt(L)[b] = Cardinality(HoldersIn(L, b))
                        /\ Cnt(K)[b] = Cardinality(HoldersIn(K, b))
  BY DEF Cnt
<1> HIDE DEF L
<1>8. \A b \in Blocks : Cnt(L)[b] =
        IF b \in Held(k)
          THEN IF b \in Held(K[s]) THEN Cnt(K)[b] ELSE Cnt(K)[b] + 1
          ELSE IF b \in Held(K[s]) THEN Cnt(K)[b] - 1 ELSE Cnt(K)[b]
  BY <1>5, <1>7
<1>9. \A b \in Blocks : b \in Held(K[s]) => Cnt(K)[b] >= 1
  BY <1>4, <1>7
<1> QED
  BY <1>1, <1>2, <1>6, <1>8, <1>9 DEF L

\* A block in a table is counted, so a filed one has at least two aliases.
LEMMA HeldCounted ==
  ASSUME NEW p, NEW K, Books(p, K), NEW t \in Seqs, NEW b, b \in Held(K[t])
  PROVE  b \in Blocks /\ Cnt(K)[b] >= 1 /\ b \notin Unshared(p) /\ b \notin p.free
<1>1. b \in Blocks /\ K \in [Seqs -> KvType] /\ K[t] \in KvType
  BY TableFacts DEF Books
<1>2. Cnt(K)[b] >= 1
  BY <1>1, HoldersChange
<1>3. p.ref[b] = Cnt(K)[b] + (IF b \in p.ids THEN 1 ELSE 0) /\ Cnt(K)[b] \in Nat
      /\ p.free = {c \in Blocks : p.ref[c] = 0}
  BY <1>1 DEF Books, LeafInv
<1> QED
  BY <1>1, <1>2, <1>3 DEF Unshared

\* A free block is in no table and not filed.
LEMMA FreeBlock ==
  ASSUME NEW p, NEW K, Books(p, K), NEW b, b \in p.free
  PROVE  b \in Blocks /\ b \notin p.ids /\ \A t \in Seqs : b \notin Held(K[t])
<1>1. b \in Blocks /\ p.ref[b] = 0
  BY DEF Books, LeafInv
<1>2. p.ref[b] = Cnt(K)[b] + (IF b \in p.ids THEN 1 ELSE 0) /\ Cnt(K)[b] \in Nat
  BY <1>1 DEF Books, LeafInv
<1>3. b \notin p.ids
  BY <1>1, <1>2
<1> QED
  BY <1>1, <1>3, HeldCounted

\* What is filed is filed under one hash.
LEMMA FiledFacts ==
  ASSUME NEW p, NEW K, Books(p, K)
  PROVE  /\ p.node \in [Hashes -> Blocks \cup {NoBlock}]
         /\ \A h \in Hashes : p.node[h] # NoBlock => p.node[h] \in p.ids
         /\ \A g, h \in Hashes : p.node[g] = p.node[h] /\ p.node[g] # NoBlock => g = h
         /\ p.ids \subseteq Blocks /\ NoBlock \notin Blocks
BY BlocksAssumption DEF Books, LeafInv, LeafType, FiledOnce

-----------------------------------------------------------------------------
(* The books through each call a handler makes                             *)

\* Moving cursors and token counts only: a cursor may move forward, an empty
\* table may be reset.
LEMMA SameBlocksBooks ==
  ASSUME NEW p, NEW K, Books(p, K), NEW L, L \in [Seqs -> KvType],
         \A t \in Seqs : /\ L[t].blocks = K[t].blocks
                         /\ L[t].shared <= K[t].shared
                         /\ L[t].cached >= K[t].cached \/ K[t].blocks = <<>>
  PROVE  Books(p, L)
<1>1. \A t \in Seqs : Held(L[t]) = Held(K[t])
  BY DEF Held
<1>2. \A b : HoldersIn(L, b) = HoldersIn(K, b)
  BY <1>1 DEF HoldersIn
<1>3. Cnt(L) = Cnt(K)
  BY <1>2 DEF Cnt
<1>4. ASSUME NEW t \in Seqs PROVE TableInv(p, L, t)
  <2>1. /\ K[t].shared \in Nat /\ L[t].shared \in Nat /\ K[t].cached \in Nat
        /\ L[t].cached \in Nat /\ Len(K[t].blocks) \in Nat
    BY TableFacts DEF KvType
  <2>2. TableInv(p, K, t)
    BY DEF Books
  <2>3. K[t].blocks = <<>> => Len(K[t].blocks) = 0
    OBVIOUS
  <2>4. NoDuplicates(L[t])
    BY <2>2 DEF TableInv, NoDuplicates
  <2>5. SharedIsFiled(p, t, L[t])
    BY <2>1, <2>2 DEF TableInv, SharedIsFiled
  <2>6. FiledUnderOwnHash(p, t, L[t])
    BY <2>2 DEF TableInv, FiledUnderOwnHash
  <2>7. Unpublished(p, L, t)
    <3>1. SUFFICES ASSUME NEW i \in 1 .. Len(K[t].blocks), i > L[t].cached
                   PROVE  K[t].blocks[i] \notin p.ids /\ HoldersIn(K, K[t].blocks[i]) = {t}
      BY <1>2 DEF Unpublished
    <3>2. L[t].cached >= K[t].cached
      BY <2>1, <2>3, <3>1
    <3>3. i > K[t].cached
      BY <2>1, <3>1, <3>2
    <3> QED
      BY <2>2, <3>1, <3>3 DEF TableInv, Unpublished
  <2> QED
    BY <2>4, <2>5, <2>6, <2>7 DEF TableInv
<1> QED
  BY <1>3, <1>4 DEF Books

\* Eviction takes no block a table holds.
LEMMA EvictBooks ==
  ASSUME NEW p, NEW K, Books(p, K), NEW B, B \subseteq Unshared(p)
  PROVE  Books(evict(p, B), K)
<1> DEFINE q == evict(p, B)
<1>1. /\ LeafInv(q, Cnt(K)) /\ q.ids = p.ids \ B
      /\ \A h \in Hashes : q.node[h] = IF p.node[h] \in B THEN NoBlock ELSE p.node[h]
  BY EvictLeaf DEF Books
<1> HIDE DEF q
<1>2. ASSUME NEW t \in Seqs PROVE TableInv(q, K, t)
  <2>1. TableInv(p, K, t) /\ \A i \in 1 .. Len(K[t].blocks) : K[t].blocks[i] \notin B
    BY HeldCounted, TableFacts DEF Books
  <2>2. /\ K[t].shared \in Nat /\ Len(K[t].blocks) \in Nat
        /\ K[t].shared <= Len(K[t].blocks)
    BY <2>1, TableFacts DEF TableInv, SharedIsFiled
  <2>3. \A i : Hashable(t, i) => Hash(t, i) \in Hashes
    BY HashType
  <2>4. SharedIsFiled(q, t, K[t])
    BY <1>1, <2>1, <2>2, <2>3 DEF TableInv, SharedIsFiled
  <2>5. FiledUnderOwnHash(q, t, K[t])
    BY <1>1, <2>1, <2>3 DEF TableInv, FiledUnderOwnHash
  <2>6. Unpublished(q, K, t)
    BY <1>1, <2>1 DEF TableInv, Unpublished
  <2> QED
    BY <2>1, <2>4, <2>5, <2>6 DEF TableInv
<1> QED
  BY <1>1, <1>2 DEF Books, q

\* A table grows by free blocks.
LEMMA GrowBooks ==
  ASSUME NEW p, NEW K, Books(p, K), NEW s \in Seqs,
         NEW n \in Nat, NEW q, q \in NewBlocks(p, n)
  PROVE  Books(Grow(p, q), [K EXCEPT ![s] = [K[s] EXCEPT !.blocks = @ \o q]])
<1> DEFINE k == [K[s] EXCEPT !.blocks = @ \o q]
           L == [K EXCEPT ![s] = k]
           Q == {q[i] : i \in 1 .. Len(q)}
           r == Grow(p, q)
           N == Len(K[s].blocks)
<1>1. /\ q \in [1 .. n -> p.free] /\ \A i, j \in 1 .. n : q[i] = q[j] => i = j
      /\ p.free \subseteq Blocks
  BY DEF NewBlocks, Books, LeafInv
<1>2. q \in Seq(Blocks) /\ Len(q) = n
  BY <1>1, FunctionSeq
<1>3. /\ K[s] \in KvType /\ K[s].blocks \in Seq(Blocks) /\ N \in Nat
      /\ K[s].shared \in Nat /\ K[s].cached \in Nat
  BY TableFacts
<1>4. /\ k.blocks = K[s].blocks \o q /\ k.shared = K[s].shared /\ k.cached = K[s].cached
      /\ k.kv = K[s].kv /\ k \in KvType
  <2>1. K[s].blocks \o q \in Seq(Blocks)
    BY <1>2, <1>3, ConcatProperties
  <2> QED
    BY <1>3, <2>1 DEF KvType
<1> HIDE DEF k
<1>5. /\ Len(k.blocks) = N + n
      /\ \A i \in 1 .. N + n : k.blocks[i] = IF i <= N THEN K[s].blocks[i] ELSE q[i - N]
  <2> DEFINE u == K[s].blocks
  <2>1. u \in Seq(Blocks) /\ k.blocks = u \o q /\ N = Len(u)
    BY <1>3, <1>4
  <2> HIDE DEF u, N
  <2>2. /\ Len(u \o q) = Len(u) + Len(q)
        /\ \A i \in 1 .. Len(u) + Len(q) : (u \o q)[i] =
             IF i <= Len(u) THEN u[i] ELSE q[i - Len(u)]
    BY <1>2, <2>1, ConcatProperties, Zenon
  <2> QED
    BY <1>2, <2>1, <2>2, Zenon DEF u
<1>6. \A i \in 1 .. n : /\ q[i] \in Blocks /\ q[i] \notin p.ids
                        /\ \A t \in Seqs : q[i] \notin Held(K[t])
  BY <1>1, FreeBlock
<1>7. Held(k) = Held(K[s]) \cup Q /\ Q \subseteq p.free
  <2> HIDE DEF N
  <2>1. \A i \in 1 .. N : i \in 1 .. N + n /\ k.blocks[i] = K[s].blocks[i]
    BY <1>3, <1>5
  <2>2. \A i \in 1 .. n : i + N \in 1 .. N + n /\ k.blocks[i + N] = q[i]
    BY <1>3, <1>5
  <2>3. \A i \in 1 .. N + n : i \in 1 .. N \/ (i - N \in 1 .. n /\ k.blocks[i] = q[i - N])
    BY <1>3, <1>5
  <2>4. Q \subseteq p.free
    BY <1>1, <1>2
  <2>5. \A b : b \in Held(k) <=> \E i \in 1 .. N + n : k.blocks[i] = b
    BY <1>5 DEF Held
  <2>6. \A b : b \in Held(K[s]) <=> \E i \in 1 .. N : K[s].blocks[i] = b
    BY DEF Held, N
  <2>7. \A b : b \in Q <=> \E i \in 1 .. n : q[i] = b
    BY <1>2
  <2> HIDE DEF Q
  <2>8. \A b : b \in Held(k) <=> (b \in Held(K[s]) \/ b \in Q)
    BY <2>1, <2>2, <2>3, <2>5, <2>6, <2>7
  <2> QED
    BY <2>4, <2>8
<1>8. /\ L \in [Seqs -> KvType] /\ L[s] = k /\ \A t \in Seqs : t # s => L[t] = K[t]
      /\ \A b \in Blocks : HoldersIn(L, b) =
           IF b \in Held(k) THEN HoldersIn(K, b) \cup {s} ELSE HoldersIn(K, b) \ {s}
      /\ Cnt(L) \in [Blocks -> Nat]
      /\ \A b \in Blocks : Cnt(L)[b] =
           IF b \in Held(k)
             THEN IF b \in Held(K[s]) THEN Cnt(K)[b] ELSE Cnt(K)[b] + 1
             ELSE IF b \in Held(K[s]) THEN Cnt(K)[b] - 1 ELSE Cnt(K)[b]
  <2>1. K \in [Seqs -> KvType]
    BY DEF Books
  <2> QED
    BY <1>4, <2>1, HoldersChange
<1>9. Cnt(L) = Plus1(Cnt(K), Q)
  <2>1. \A b \in Q : b \notin Held(K[s])
    BY <1>2, <1>6
  <2> HIDE DEF L, Q
  <2>2. \A b \in Blocks : Cnt(L)[b] = IF b \in Q THEN Cnt(K)[b] + 1 ELSE Cnt(K)[b]
    BY <1>7, <1>8, <2>1
  <2> QED
    BY <1>8, <2>2 DEF Plus1
<1>10. /\ LeafInv(r, Cnt(L)) /\ r.node = p.node /\ r.ids = p.ids
  <2>1. LeafInv(allocate(p, Q), Plus1(Cnt(K), Q))
    BY <1>7, AllocateLeaf DEF Books
  <2>2. allocate(p, Q).node = p.node /\ allocate(p, Q).ids = p.ids
    BY DEF allocate, Books, LeafInv, LeafType
  <2> QED
    BY <1>9, <2>1, <2>2 DEF Grow
<1> HIDE DEF r, L
<1>11. ASSUME NEW t \in Seqs PROVE TableInv(r, L, t)
  <2>1. TableInv(p, K, t) /\ TableInv(p, K, s)
    BY DEF Books
  <2>2. Q \subseteq Blocks /\ \A b \in Q : b \notin p.ids /\ HoldersIn(L, b) = {s}
    <3>1. \A b \in Q : b \in Blocks /\ b \notin p.ids /\ b \in Held(k)
                       /\ HoldersIn(K, b) = {}
      BY <1>2, <1>6, <1>7 DEF HoldersIn
    <3> QED
      BY <1>8, <3>1
  <2>3. CASE t # s
    <3>1. L[t] = K[t]
      BY <1>8, <2>3
    <3>2. NoDuplicates(L[t]) /\ SharedIsFiled(r, t, L[t]) /\ FiledUnderOwnHash(r, t, L[t])
      BY <1>10, <2>1, <3>1 DEF TableInv, SharedIsFiled, FiledUnderOwnHash
    <3>3. \A i \in 1 .. Len(K[t].blocks) :
            /\ K[t].blocks[i] \in Blocks /\ K[t].blocks[i] \in Held(K[t])
            /\ K[t].blocks[i] \notin Q
      BY <1>2, <1>6, TableFacts
    <3>4. ASSUME NEW i \in 1 .. Len(K[t].blocks), i > K[t].cached
          PROVE  K[t].blocks[i] \notin r.ids /\ HoldersIn(L, K[t].blocks[i]) = {t}
      <4>1. K[t].blocks[i] \notin p.ids /\ HoldersIn(K, K[t].blocks[i]) = {t}
        BY <2>1, <3>4 DEF TableInv, Unpublished
      <4>2. K[t].blocks[i] \notin Held(K[s])
        BY <2>3, <4>1 DEF HoldersIn
      <4> HIDE DEF Q
      <4>3. K[t].blocks[i] \notin Held(k)
        BY <1>7, <3>3, <4>2
      <4> QED
        BY <1>8, <1>10, <2>3, <3>3, <4>1, <4>3
    <3> QED
      BY <3>1, <3>2, <3>4 DEF TableInv, Unpublished
  <2>4. CASE t = s
    <3>0. L[s] = k
      BY <1>8
    <3>1. NoDuplicates(k)
      <4>1. SUFFICES ASSUME NEW i \in 1 .. N + n, NEW j \in 1 .. N + n,
                            k.blocks[i] = k.blocks[j]
                     PROVE  i = j
        BY <1>5 DEF NoDuplicates
      <4>2. \A x \in 1 .. N : K[s].blocks[x] \in Held(K[s])
        BY TableFacts
      <4>3. \A x, y \in 1 .. N : K[s].blocks[x] = K[s].blocks[y] => x = y
        BY <2>1 DEF TableInv, NoDuplicates
      <4> HIDE DEF N
      <4>4. CASE i <= N /\ j <= N
        <5>1. i \in 1 .. N /\ j \in 1 .. N
          BY <1>3, <4>4
        <5>2. K[s].blocks[i] = K[s].blocks[j]
          BY <1>5, <4>1, <4>4
        <5> QED
          BY <4>3, <5>1, <5>2
      <4>5. CASE i > N /\ j > N
        <5>1. i - N \in 1 .. n /\ j - N \in 1 .. n /\ q[i - N] = q[j - N]
          BY <1>3, <1>5, <4>1, <4>5
        <5> QED
          BY <1>1, <1>3, <5>1
      <4>6. CASE (i <= N /\ j > N) \/ (i > N /\ j <= N)
        BY <1>3, <1>5, <1>6, <4>1, <4>2, <4>6
      <4> QED
        BY <1>3, <4>4, <4>5, <4>6
    <3>2. SharedIsFiled(r, s, k)
      <4>1. K[s].shared <= N /\ \A i \in 1 .. K[s].shared :
              Hashable(s, i) /\ K[s].blocks[i] = p.node[Hash(s, i)]
        BY <2>1 DEF TableInv, SharedIsFiled
      <4> HIDE DEF N
      <4>2. K[s].shared <= N + n /\ \A i \in 1 .. K[s].shared :
              i \in 1 .. N + n /\ i <= N
        BY <1>3, <4>1
      <4>3. \A i \in 1 .. K[s].shared : k.blocks[i] = K[s].blocks[i]
        BY <1>5, <4>2
      <4> QED
        BY <1>4, <1>5, <1>10, <4>1, <4>2, <4>3 DEF SharedIsFiled
    <3>3. FiledUnderOwnHash(r, s, k)
      <4>1. \A i \in 1 .. N : K[s].blocks[i] \in p.ids =>
              Hashable(s, i) /\ p.node[Hash(s, i)] = K[s].blocks[i]
        BY <2>1 DEF TableInv, FiledUnderOwnHash
      <4> HIDE DEF N
      <4>2. ASSUME NEW i \in 1 .. N + n, k.blocks[i] \in p.ids
            PROVE  Hashable(s, i) /\ p.node[Hash(s, i)] = k.blocks[i]
        BY <1>3, <1>5, <1>6, <4>1, <4>2
      <4> QED
        BY <1>5, <1>10, <4>2 DEF FiledUnderOwnHash
    <3>4. Unpublished(r, L, s)
      <4>1. \A i \in 1 .. N : i > K[s].cached => /\ K[s].blocks[i] \notin p.ids
              /\ HoldersIn(K, K[s].blocks[i]) = {s}
              /\ K[s].blocks[i] \in Held(K[s]) /\ K[s].blocks[i] \in Blocks
        BY <2>1, TableFacts DEF TableInv, Unpublished
      <4>2. \A i \in 1 .. n : q[i] \in Q
        BY <1>2
      <4> HIDE DEF N, Q
      <4>3. ASSUME NEW i \in 1 .. N + n, i > k.cached
            PROVE  k.blocks[i] \notin p.ids /\ HoldersIn(L, k.blocks[i]) = {s}
        <5>1. CASE i <= N
          <6>1. i \in 1 .. N /\ k.blocks[i] = K[s].blocks[i]
            BY <1>3, <1>5, <5>1
          <6>2. /\ k.blocks[i] \notin p.ids /\ HoldersIn(K, k.blocks[i]) = {s}
                /\ k.blocks[i] \in Held(k) /\ k.blocks[i] \in Blocks
            BY <1>4, <1>7, <4>1, <4>3, <6>1
          <6> QED
            BY <1>8, <6>2
        <5>2. CASE i > N
          <6>1. i - N \in 1 .. n /\ k.blocks[i] = q[i - N]
            BY <1>3, <1>5, <5>2
          <6> QED
            BY <2>2, <4>2, <6>1
        <5> QED
          BY <1>3, <5>1, <5>2
      <4> QED
        BY <1>5, <1>10, <3>0, <4>3 DEF Unpublished
    <3> QED
      BY <2>4, <3>0, <3>1, <3>2, <3>3, <3>4 DEF TableInv
  <2> QED
    BY <2>3, <2>4
<1> QED
  BY <1>8, <1>10, <1>11 DEF Books, r, L, k

\* The fields a release leaves alone.
LEMMA FreeFields ==
  ASSUME NEW p, p \in LeafType, NEW B
  PROVE  free(p, B).node = p.node /\ free(p, B).ids = p.ids
BY DEF free, LeafType

\* A whole table is released.
LEMMA DropBooks ==
  ASSUME NEW p, NEW K, Books(p, K), NEW s \in Seqs
  PROVE  Books(free(p, Held(K[s])), [K EXCEPT ![s] = EmptyKv])
<1> DEFINE k == EmptyKv
           L == [K EXCEPT ![s] = k]
           q == free(p, Held(K[s]))
<1>1. k \in KvType /\ k.blocks = <<>> /\ k.shared = 0 /\ Len(k.blocks) = 0
      /\ Held(k) = {}
  <2>1. k \in KvType /\ k.blocks = <<>> /\ k.shared = 0
    BY DEF EmptyKv, KvType
  <2> QED
    BY <2>1 DEF Held
<1> HIDE DEF k
<1>2. /\ L \in [Seqs -> KvType] /\ L[s] = k /\ \A t \in Seqs : t # s => L[t] = K[t]
      /\ \A b \in Blocks : HoldersIn(L, b) = HoldersIn(K, b) \ {s}
      /\ Cnt(L) \in [Blocks -> Nat]
      /\ \A b \in Blocks : Cnt(L)[b] =
           IF b \in Held(K[s]) THEN Cnt(K)[b] - 1 ELSE Cnt(K)[b]
      /\ \A b \in Blocks : b \in Held(K[s]) => Cnt(K)[b] >= 1
  <2>1. K \in [Seqs -> KvType]
    BY DEF Books
  <2>2. /\ L \in [Seqs -> KvType] /\ L[s] = k /\ \A t \in Seqs : t # s => L[t] = K[t]
        /\ \A b \in Blocks : HoldersIn(L, b) =
             IF b \in Held(k) THEN HoldersIn(K, b) \cup {s} ELSE HoldersIn(K, b) \ {s}
        /\ Cnt(L) \in [Blocks -> Nat]
        /\ \A b \in Blocks : Cnt(L)[b] =
             IF b \in Held(k)
               THEN IF b \in Held(K[s]) THEN Cnt(K)[b] ELSE Cnt(K)[b] + 1
               ELSE IF b \in Held(K[s]) THEN Cnt(K)[b] - 1 ELSE Cnt(K)[b]
        /\ \A b \in Blocks : b \in Held(K[s]) => Cnt(K)[b] >= 1
    <3>1. k \in KvType
      BY <1>1
    <3> QED
      BY <2>1, <3>1, HoldersChange
  <2> HIDE DEF L
  <2> QED
    BY <1>1, <2>2
<1>3. Cnt(L) = Minus1(Cnt(K), Held(K[s]))
  <2> HIDE DEF L
  <2> QED
    BY <1>2 DEF Minus1
<1>4. LeafInv(q, Cnt(L)) /\ q.node = p.node /\ q.ids = p.ids
  <2>1. Held(K[s]) \subseteq Blocks /\ \A b \in Held(K[s]) : Cnt(K)[b] >= 1
    BY <1>2, TableFacts
  <2>2. LeafInv(q, Minus1(Cnt(K), Held(K[s])))
    BY <2>1, FreeLeaf DEF Books
  <2>3. p \in LeafType
    BY DEF Books, LeafInv
  <2> QED
    BY <1>3, <2>2, <2>3, FreeFields
<1> HIDE DEF L, q
<1>5. ASSUME NEW t \in Seqs PROVE TableInv(q, L, t)
  <2>1. TableInv(p, K, t)
    BY DEF Books
  <2>2. CASE t = s
    <3>1. L[t] = k
      BY <1>2, <2>2
    <3> QED
      BY <1>1, <3>1 DEF TableInv, NoDuplicates, SharedIsFiled, FiledUnderOwnHash, Unpublished
  <2>3. CASE t # s
    <3>1. L[t] = K[t]
      BY <1>2, <2>3
    <3>2. NoDuplicates(L[t]) /\ SharedIsFiled(q, t, L[t]) /\ FiledUnderOwnHash(q, t, L[t])
      BY <1>4, <2>1, <3>1 DEF TableInv, SharedIsFiled, FiledUnderOwnHash
    <3>3. \A i \in 1 .. Len(K[t].blocks) : K[t].blocks[i] \in Blocks
      BY TableFacts
    <3>4. Unpublished(q, L, t)
      BY <1>2, <1>4, <2>1, <2>3, <3>1, <3>3 DEF TableInv, Unpublished
    <3> QED
      BY <3>2, <3>4 DEF TableInv
  <2> QED
    BY <2>2, <2>3
<1> QED
  BY <1>2, <1>4, <1>5 DEF Books, L, q, k

\* Publishing up to block e files blocks that were private to s.
LEMMA PublishBooks ==
  ASSUME NEW p, NEW K, Books(p, K), NEW s \in Seqs,
         NEW e \in Nat, e <= num_hash_blocks(Len(Text[s]))
  PROVE  Books(publish_pool(p, s, K[s], e),
               [K EXCEPT ![s] = publish_cursor(K[s], e)])
<1> DEFINE k == K[s]
           R == PublishedRange(k, e)
           pub == {<<Hash(s, i), k.blocks[i]>> : i \in R}
           q == insert(p, pub)
           L == [K EXCEPT ![s] = publish_cursor(K[s], e)]
<1>1. /\ k \in KvType /\ k.cached \in Nat /\ Len(k.blocks) \in Nat
      /\ \A i \in 1 .. Len(k.blocks) : k.blocks[i] \in Blocks /\ k.blocks[i] \in Held(k)
  BY TableFacts
<1>2. TableInv(p, K, s)
  BY DEF Books
<1>3. \A i \in R : /\ i \in 1 .. Len(k.blocks) /\ i > k.cached /\ i <= e
                   /\ Hashable(s, i) /\ Hash(s, i) \in Hashes
                   /\ k.blocks[i] \in Blocks /\ k.blocks[i] \in Held(k)
                   /\ k.blocks[i] \notin p.ids /\ HoldersIn(K, k.blocks[i]) = {s}
  <2>1. num_hash_blocks(Len(Text[s])) \in Nat
    BY NumHashBlocks, TextAssumption
  <2>2. \A i \in R : i \in 1 .. Len(k.blocks) /\ i > k.cached /\ i <= e
    BY <1>1 DEF PublishedRange
  <2>3. \A i \in R : Hashable(s, i)
    BY <1>1, <2>1, <2>2 DEF Hashable
  <2>4. \A i \in R : Hash(s, i) \in Hashes
    BY <2>3, HashType
  <2>5. \A i \in R : k.blocks[i] \notin p.ids /\ HoldersIn(K, k.blocks[i]) = {s}
    BY <1>2, <2>2 DEF TableInv, Unpublished
  <2> HIDE DEF R
  <2> QED
    BY <1>1, <2>2, <2>3, <2>4, <2>5
<1>4. \A i, j \in 1 .. Len(k.blocks) : k.blocks[i] = k.blocks[j] => i = j
  BY <1>2 DEF TableInv, NoDuplicates
<1> HIDE DEF R, k
<1>5. Publishable(p, Cnt(K), pub)
  <2>1. \A x \in pub : \E i \in R : x = <<Hash(s, i), k.blocks[i]>>
    OBVIOUS
  <2> HIDE DEF pub
  <2>2. pub \subseteq Hashes \X Blocks
    BY <1>3, <2>1
  <2>3. ASSUME NEW x \in pub, NEW y \in pub, x[1] = y[1] PROVE x = y
    <3>1. PICK i \in R : x = <<Hash(s, i), k.blocks[i]>>
      BY <2>1
    <3>2. PICK j \in R : y = <<Hash(s, j), k.blocks[j]>>
      BY <2>1
    <3>3. Hash(s, i) = Hash(s, j)
      BY <2>3, <3>1, <3>2
    <3>4. i = j
      BY <1>3, <3>3, HashInjective
    <3> QED
      BY <3>1, <3>2, <3>4
  <2>4. ASSUME NEW x \in pub, NEW y \in pub, x[2] = y[2] PROVE x = y
    <3>1. PICK i \in R : x = <<Hash(s, i), k.blocks[i]>>
      BY <2>1
    <3>2. PICK j \in R : y = <<Hash(s, j), k.blocks[j]>>
      BY <2>1
    <3>3. i = j
      BY <1>3, <1>4, <2>4, <3>1, <3>2
    <3> QED
      BY <3>1, <3>2, <3>3
  <2>5. \A b : b \in Held(k) => Cnt(K)[b] >= 1
    BY HeldCounted DEF k
  <2>6. ASSUME NEW x \in pub PROVE x[2] \notin p.ids /\ Cnt(K)[x[2]] >= 1
    BY <1>3, <2>1, <2>5
  <2> QED
    BY <2>2, <2>3, <2>4, <2>6 DEF Publishable
<1>6. LeafInv(q, Cnt(K))
  BY <1>5, InsertLeaf DEF Books
<1>7. /\ \A h \in Hashes : p.node[h] # NoBlock => q.node[h] = p.node[h]
      /\ p.ids \subseteq q.ids
      /\ \A b \in q.ids : b \in p.ids \/ \E x \in pub : b = x[2] /\ q.node[x[1]] = b
  <2>1. LeafInv(p, Cnt(K))
    BY DEF Books
  <2> HIDE DEF pub
  <2> QED
    BY <1>5, <2>1, InsertFiled
<1>8. \A b \in q.ids : b \in p.ids \/
        \E i \in R : b = k.blocks[i] /\ q.node[Hash(s, i)] = b
  <2>1. ASSUME NEW x \in pub, q.node[x[1]] = x[2]
        PROVE \E i \in R : x[2] = k.blocks[i] /\ q.node[Hash(s, i)] = x[2]
    <3>1. PICK i \in R : x = <<Hash(s, i), k.blocks[i]>>
      OBVIOUS
    <3>2. x[1] = Hash(s, i) /\ x[2] = k.blocks[i]
      BY <3>1
    <3> HIDE DEF q, pub
    <3> QED
      BY <2>1, <3>2
  <2> HIDE DEF q, pub
  <2> QED
    BY <1>7, <2>1
<1>10. /\ L \in [Seqs -> KvType]
       /\ \A t \in Seqs : L[t].blocks = K[t].blocks /\ L[t].shared = K[t].shared
       /\ \A t \in Seqs : L[t].cached \in Nat /\ L[t].cached >= K[t].cached
       /\ L[s].cached >= e
  <2>1. /\ publish_cursor(K[s], e) \in KvType
        /\ publish_cursor(K[s], e).blocks = K[s].blocks
        /\ publish_cursor(K[s], e).shared = K[s].shared
        /\ publish_cursor(K[s], e).cached >= K[s].cached
        /\ publish_cursor(K[s], e).cached >= e
        /\ publish_cursor(K[s], e).cached \in Nat
    BY <1>1 DEF publish_cursor, LargerOf, KvType, k
  <2>2. K \in [Seqs -> KvType] /\ \A t \in Seqs : K[t].cached \in Nat
    BY TableFacts DEF Books
  <2> HIDE DEF q
  <2> QED
    BY <2>1, <2>2
<1> HIDE DEF q, L, pub
<1>11. \A b : HoldersIn(L, b) = HoldersIn(K, b)
  <2>1. \A t \in Seqs : Held(L[t]) = Held(K[t])
    BY <1>10 DEF Held
  <2> QED
    BY <2>1 DEF HoldersIn
<1>12. Cnt(L) = Cnt(K)
  BY <1>11 DEF Cnt
<1>13. ASSUME NEW t \in Seqs PROVE TableInv(q, L, t)
  <2> DEFINE B == K[t].blocks
  <2>1. /\ TableInv(p, K, t) /\ L[t].blocks = B /\ Len(B) \in Nat
        /\ L[t].shared = K[t].shared /\ K[t].shared \in Nat /\ K[t].cached \in Nat
        /\ \A i \in 1 .. Len(B) : B[i] \in Blocks /\ B[i] \in Held(K[t])
    BY <1>10, TableFacts, Zenon DEF Books
  <2>2. \A i : Hashable(t, i) => Hash(t, i) \in Hashes
    BY HashType
  <2>3. NoBlock \notin Blocks
    BY BlocksAssumption
  <2>4. NoDuplicates(L[t])
    BY <2>1 DEF TableInv, NoDuplicates
  <2>5. SharedIsFiled(q, t, L[t])
    <3>1. K[t].shared <= Len(B) /\ \A i \in 1 .. K[t].shared :
            i \in 1 .. Len(B) /\ Hashable(t, i) /\ B[i] = p.node[Hash(t, i)]
      BY <2>1 DEF TableInv, SharedIsFiled
    <3> HIDE DEF B
    <3>2. \A i \in 1 .. K[t].shared : q.node[Hash(t, i)] = B[i]
      BY <1>7, <2>1, <2>2, <2>3, <3>1
    <3> QED
      BY <2>1, <3>1, <3>2 DEF SharedIsFiled
  <2>6. ASSUME NEW i \in 1 .. Len(B), NEW j \in R, B[i] = k.blocks[j]
        PROVE  t = s /\ i = j
    <3>1. t \in HoldersIn(K, B[i])
      BY <2>1 DEF HoldersIn
    <3>2. HoldersIn(K, k.blocks[j]) = {s}
      BY <1>3, <2>6
    <3>3. t = s
      BY <2>6, <3>1, <3>2
    <3> QED
      BY <1>3, <1>4, <2>6, <3>3 DEF k
  <2>7. FiledUnderOwnHash(q, t, L[t])
    <3>1. SUFFICES ASSUME NEW i \in 1 .. Len(B), B[i] \in q.ids
                   PROVE  Hashable(t, i) /\ q.node[Hash(t, i)] = B[i]
      BY <2>1 DEF FiledUnderOwnHash
    <3>2. CASE B[i] \in p.ids
      <4>1. Hashable(t, i) /\ p.node[Hash(t, i)] = B[i]
        BY <2>1, <3>1, <3>2 DEF TableInv, FiledUnderOwnHash
      <4> HIDE DEF B
      <4> QED
        BY <1>7, <2>1, <2>2, <2>3, <3>1, <4>1
    <3>3. CASE B[i] \notin p.ids
      <4>1. PICK j \in R : B[i] = k.blocks[j] /\ q.node[Hash(s, j)] = B[i]
        BY <1>8, <3>1, <3>3
      <4>2. t = s /\ i = j
        BY <2>6, <3>1, <4>1
      <4> HIDE DEF B
      <4> QED
        BY <1>3, <4>1, <4>2
    <3> QED
      BY <3>2, <3>3
  <2>8. Unpublished(q, L, t)
    <3>1. SUFFICES ASSUME NEW i \in 1 .. Len(B), i > L[t].cached
                   PROVE  B[i] \notin q.ids /\ HoldersIn(K, B[i]) = {t}
      BY <1>11, <2>1 DEF Unpublished
    <3>2. i > K[t].cached /\ (t = s => i > e)
      BY <1>10, <2>1, <3>1
    <3>3. B[i] \notin p.ids /\ HoldersIn(K, B[i]) = {t}
      BY <2>1, <3>1, <3>2 DEF TableInv, Unpublished
    <3>4. ASSUME B[i] \in q.ids PROVE FALSE
      <4>1. PICK j \in R : B[i] = k.blocks[j]
        BY <1>8, <3>3, <3>4
      <4>2. t = s /\ i = j
        BY <2>6, <3>1, <4>1
      <4> QED
        BY <1>3, <3>2, <4>2
    <3> QED
      BY <3>3, <3>4
  <2> QED
    BY <2>4, <2>5, <2>7, <2>8 DEF TableInv
<1> QED
  BY <1>6, <1>10, <1>12, <1>13 DEF Books, publish_pool, q, L, pub, R, k

-----------------------------------------------------------------------------
(* Mounting a matched prefix                                               *)

\* A table B of N blocks can take the matched blocks v at 1 .. m; the first S
\* are the ones it has.
Mountable(N, m, S, B, v) ==
  /\ N \in Nat /\ m \in Nat /\ S \in Nat /\ S < m /\ S <= N
  /\ \A i \in 1 .. m, j \in 1 .. N : v[i] = B[j] => i = j
  /\ \A i, j \in 1 .. m : v[i] = v[j] => i = j
  /\ \A i, j \in 1 .. N : B[i] = B[j] => i = j
  /\ \A i \in 1 .. S : B[i] = v[i]

\* What that does to the sets: C are the blocks newly referenced, D the ones
\* given up.
MountEffect(N, m, S, B, v) ==
  LET C == {v[i] : i \in S + 1 .. m}
      D == {B[j] : j \in S + 1 .. SmallerOf(m, N)}
      H == {B[j] : j \in 1 .. N}
  IN  /\ D \subseteq H /\ C \cap H \subseteq D
      /\ m <= N => {IF i <= m THEN v[i] ELSE B[i] : i \in 1 .. N} = (H \ D) \cup C
      /\ m > N => {v[i] : i \in 1 .. m} = (H \ D) \cup C
      /\ m > N => /\ {v[i] : i \in 1 .. m - 1} = ((H \ D) \cup C) \ {v[m]}
                  /\ v[m] \in C /\ v[m] \notin H

\* The sets behind a mount.
LEMMA MountSets ==
  ASSUME NEW N, NEW m, NEW S, NEW B, NEW v, Mountable(N, m, S, B, v)
  PROVE  MountEffect(N, m, S, B, v)
<1> DEFINE C == {v[i] : i \in S + 1 .. m}
           M == SmallerOf(m, N)
           D == {B[j] : j \in S + 1 .. M}
           H == {B[j] : j \in 1 .. N}
<1>0. /\ N \in Nat /\ m \in Nat /\ S \in Nat /\ S < m /\ S <= N
      /\ \A i \in 1 .. m, j \in 1 .. N : v[i] = B[j] => i = j
      /\ \A i, j \in 1 .. m : v[i] = v[j] => i = j
      /\ \A i, j \in 1 .. N : B[i] = B[j] => i = j
      /\ \A i \in 1 .. S : B[i] = v[i]
  BY DEF Mountable
<1> USE <1>0
<1>1. M \in Nat /\ M <= m /\ M <= N /\ (M = m \/ M = N) /\ (m <= N => M = m)
      /\ (m > N => M = N)
  BY DEF SmallerOf
<1> HIDE DEF M
<1>2. /\ \A b : b \in C <=> \E i \in S + 1 .. m : v[i] = b
      /\ \A b : b \in D <=> \E i \in S + 1 .. M : B[i] = b
      /\ \A b : b \in H <=> \E i \in 1 .. N : B[i] = b
  OBVIOUS
<1> HIDE DEF C, D, H
<1>3. D \subseteq H /\ C \cap H \subseteq D
  <2>1. D \subseteq H
    BY <1>1, <1>2
  <2>2. ASSUME NEW b \in C \cap H PROVE b \in D
    <3>1. PICK i \in S + 1 .. m : v[i] = b
      BY <1>2
    <3>2. PICK j \in 1 .. N : B[j] = b
      BY <1>2
    <3>3. i = j
      BY <3>1, <3>2
    <3> QED
      BY <1>1, <1>2, <3>1, <3>2, <3>3
  <2> QED
    BY <2>1, <2>2
<1>4. \A j \in 1 .. N : B[j] \in D => j \in S + 1 .. M
  BY <1>1, <1>2
<1>5. ASSUME m <= N
      PROVE  {IF i <= m THEN v[i] ELSE B[i] : i \in 1 .. N} = (H \ D) \cup C
  <2>1. ASSUME NEW i \in 1 .. N
        PROVE  (IF i <= m THEN v[i] ELSE B[i]) \in (H \ D) \cup C
    <3>1. CASE i > m
      BY <1>1, <1>2, <1>4, <1>5, <2>1, <3>1
    <3>2. CASE i <= m /\ i > S
      BY <1>2, <3>2
    <3>3. CASE i <= S
      BY <1>1, <1>2, <1>4, <3>3
    <3> QED
      BY <3>1, <3>2, <3>3
  <2>2. ASSUME NEW b \in (H \ D) \cup C
        PROVE  \E i \in 1 .. N : b = IF i <= m THEN v[i] ELSE B[i]
    <3>1. CASE b \in C
      BY <1>2, <1>5, <3>1
    <3>2. CASE b \in H \ D
      <4>1. PICK i \in 1 .. N : B[i] = b
        BY <1>2, <3>2
      <4>2. i \notin S + 1 .. M
        BY <1>2, <3>2, <4>1
      <4> QED
        BY <1>1, <1>5, <4>1, <4>2
    <3> QED
      BY <2>2, <3>1, <3>2
  <2> QED
    BY <2>1, <2>2
<1>6. ASSUME m > N PROVE {v[i] : i \in 1 .. m} = (H \ D) \cup C
  <2>1. ASSUME NEW i \in 1 .. m PROVE v[i] \in (H \ D) \cup C
    <3>1. CASE i > S
      BY <1>2, <3>1
    <3>2. CASE i <= S
      BY <1>1, <1>2, <1>4, <3>2
    <3> QED
      BY <3>1, <3>2
  <2>2. ASSUME NEW b \in (H \ D) \cup C PROVE \E i \in 1 .. m : b = v[i]
    <3>1. CASE b \in C
      BY <1>2, <3>1
    <3>2. CASE b \in H \ D
      <4>1. PICK i \in 1 .. N : B[i] = b
        BY <1>2, <3>2
      <4>2. i \notin S + 1 .. M
        BY <1>2, <3>2, <4>1
      <4> QED
        BY <1>1, <1>6, <4>1, <4>2
    <3> QED
      BY <2>2, <3>1, <3>2
  <2> QED
    BY <2>1, <2>2
<1>7. ASSUME m > N
      PROVE  /\ {v[i] : i \in 1 .. m - 1} = ((H \ D) \cup C) \ {v[m]}
             /\ v[m] \in C /\ v[m] \notin H
  <2>1. v[m] \in C /\ v[m] \notin H
    BY <1>2, <1>7
  <2>2. {v[i] : i \in 1 .. m - 1} = {v[i] : i \in 1 .. m} \ {v[m]}
    <3>1. \A i \in 1 .. m - 1 : i \in 1 .. m /\ v[i] # v[m]
      OBVIOUS
    <3>2. \A i \in 1 .. m : i = m \/ i \in 1 .. m - 1
      OBVIOUS
    <3> QED
      BY <3>1, <3>2
  <2> QED
    BY <1>6, <1>7, <2>1, <2>2
<1> QED
  BY <1>3, <1>5, <1>6, <1>7 DEF C, D, H, M, MountEffect

\* The table k follows that of s: blocks C come in, D go, P are given back.
MountMoves(K, s, k, C, D, P) ==
  /\ C \subseteq Blocks /\ D \subseteq Blocks /\ D \subseteq Held(K[s])
  /\ C \cap Held(K[s]) \subseteq D /\ P \subseteq C /\ P \cap Held(K[s]) = {}
  /\ \A b \in Blocks : b \in Held(k) <=>
       ((b \in Held(K[s]) /\ b \notin D) \/ b \in C) /\ b \notin P

\* The counts behind a mount: a leaf p that gained an alias for each block of
\* C and lost one for each of D and of P fits the new tables.
LEMMA MountCounts ==
  ASSUME NEW K, K \in [Seqs -> KvType], NEW s \in Seqs, NEW k, k \in KvType,
         Cnt(K) \in [Blocks -> Nat],
         NEW C, NEW D, NEW P, MountMoves(K, s, k, C, D, P), NEW p
  PROVE  /\ \A b \in D : Plus1(Cnt(K), C)[b] >= 1
         /\ \A b \in P : Minus1(Plus1(Cnt(K), C), D)[b] >= 1
         /\ LeafInv(p, Minus1(Minus1(Plus1(Cnt(K), C), D), P)) =>
              LeafInv(p, Cnt([K EXCEPT ![s] = k]))
         /\ LeafInv(p, Minus1(Plus1(Cnt(K), C), D)) /\ P = {} =>
              LeafInv(p, Cnt([K EXCEPT ![s] = k]))
<1> DEFINE L == [K EXCEPT ![s] = k]
           c == Minus1(Plus1(Cnt(K), C), D)
<1>1. /\ Cnt(L) \in [Blocks -> Nat]
      /\ \A b \in Blocks : Cnt(L)[b] =
           IF b \in Held(k)
             THEN IF b \in Held(K[s]) THEN Cnt(K)[b] ELSE Cnt(K)[b] + 1
             ELSE IF b \in Held(K[s]) THEN Cnt(K)[b] - 1 ELSE Cnt(K)[b]
      /\ \A b \in Blocks : b \in Held(K[s]) => Cnt(K)[b] >= 1
  BY HoldersChange
<1> HIDE DEF L
<1>2. /\ C \subseteq Blocks /\ D \subseteq Blocks /\ D \subseteq Held(K[s])
      /\ C \cap Held(K[s]) \subseteq D /\ P \subseteq C /\ P \cap Held(K[s]) = {}
      /\ \A b \in Blocks : b \in Held(k) <=>
           ((b \in Held(K[s]) /\ b \notin D) \/ b \in C) /\ b \notin P
  BY DEF MountMoves
<1>3. /\ \A b \in Blocks : Plus1(Cnt(K), C)[b] =
           IF b \in C THEN Cnt(K)[b] + 1 ELSE Cnt(K)[b]
      /\ \A b \in Blocks : c[b] =
           IF b \in D THEN Plus1(Cnt(K), C)[b] - 1 ELSE Plus1(Cnt(K), C)[b]
  BY DEF Plus1, Minus1
<1>4. \A b \in Blocks : Cnt(K)[b] \in Nat
  OBVIOUS
<1>5. c = [b \in Blocks |-> c[b]]
  BY DEF Minus1
<1>6. \A b \in D : Plus1(Cnt(K), C)[b] >= 1
  BY <1>1, <1>2, <1>3, <1>4
<1> HIDE DEF c
<1>7. \A b \in P : c[b] >= 1
  BY <1>1, <1>2, <1>3, <1>4
<1>8. Cnt(L) = Minus1(c, P)
  <2>1. \A b \in Blocks : c[b] = IF b \in D
           THEN (IF b \in C THEN Cnt(K)[b] + 1 ELSE Cnt(K)[b]) - 1
           ELSE (IF b \in C THEN Cnt(K)[b] + 1 ELSE Cnt(K)[b])
    BY <1>3
  <2>2. \A b \in Blocks : Cnt(L)[b] = IF b \in P THEN c[b] - 1 ELSE c[b]
    BY <1>1, <1>2, <1>4, <2>1
  <2>3. Minus1(c, P) = [b \in Blocks |-> IF b \in P THEN c[b] - 1 ELSE c[b]]
    BY DEF Minus1
  <2>4. Cnt(L) = [b \in Blocks |-> IF b \in P THEN c[b] - 1 ELSE c[b]]
    BY <1>1, <2>2
  <2> QED
    BY <2>3, <2>4
<1>9. P = {} => Minus1(c, P) = c
  <2>1. Minus1(c, {}) = [b \in Blocks |-> c[b]]
    BY DEF Minus1
  <2> QED
    BY <1>5, <2>1
<1>10. LeafInv(p, c) /\ P = {} => LeafInv(p, Cnt(L))
  BY <1>8, <1>9
<1>11. LeafInv(p, Minus1(c, P)) => LeafInv(p, Cnt(L))
  BY <1>8
<1> QED
  BY <1>6, <1>7, <1>10, <1>11 DEF L, c

\* The tables behind a mount.
LEMMA MountTables ==
  ASSUME NEW p, NEW K, Books(p, K), NEW s \in Seqs, NEW k, k \in KvType,
         NEW q, LeafInv(q, Cnt([K EXCEPT ![s] = k])), q.node = p.node, q.ids = p.ids,
         k.shared <= Len(k.blocks), k.cached >= k.shared,
         \A i \in 1 .. k.shared : Hashable(s, i) /\ k.blocks[i] = p.node[Hash(s, i)],
         \A i \in 1 .. Len(k.blocks) : i > k.shared =>
           /\ i \in 1 .. Len(K[s].blocks) /\ k.blocks[i] = K[s].blocks[i]
           /\ i > k.cached => i > K[s].cached
  PROVE  Books(q, [K EXCEPT ![s] = k])
<1> DEFINE L == [K EXCEPT ![s] = k]
<1>1. /\ L \in [Seqs -> KvType] /\ L[s] = k /\ \A t \in Seqs : t # s => L[t] = K[t]
      /\ \A b \in Blocks : HoldersIn(L, b) =
           IF b \in Held(k) THEN HoldersIn(K, b) \cup {s} ELSE HoldersIn(K, b) \ {s}
  <2>1. K \in [Seqs -> KvType]
    BY DEF Books
  <2> QED
    BY <2>1, HoldersChange
<1>2. LeafInv(q, Cnt(L))
  OBVIOUS
<1> HIDE DEF L
<1>3. /\ k.shared \in Nat /\ k.cached \in Nat /\ Len(k.blocks) \in Nat
      /\ \A i \in 1 .. Len(k.blocks) : k.blocks[i] \in Blocks /\ k.blocks[i] \in Held(k)
  <2>1. k.blocks \in Seq(Blocks) /\ k.shared \in Nat /\ k.cached \in Nat
    BY DEF KvType
  <2> QED
    BY <2>1 DEF Held
<1>4. /\ \A h \in Hashes : p.node[h] # NoBlock => p.node[h] \in p.ids
      /\ \A g, h \in Hashes : p.node[g] = p.node[h] /\ p.node[g] # NoBlock => g = h
      /\ NoBlock \notin Blocks
  BY FiledFacts
<1>5. TableInv(p, K, s)
  BY DEF Books
<1>6. \A i \in 1 .. k.shared : /\ i \in 1 .. Len(k.blocks) /\ Hash(s, i) \in Hashes
                               /\ k.blocks[i] \in p.ids
  <2>1. \A i \in 1 .. k.shared : i \in 1 .. Len(k.blocks) /\ Hash(s, i) \in Hashes
    BY <1>3, HashType
  <2> QED
    BY <1>3, <1>4, <2>1
<1>7. \A i \in 1 .. Len(k.blocks) : k.blocks[i] \in p.ids =>
        Hashable(s, i) /\ p.node[Hash(s, i)] = k.blocks[i]
  <2>1. \A i \in 1 .. Len(K[s].blocks) : K[s].blocks[i] \in p.ids =>
          Hashable(s, i) /\ p.node[Hash(s, i)] = K[s].blocks[i]
    BY <1>5 DEF TableInv, FiledUnderOwnHash
  <2>2. ASSUME NEW i \in 1 .. Len(k.blocks), k.blocks[i] \in p.ids
        PROVE  Hashable(s, i) /\ p.node[Hash(s, i)] = k.blocks[i]
    <3>1. CASE i <= k.shared
      BY <1>3, <3>1
    <3>2. CASE i > k.shared
      BY <2>1, <2>2, <3>2
    <3> QED
      BY <1>3, <3>1, <3>2
  <2> QED
    BY <2>2
<1>8. NoDuplicates(k)
  <2>1. SUFFICES ASSUME NEW i \in 1 .. Len(k.blocks), NEW j \in 1 .. Len(k.blocks),
                        k.blocks[i] = k.blocks[j]
                 PROVE  i = j
    BY DEF NoDuplicates
  <2>2. CASE i > k.shared /\ j > k.shared
    BY <1>5, <2>1, <2>2 DEF TableInv, NoDuplicates
  <2>3. CASE i <= k.shared \/ j <= k.shared
    <3>1. k.blocks[i] \in p.ids /\ k.blocks[j] \in p.ids
      BY <1>3, <1>6, <2>1, <2>3
    <3>2. Hashable(s, i) /\ Hashable(s, j) /\ p.node[Hash(s, i)] = p.node[Hash(s, j)]
          /\ p.node[Hash(s, i)] # NoBlock
      BY <1>3, <1>4, <1>7, <2>1, <3>1
    <3>3. Hash(s, i) = Hash(s, j)
      BY <1>4, <3>2, HashType
    <3> QED
      BY <3>2, <3>3, HashInjective
  <2> QED
    BY <1>3, <2>2, <2>3
<1>9. SharedIsFiled(q, s, k) /\ FiledUnderOwnHash(q, s, k)
  BY <1>7 DEF SharedIsFiled, FiledUnderOwnHash
<1>10. \A b \in Held(k) : b \in p.ids \/ b \in Held(K[s])
  <2>1. \A i \in 1 .. Len(k.blocks) : k.blocks[i] \in p.ids \/ k.blocks[i] \in Held(K[s])
    <3>1. \A i \in 1 .. Len(K[s].blocks) : K[s].blocks[i] \in Held(K[s])
      BY TableFacts
    <3> QED
      BY <1>3, <1>6, <3>1
  <2> QED
    BY <2>1 DEF Held
<1>11. ASSUME NEW t \in Seqs PROVE TableInv(q, L, t)
  <2>1. TableInv(p, K, t)
    BY DEF Books
  <2>2. CASE t = s
    <3>1. Unpublished(q, L, s)
      <4>1. SUFFICES ASSUME NEW i \in 1 .. Len(k.blocks), i > k.cached
                     PROVE  k.blocks[i] \notin p.ids /\ HoldersIn(L, k.blocks[i]) = {s}
        BY <1>1 DEF Unpublished
      <4>2. i > k.shared
        BY <1>3, <4>1
      <4>3. k.blocks[i] \notin p.ids /\ HoldersIn(K, k.blocks[i]) = {s}
        BY <1>5, <4>1, <4>2 DEF TableInv, Unpublished
      <4> QED
        BY <1>1, <1>3, <4>1, <4>3
    <3> QED
      BY <1>1, <1>8, <1>9, <2>2, <3>1 DEF TableInv
  <2>3. CASE t # s
    <3>1. L[t] = K[t]
      BY <1>1, <2>3
    <3>2. NoDuplicates(L[t]) /\ SharedIsFiled(q, t, L[t]) /\ FiledUnderOwnHash(q, t, L[t])
      BY <2>1, <3>1 DEF TableInv, SharedIsFiled, FiledUnderOwnHash
    <3>3. Unpublished(q, L, t)
      <4>1. SUFFICES ASSUME NEW i \in 1 .. Len(K[t].blocks), i > K[t].cached
                     PROVE  /\ K[t].blocks[i] \notin p.ids
                            /\ HoldersIn(L, K[t].blocks[i]) = {t}
        BY <3>1 DEF Unpublished
      <4>2. K[t].blocks[i] \in Blocks
        BY <4>1, TableFacts
      <4>3. K[t].blocks[i] \notin p.ids /\ HoldersIn(K, K[t].blocks[i]) = {t}
        BY <2>1, <4>1 DEF TableInv, Unpublished
      <4>4. K[t].blocks[i] \notin Held(K[s])
        BY <2>3, <4>3 DEF HoldersIn
      <4>5. K[t].blocks[i] \notin Held(k)
        BY <1>10, <4>3, <4>4
      <4> QED
        BY <1>1, <2>3, <4>2, <4>3, <4>5
    <3> QED
      BY <3>2, <3>3 DEF TableInv
  <2> QED
    BY <2>2, <2>3
<1> QED
  BY <1>1, <1>2, <1>11 DEF Books, L

\* What a match returns: m hashable positions, all filed.
LEMMA MatchFacts ==
  ASSUME NEW s \in Seqs, NEW m, Books(pool, kv_state),
         len[s] \in Nat, len[s] <= Len(Text[s]),
         m \in 1 .. num_hash_blocks(len[s]), IsMatch(s, m), m > kv_state[s].shared
  PROVE  /\ m \in Nat /\ kv_state[s].shared <= Len(kv_state[s].blocks)
         /\ \A i \in 1 .. m : /\ Hashable(s, i) /\ Hash(s, i) \in Hashes
                              /\ pool.node[Hash(s, i)] \in Blocks
                              /\ pool.node[Hash(s, i)] \in pool.ids
         /\ \A i \in 1 .. kv_state[s].shared :
              kv_state[s].blocks[i] = pool.node[Hash(s, i)]
         /\ Matched(s, m) = [i \in 1 .. m |-> pool.node[Hash(s, i)]]
         /\ \A i \in 1 .. m, j \in 1 .. Len(kv_state[s].blocks) :
              pool.node[Hash(s, i)] = kv_state[s].blocks[j] => i = j
         /\ \A i, j \in 1 .. m : pool.node[Hash(s, i)] = pool.node[Hash(s, j)] => i = j
         /\ \A i, j \in 1 .. Len(kv_state[s].blocks) :
              kv_state[s].blocks[i] = kv_state[s].blocks[j] => i = j
<1> DEFINE k == kv_state[s]
<1>1. /\ k.shared \in Nat /\ Len(k.blocks) \in Nat
      /\ \A i \in 1 .. Len(k.blocks) : k.blocks[i] \in Blocks
  BY TableFacts
<1>2. TableInv(pool, kv_state, s)
  BY DEF Books
<1>3. k.shared <= Len(k.blocks) /\ \A i \in 1 .. k.shared :
        i \in 1 .. Len(k.blocks) /\ Hashable(s, i) /\ k.blocks[i] = pool.node[Hash(s, i)]
  BY <1>1, <1>2 DEF TableInv, SharedIsFiled
<1>4. num_hash_blocks(len[s]) \in Nat /\ num_hash_blocks(Len(Text[s])) \in Nat
      /\ num_hash_blocks(len[s]) <= num_hash_blocks(Len(Text[s]))
  <2>1. Len(Text[s]) \in Nat
    BY TextAssumption
  <2> QED
    BY <2>1, NumHashBlocks
<1>5. m \in Nat
  BY <1>4
<1>6. \A i \in 1 .. m : Hashable(s, i) /\ Hash(s, i) \in Hashes
  <2>1. \A i \in 1 .. m : Hashable(s, i)
    BY <1>4, <1>5 DEF Hashable
  <2> QED
    BY <2>1, HashType
<1>7. /\ pool.node \in [Hashes -> Blocks \cup {NoBlock}] /\ NoBlock \notin Blocks
      /\ \A h \in Hashes : pool.node[h] # NoBlock => pool.node[h] \in pool.ids
      /\ \A g, h \in Hashes : pool.node[g] = pool.node[h] /\ pool.node[g] # NoBlock => g = h
  BY FiledFacts
<1>8. \A i \in 1 .. m : pool.node[Hash(s, i)] \in Blocks /\ pool.node[Hash(s, i)] \in pool.ids
  <2>1. \A i \in k.shared + 1 .. m : pool.node[Hash(s, i)] # NoBlock
    BY DEF IsMatch
  <2>2. \A i \in 1 .. k.shared : pool.node[Hash(s, i)] # NoBlock
    BY <1>1, <1>3, <1>7
  <2>3. \A i \in 1 .. m : i \in 1 .. k.shared \/ i \in k.shared + 1 .. m
    BY <1>1, <1>5
  <2>4. \A i \in 1 .. m : pool.node[Hash(s, i)] # NoBlock
    BY <2>1, <2>2, <2>3
  <2> HIDE DEF k
  <2> QED
    BY <1>6, <1>7, <2>4
<1>9. Matched(s, m) = [i \in 1 .. m |-> pool.node[Hash(s, i)]]
  <2>1. \A i \in 1 .. m : i <= k.shared => k.blocks[i] = pool.node[Hash(s, i)]
    BY <1>1, <1>3, <1>5
  <2> QED
    BY <2>1 DEF Matched
<1>10. ASSUME NEW i \in 1 .. m, NEW j, Hashable(s, j),
              pool.node[Hash(s, i)] = pool.node[Hash(s, j)]
       PROVE  i = j
  <2>1. Hash(s, i) = Hash(s, j)
    BY <1>6, <1>7, <1>8, <1>10, HashType
  <2> QED
    BY <1>6, <1>10, <2>1, HashInjective
<1>11. ASSUME NEW i \in 1 .. m, NEW j \in 1 .. Len(k.blocks),
              pool.node[Hash(s, i)] = k.blocks[j]
       PROVE  i = j
  <2>1. Hashable(s, j) /\ pool.node[Hash(s, j)] = k.blocks[j]
    BY <1>2, <1>8, <1>11 DEF TableInv, FiledUnderOwnHash
  <2> QED
    BY <1>10, <1>11, <2>1
<1>12. \A i, j \in 1 .. Len(k.blocks) : k.blocks[i] = k.blocks[j] => i = j
  BY <1>2 DEF TableInv, NoDuplicates
<1> QED
  BY <1>3, <1>5, <1>6, <1>8, <1>9, <1>10, <1>11, <1>12

\* allocate_shared_for_sequence() as a whole.
LEMMA MountBooks ==
  ASSUME NEW s \in Seqs, NEW m, Books(pool, kv_state),
         len[s] \in Nat, len[s] <= Len(Text[s]),
         m \in 1 .. num_hash_blocks(len[s]), IsMatch(s, m), m > kv_state[s].shared
  PROVE  Books(SharedPool(s, m),
               [kv_state EXCEPT ![s] = IF m <= Len(kv_state[s].blocks)
                                         THEN ReplacePrefix(s, m)
                                         ELSE MountPrefix(s, m)])
<1> DEFINE B == kv_state[s].blocks
           N == Len(B)
           S == kv_state[s].shared
           v == [i \in 1 .. m |-> pool.node[Hash(s, i)]]
           C == {v[i] : i \in S + 1 .. m}
           D == {B[j] : j \in S + 1 .. SmallerOf(m, N)}
           H == {B[j] : j \in 1 .. N}
           exact == m > N /\ ExactRepeat(s, m)
           P == IF exact THEN {v[m]} ELSE {}
           k == IF m <= N THEN ReplacePrefix(s, m) ELSE MountPrefix(s, m)
           p2 == free(claim(pool, HitHashes(s, m)), D)
           q == SharedPool(s, m)
<1>1. /\ kv_state[s] \in KvType /\ B \in Seq(Blocks) /\ N \in Nat /\ S \in Nat
      /\ kv_state[s].cached \in Nat /\ kv_state[s].kv \in Nat
      /\ \A i \in 1 .. N : B[i] \in Blocks
      /\ H = Held(kv_state[s]) /\ H \subseteq Blocks
      /\ kv_state \in [Seqs -> KvType] /\ Cnt(kv_state) \in [Blocks -> Nat]
      /\ LeafInv(pool, Cnt(kv_state))
  BY TableFacts DEF Books, LeafInv, Held
<1>2. /\ m \in Nat /\ S <= N /\ S < m /\ m >= 1
      /\ \A i \in 1 .. m : /\ Hashable(s, i) /\ Hash(s, i) \in Hashes
                           /\ v[i] = pool.node[Hash(s, i)]
                           /\ v[i] \in Blocks /\ v[i] \in pool.ids
      /\ \A i \in 1 .. S : B[i] = v[i]
      /\ \A i \in 1 .. m, j \in 1 .. N : v[i] = B[j] => i = j
      /\ \A i, j \in 1 .. m : v[i] = v[j] => i = j
      /\ \A i, j \in 1 .. N : B[i] = B[j] => i = j
      /\ Matched(s, m) = v
  <2>1. m \in Nat /\ S <= N /\ Matched(s, m) = v
    BY MatchFacts
  <2>2. S < m /\ m >= 1
    BY <1>1, <2>1
  <2>3. \A i \in 1 .. m : v[i] = pool.node[Hash(s, i)]
    OBVIOUS
  <2>4. \A i \in 1 .. S : i \in 1 .. m
    BY <1>1, <2>1, <2>2
  <2>5. /\ \A i \in 1 .. m : /\ Hashable(s, i) /\ Hash(s, i) \in Hashes
                             /\ pool.node[Hash(s, i)] \in Blocks
                             /\ pool.node[Hash(s, i)] \in pool.ids
        /\ \A i \in 1 .. S : B[i] = pool.node[Hash(s, i)]
        /\ \A i \in 1 .. m, j \in 1 .. N : pool.node[Hash(s, i)] = B[j] => i = j
        /\ \A i, j \in 1 .. m : pool.node[Hash(s, i)] = pool.node[Hash(s, j)] => i = j
        /\ \A i, j \in 1 .. N : B[i] = B[j] => i = j
    BY MatchFacts
  <2> HIDE DEF v, B, N, S
  <2> QED
    BY <2>1, <2>2, <2>3, <2>4, <2>5
<1>3. v \in [1 .. m -> Blocks] /\ v = [i \in 1 .. m |-> v[i]]
  BY <1>2
<1> HIDE DEF v
<1>4. /\ D \subseteq H /\ C \cap H \subseteq D
      /\ m <= N => {IF i <= m THEN v[i] ELSE B[i] : i \in 1 .. N} = (H \ D) \cup C
      /\ m > N => {v[i] : i \in 1 .. m} = (H \ D) \cup C
      /\ m > N => /\ {v[i] : i \in 1 .. m - 1} = ((H \ D) \cup C) \ {v[m]}
                  /\ v[m] \in C /\ v[m] \notin H
  <2> HIDE DEF B, N, S
  <2>1. Mountable(N, m, S, B, v)
    BY <1>1, <1>2 DEF Mountable
  <2>2. MountEffect(N, m, S, B, v)
    BY <2>1, MountSets
  <2> QED
    BY <2>2 DEF MountEffect
<1>5. C \subseteq Blocks /\ C = NodeBlocks(pool, HitHashes(s, m))
      /\ HitHashes(s, m) \subseteq Resident(pool)
  <2>1. \A i \in S + 1 .. m : i \in 1 .. m
    BY <1>1, <1>2
  <2>2. NoBlock \notin Blocks
    BY BlocksAssumption
  <2> HIDE DEF N, B
  <2> QED
    BY <1>2, <2>1, <2>2 DEF NodeBlocks, HitHashes, Resident
<1>6. P \subseteq C /\ P \cap H = {}
  BY <1>4
<1>7. exact \in BOOLEAN /\ (P = IF exact THEN {v[m]} ELSE {})
  OBVIOUS
<1>8. /\ k \in KvType /\ k.shared <= Len(k.blocks) /\ k.cached >= k.shared
      /\ k.shared <= m
      /\ \A i \in 1 .. k.shared : k.blocks[i] = v[i]
      /\ \A i \in 1 .. Len(k.blocks) : i > k.shared =>
           /\ i \in 1 .. N /\ k.blocks[i] = B[i]
           /\ i > k.cached => i > kv_state[s].cached
      /\ \A b : b \in Held(k) <=> ((b \in H /\ b \notin D) \/ b \in C) /\ b \notin P
  <2>1. CASE m <= N
    <3> DEFINE w == [i \in 1 .. N |-> IF i <= m THEN v[i] ELSE B[i]]
               c == LargerOf(kv_state[s].cached, m)
    <3>1. k = [kv_state[s] EXCEPT !.blocks = w, !.shared = m, !.cached = c]
      BY <1>2, <2>1 DEF ReplacePrefix
    <3>2. w \in Seq(Blocks) /\ Len(w) = N
          /\ \A i \in 1 .. N : w[i] = IF i <= m THEN v[i] ELSE B[i]
      <4> HIDE DEF N, B
      <4>1. w \in [1 .. N -> Blocks]
        BY <1>1, <1>2
      <4>2. \A i \in 1 .. N : w[i] = IF i <= m THEN v[i] ELSE B[i]
        OBVIOUS
      <4> HIDE DEF w
      <4>3. w \in Seq(Blocks) /\ Len(w) = N
        BY <1>1, <4>1, FunctionSeq
      <4> QED
        BY <4>2, <4>3
    <3>3. c \in Nat /\ c >= m /\ c >= kv_state[s].cached
      BY <1>1, <1>2 DEF LargerOf
    <3> HIDE DEF w, c
    <3>4. k \in KvType /\ k.blocks = w /\ k.shared = m /\ k.cached = c
      <4>1. kv_state[s] \in KvType /\ m \in Nat /\ w \in Seq(Blocks) /\ c \in Nat
        BY <1>1, <1>2, <3>2, <3>3
      <4> HIDE DEF k
      <4> QED
        BY <3>1, <4>1 DEF KvType
    <3>5. P = {}
      BY <1>1, <1>2, <2>1
    <3> HIDE DEF k, P
    <3>6. \A b : b \in Held(k) <=> b \in {IF i <= m THEN v[i] ELSE B[i] : i \in 1 .. N}
      <4> HIDE DEF N, B
      <4> QED
        BY <3>2, <3>4 DEF Held
    <3> HIDE DEF H, D, C
    <3>7. \A b : b \in Held(k) <=> ((b \in H /\ b \notin D) \/ b \in C) /\ b \notin P
      BY <1>4, <2>1, <3>5, <3>6
    <3> HIDE DEF N, B
    <3>8. /\ m \in Nat /\ N \in Nat /\ kv_state[s].cached \in Nat /\ m <= N
          /\ c \in Nat /\ c >= m /\ c >= kv_state[s].cached
      BY <1>1, <1>2, <2>1, <3>3
    <3>9. \A i \in 1 .. m : i \in 1 .. N /\ w[i] = v[i]
      BY <3>2, <3>8
    <3>10. \A i \in 1 .. N : i > m => w[i] = B[i] /\ (i > c => i > kv_state[s].cached)
      BY <3>2, <3>8
    <3> QED
      BY <3>2, <3>4, <3>7, <3>8, <3>9, <3>10
  <2>2. CASE m > N
    <3> DEFINE n == IF ExactRepeat(s, m) THEN m - 1 ELSE m
               w == [i \in 1 .. n |-> v[i]]
               x == IF ExactRepeat(s, m) THEN ((len[s] - 1) \div BlockSize) * BlockSize
                                         ELSE m * BlockSize
    <3>1. k = [blocks |-> w, shared |-> n, cached |-> n, kv |-> x]
      BY <1>1, <1>2, <2>2 DEF MountPrefix
    <3>2. n \in Nat /\ n <= m /\ (n = m \/ n = m - 1)
      BY <1>2
    <3>3. x \in Nat
      <4>1. m * BlockSize \in Nat
        BY <1>2, BlockSizeAssumption
      <4>2. ExactRepeat(s, m) => len[s] - 1 \in Nat
        <5>1. BlockSize <= m * BlockSize
          BY <1>2, BlockSizeAssumption, MulMono
        <5> QED
          BY <4>1, <5>1, BlockSizeAssumption DEF ExactRepeat
      <4>3. ExactRepeat(s, m) => (len[s] - 1) \div BlockSize \in Nat
        BY <4>2, BlockSizeAssumption, DivMul
      <4>4. ExactRepeat(s, m) => ((len[s] - 1) \div BlockSize) * BlockSize \in Nat
        BY <4>3, BlockSizeAssumption
      <4> QED
        BY <4>1, <4>4
    <3>4. \A i \in 1 .. n : i \in 1 .. m /\ w[i] = v[i]
      <4>1. \A i \in 1 .. n : i \in 1 .. m
        BY <1>2, <3>2
      <4> QED
        BY <4>1
    <3>5. w \in Seq(Blocks) /\ Len(w) = n
      <4>1. w \in [1 .. n -> Blocks]
        BY <1>2, <3>4
      <4> HIDE DEF w, n
      <4> QED
        BY <3>2, <4>1, FunctionSeq
    <3>6. /\ ExactRepeat(s, m) => n = m - 1 /\ P = {v[m]}
          /\ ~ExactRepeat(s, m) => n = m /\ P = {}
      BY <2>2
    <3> HIDE DEF w, x, n
    <3>7. k \in KvType /\ k.blocks = w /\ k.shared = n /\ k.cached = n
      BY <3>1, <3>2, <3>3, <3>5 DEF KvType
    <3> HIDE DEF k, P
    <3>8. \A b : b \in Held(k) <=> b \in {v[i] : i \in 1 .. n}
      BY <3>4, <3>5, <3>7 DEF Held
    <3>9. \A b : b \in Held(k) <=> ((b \in H /\ b \notin D) \/ b \in C) /\ b \notin P
      <4> HIDE DEF H, D, C
      <4>1. CASE ExactRepeat(s, m)
        BY <1>4, <2>2, <3>6, <3>8, <4>1
      <4>2. CASE ~ExactRepeat(s, m)
        BY <1>4, <2>2, <3>6, <3>8, <4>2
      <4> QED
        BY <4>1, <4>2
    <3> HIDE DEF H, D, C, N, B
    <3> QED
      BY <3>2, <3>4, <3>5, <3>7, <3>9
  <2> QED
    BY <1>1, <1>2, <2>1, <2>2
<1>9. P \subseteq C /\ P \cap Held(kv_state[s]) = {} /\ D \subseteq Blocks
      /\ D \subseteq Held(kv_state[s]) /\ C \cap Held(kv_state[s]) \subseteq D
      /\ \A b \in Blocks : b \in Held(k) <=>
           ((b \in Held(kv_state[s]) /\ b \notin D) \/ b \in C) /\ b \notin P
  <2> HIDE DEF k, P, D, C, H
  <2> QED
    BY <1>1, <1>4, <1>6, <1>8
<1> DEFINE L == [kv_state EXCEPT ![s] = k]
           c1 == Plus1(Cnt(kv_state), C)
           c2 == Minus1(c1, D)
<1> HIDE DEF k, P, D, C
<1>10. /\ \A b \in D : c1[b] >= 1
       /\ \A b \in P : c2[b] >= 1
       /\ \A p : LeafInv(p, Minus1(c2, P)) => LeafInv(p, Cnt(L))
       /\ \A p : LeafInv(p, c2) /\ P = {} => LeafInv(p, Cnt(L))
  <2>1. k \in KvType
    BY <1>8
  <2>2. MountMoves(kv_state, s, k, C, D, P)
    BY <1>5, <1>9 DEF MountMoves
  <2>3. kv_state \in [Seqs -> KvType] /\ Cnt(kv_state) \in [Blocks -> Nat]
    BY <1>1
  <2> QED
    BY <2>1, <2>2, <2>3, MountCounts
<1> HIDE DEF L, c1, c2
<1> DEFINE p1 == claim(pool, HitHashes(s, m))
<1>11. LeafInv(p1, c1) /\ p1.node = pool.node /\ p1.ids = pool.ids
  <2>1. LeafInv(p1, c1)
    BY <1>1, <1>5, ClaimLeaf DEF c1
  <2>2. pool \in LeafType
    BY <1>1 DEF LeafInv
  <2> QED
    BY <2>1, <2>2 DEF claim, LeafType
<1>12. LeafInv(p2, c2) /\ p2.node = pool.node /\ p2.ids = pool.ids
  <2>1. p2 = free(p1, D)
    BY DEF D
  <2> HIDE DEF p1, p2
  <2>2. p1 \in LeafType
    BY <1>11 DEF LeafInv
  <2>3. LeafInv(free(p1, D), c2)
    BY <1>9, <1>10, <1>11, FreeLeaf DEF c2
  <2> QED
    BY <1>11, <2>1, <2>2, <2>3, FreeFields
<1>13. q = IF exact THEN free(p2, {v[m]}) ELSE p2
  BY <1>2 DEF SharedPool, D
<1> HIDE DEF p1, p2, q
<1>14. LeafInv(q, Cnt(L)) /\ q.node = pool.node /\ q.ids = pool.ids
  <2>1. CASE exact
    <3>1. P = {v[m]}
      BY <1>7, <2>1
    <3>2. P \subseteq Blocks
      BY <1>5, <1>9
    <3>3. LeafInv(free(p2, P), Minus1(c2, P))
      BY <1>10, <1>12, <3>2, FreeLeaf
    <3>4. p2 \in LeafType
      BY <1>12 DEF LeafInv
    <3>5. q = free(p2, P)
      BY <1>13, <2>1, <3>1
    <3> QED
      BY <1>10, <1>12, <3>3, <3>4, <3>5, FreeFields
  <2>2. CASE ~exact
    <3>1. P = {} /\ q = p2
      BY <1>7, <1>13, <2>2
    <3> QED
      BY <1>10, <1>12, <3>1
  <2> QED
    BY <2>1, <2>2
<1>15. \A i \in 1 .. k.shared : Hashable(s, i) /\ k.blocks[i] = pool.node[Hash(s, i)]
  <2>1. k.shared \in Nat
    BY <1>8 DEF KvType
  <2>2. \A i \in 1 .. k.shared : i \in 1 .. m
    BY <1>2, <1>8, <2>1
  <2> QED
    BY <1>2, <1>8, <2>2
<1>16. Books(q, L)
  BY <1>8, <1>14, <1>15, MountTables DEF L
<1> QED
  BY <1>16 DEF q, L, k

-----------------------------------------------------------------------------
(* The inductive invariant                                                 *)

Bounds ==
  \A s \in Seqs : /\ 1 <= len[s] /\ len[s] <= Len(Text[s]) /\ batch[s] <= len[s]
                  /\ batch[s] > 0 => len[s] < Len(Text[s])

IInv == TypeOK /\ Books(pool, kv_state) /\ Bounds

\* Replacing one entry twice.
LEMMA ExceptTwice ==
  ASSUME NEW K, K \in [Seqs -> KvType], NEW s \in Seqs, NEW a, NEW b
  PROVE  /\ [K EXCEPT ![s] = a][s] = a
         /\ [[K EXCEPT ![s] = a] EXCEPT ![s] = b] = [K EXCEPT ![s] = b]
OBVIOUS

\* What a sequence publishes has a hash, and both publish limits are numbers.
LEMMA PublishLimits ==
  ASSUME IInv, NEW s \in Seqs
  PROVE  /\ FullBlocks(s) \in Nat /\ FullBlocks(s) <= num_hash_blocks(Len(Text[s]))
         /\ \A n \in Nat : /\ InBatchEnd(s, n) \in Nat
                           /\ InBatchEnd(s, n) <= num_hash_blocks(Len(Text[s]))
         /\ \A n \in Nat : Missing(s, n) \in Nat
<1> USE BlockSizeAssumption, LookaheadAssumption
<1>1. /\ len[s] \in Nat /\ len[s] <= Len(Text[s]) /\ Len(Text[s]) \in Nat
      /\ kv_state[s].kv \in Nat /\ Len(kv_state[s].blocks) \in Nat
  BY TableFacts, TextAssumption DEF IInv, TypeOK, Bounds
<1> DEFINE h == num_hash_blocks(len[s])
<1>2. h \in Nat /\ h <= num_hash_blocks(Len(Text[s])) /\ num_hash_blocks(Len(Text[s])) \in Nat
  BY <1>1, NumHashBlocks
<1>3. publishable_tokens(s) \div BlockSize \in Nat /\ publishable_tokens(s) \div BlockSize <= h
  <2> DEFINE a == publishable_tokens(s)
             z == IF len[s] > Lookahead THEN len[s] - Lookahead ELSE 0
  <2>1. a \in Nat /\ z \in Nat /\ a <= z
    BY <1>1 DEF publishable_tokens, SmallerOf
  <2>2. z \div BlockSize = h
    <3>1. CASE len[s] > Lookahead
      BY <1>1, <3>1 DEF num_hash_blocks
    <3>2. CASE len[s] <= Lookahead
      <4>1. (0 \div BlockSize) * BlockSize <= 0 /\ 0 \div BlockSize \in Nat
        BY DivMul
      <4>2. 0 \div BlockSize = 0
        BY <4>1
      <4> QED
        BY <1>1, <3>2, <4>2 DEF num_hash_blocks
    <3> QED
      BY <1>1, <3>1, <3>2
  <2> HIDE DEF a, z, h
  <2>3. a \div BlockSize <= z \div BlockSize /\ a \div BlockSize \in Nat
    BY <2>1, DivMono, DivMul
  <2> QED
    BY <2>2, <2>3 DEF a
<1>4. FullBlocks(s) \in Nat /\ FullBlocks(s) <= h
  BY <1>1, <1>2, <1>3 DEF FullBlocks, SmallerOf
<1>5. ASSUME NEW n \in Nat PROVE InBatchEnd(s, n) \in Nat /\ InBatchEnd(s, n) <= h
  <2> DEFINE z == SmallerOf(n, IF Lookahead = 0 THEN n ELSE kv_state[s].kv)
  <2>1. z \in Nat
    BY <1>1 DEF SmallerOf
  <2>2. InBatchEnd(s, n) = SmallerOf(z \div BlockSize, h)
    BY DEF InBatchEnd
  <2> HIDE DEF z, h
  <2>3. z \div BlockSize \in Nat
    BY <2>1, DivMul
  <2> QED
    BY <1>2, <2>2, <2>3 DEF SmallerOf
<1>6. ASSUME NEW n \in Nat PROVE Missing(s, n) \in Nat
  <2>1. n + BlockSize - 1 \in Nat
    OBVIOUS
  <2>2. CeilDiv(n) \in Nat
    BY <2>1, DivMul DEF CeilDiv
  <2>3. CeilDiv(n) - Len(kv_state[s].blocks) \in Int
    BY <1>1, <2>2
  <2> QED
    BY <2>3 DEF Missing, LargerOf
<1> HIDE DEF h
<1>7. FullBlocks(s) <= num_hash_blocks(Len(Text[s]))
  BY <1>2, <1>4
<1>8. \A n \in Nat : InBatchEnd(s, n) <= num_hash_blocks(Len(Text[s]))
  BY <1>2, <1>5
<1> QED
  BY <1>4, <1>5, <1>6, <1>7, <1>8

\* cache_full_blocks_for_sequence(), the first thing three handlers do.
LEMMA PublishedBooks ==
  ASSUME IInv, NEW s \in Seqs
  PROVE  /\ Books(PublishedPool(s), [kv_state EXCEPT ![s] = PublishedKv(s)])
         /\ kv_state \in [Seqs -> KvType] /\ PublishedKv(s) \in KvType
         /\ PublishedKv(s).blocks = kv_state[s].blocks
<1>1. Books(PublishedPool(s), [kv_state EXCEPT ![s] = PublishedKv(s)])
  <2>1. Books(pool, kv_state)
    BY DEF IInv
  <2> QED
    BY <2>1, PublishLimits, PublishBooks DEF PublishedPool, PublishedKv
<1>2. kv_state \in [Seqs -> KvType]
  BY DEF IInv, Books
<1>3. PublishedKv(s).blocks = kv_state[s].blocks
  BY <1>2 DEF PublishedKv, publish_cursor, KvType
<1>4. [kv_state EXCEPT ![s] = PublishedKv(s)] \in [Seqs -> KvType]
  BY <1>1 DEF Books
<1>5. PublishedKv(s) \in KvType
  BY <1>2, <1>4
<1> QED
  BY <1>1, <1>2, <1>3, <1>5

\* deallocate() as a whole.
LEMMA ReleaseBooks ==
  ASSUME IInv, NEW s \in Seqs
  PROVE  Books(free(PublishedPool(s), Held(kv_state[s])), [kv_state EXCEPT ![s] = EmptyKv])
<1> DEFINE K == [kv_state EXCEPT ![s] = PublishedKv(s)]
<1>1. /\ Books(PublishedPool(s), K) /\ kv_state \in [Seqs -> KvType]
      /\ PublishedKv(s).blocks = kv_state[s].blocks
  BY PublishedBooks
<1>2. K[s] = PublishedKv(s) /\ [K EXCEPT ![s] = EmptyKv] = [kv_state EXCEPT ![s] = EmptyKv]
  BY <1>1
<1> HIDE DEF K
<1>3. Held(K[s]) = Held(kv_state[s])
  BY <1>1, <1>2 DEF Held
<1>4. Books(free(PublishedPool(s), Held(K[s])), [K EXCEPT ![s] = EmptyKv])
  BY <1>1, DropBooks
<1> QED
  BY <1>2, <1>3, <1>4

\* allocate() as a whole, with or without the in-batch publish.
LEMMA AllocateBooks ==
  ASSUME IInv, NEW s \in Seqs, NEW n \in Nat, NEW to \in Nat,
         to <= num_hash_blocks(Len(Text[s])),
         NEW ev, ev \in Victims(PublishedPool(s), Missing(s, n)),
         NEW q, q \in NewBlocks(evict(PublishedPool(s), ev), Missing(s, n)),
         NEW k, k = [PublishedKv(s) EXCEPT !.blocks = @ \o q]
  PROVE  Books(publish_pool(Grow(evict(PublishedPool(s), ev), q), s, k, to),
               [kv_state EXCEPT ![s] = publish_cursor(k, to)])
<1> DEFINE K1 == [kv_state EXCEPT ![s] = PublishedKv(s)]
           p1 == PublishedPool(s)
           p2 == evict(p1, ev)
           p3 == Grow(p2, q)
           K3 == [K1 EXCEPT ![s] = k]
           K4 == [K3 EXCEPT ![s] = publish_cursor(k, to)]
<1>1. Books(p1, K1) /\ kv_state \in [Seqs -> KvType] /\ PublishedKv(s) \in KvType
  BY PublishedBooks
<1>2. K1[s] = PublishedKv(s) /\ K1 \in [Seqs -> KvType]
  BY <1>1
<1> HIDE DEF p1
<1>3. Books(p2, K1)
  <2>1. ev \subseteq Unshared(p1)
    BY DEF Victims, p1
  <2> HIDE DEF K1
  <2> QED
    BY <1>1, <2>1, EvictBooks
<1> HIDE DEF p2
<1>4. Books(p3, K3)
  <2>1. Missing(s, n) \in Nat /\ q \in NewBlocks(p2, Missing(s, n))
    BY PublishLimits DEF p2, p1
  <2>2. k = [K1[s] EXCEPT !.blocks = @ \o q]
    BY <1>2
  <2> HIDE DEF K1
  <2>3. Books(Grow(p2, q), [K1 EXCEPT ![s] = [K1[s] EXCEPT !.blocks = @ \o q]])
    BY <1>3, <2>1, GrowBooks
  <2> QED
    BY <2>2, <2>3
<1> HIDE DEF p3
<1>5. K3[s] = k /\ K3 = [kv_state EXCEPT ![s] = k] /\ K4 = [kv_state EXCEPT ![s] = publish_cursor(k, to)]
  BY <1>1
<1>6. Books(publish_pool(p3, s, k, to), K4)
  <2> HIDE DEF K3
  <2>1. Books(publish_pool(p3, s, K3[s], to), [K3 EXCEPT ![s] = publish_cursor(K3[s], to)])
    BY <1>4, PublishBooks
  <2> QED
    BY <1>5, <2>1
<1> HIDE DEF K3, K4
<1> QED
  BY <1>5, <1>6 DEF p3, p2, p1

\* Every step keeps the books.
LEMMA BooksStep == IInv /\ Next => Books(pool, kv_state)'
<1> SUFFICES ASSUME IInv, Next PROVE Books(pool', kv_state')
  OBVIOUS
<1>1. Books(pool, kv_state) /\ kv_state \in [Seqs -> KvType]
  BY DEF IInv, Books
<1>2. ASSUME NEW s \in Seqs, allocate_shared(s) PROVE Books(pool', kv_state')
  <2>1. PICK m \in 1 .. num_hash_blocks(len[s]) :
          /\ IsMatch(s, m) /\ m > kv_state[s].shared /\ pool' = SharedPool(s, m)
          /\ kv_state' = [kv_state EXCEPT ![s] =
                            IF m <= Len(kv_state[s].blocks)
                              THEN ReplacePrefix(s, m) ELSE MountPrefix(s, m)]
    BY <1>2 DEF allocate_shared
  <2>2. len[s] \in Nat /\ len[s] <= Len(Text[s])
    BY DEF IInv, TypeOK, Bounds
  <2> QED
    BY <1>1, <2>1, <2>2, MountBooks
<1>3. ASSUME NEW s \in Seqs, Allocate(s) PROVE Books(pool', kv_state')
  <2>1. PICK n \in 1 .. len[s], use \in Uses(s) :
          \E ev \in Victims(PublishedPool(s), Missing(s, n)) :
          \E q \in NewBlocks(evict(PublishedPool(s), ev), Missing(s, n)) :
            LET p  == Grow(evict(PublishedPool(s), ev), q)
                k  == [PublishedKv(s) EXCEPT !.blocks = @ \o q]
                to == IF use = "published" THEN InBatchEnd(s, n) ELSE 0
            IN  /\ pool' = publish_pool(p, s, k, to)
                /\ kv_state' = [kv_state EXCEPT ![s] = publish_cursor(k, to)]
    BY <1>3 DEF Allocate
  <2>2. PICK ev \in Victims(PublishedPool(s), Missing(s, n)) :
          \E q \in NewBlocks(evict(PublishedPool(s), ev), Missing(s, n)) :
            LET p  == Grow(evict(PublishedPool(s), ev), q)
                k  == [PublishedKv(s) EXCEPT !.blocks = @ \o q]
                to == IF use = "published" THEN InBatchEnd(s, n) ELSE 0
            IN  /\ pool' = publish_pool(p, s, k, to)
                /\ kv_state' = [kv_state EXCEPT ![s] = publish_cursor(k, to)]
    BY <2>1
  <2>3. PICK q \in NewBlocks(evict(PublishedPool(s), ev), Missing(s, n)) :
            LET p  == Grow(evict(PublishedPool(s), ev), q)
                k  == [PublishedKv(s) EXCEPT !.blocks = @ \o q]
                to == IF use = "published" THEN InBatchEnd(s, n) ELSE 0
            IN  /\ pool' = publish_pool(p, s, k, to)
                /\ kv_state' = [kv_state EXCEPT ![s] = publish_cursor(k, to)]
    BY <2>2
  <2> DEFINE k  == [PublishedKv(s) EXCEPT !.blocks = @ \o q]
             to == IF use = "published" THEN InBatchEnd(s, n) ELSE 0
  <2>4. n \in Nat
    BY DEF IInv, TypeOK
  <2>5. to \in Nat /\ to <= num_hash_blocks(Len(Text[s]))
    <3>1. 0 <= num_hash_blocks(Len(Text[s]))
      BY NumHashBlocks, TextAssumption
    <3> QED
      BY <2>4, <3>1, PublishLimits
  <2>6. k = [PublishedKv(s) EXCEPT !.blocks = @ \o q]
    OBVIOUS
  <2>7. /\ pool' = publish_pool(Grow(evict(PublishedPool(s), ev), q), s, k, to)
        /\ kv_state' = [kv_state EXCEPT ![s] = publish_cursor(k, to)]
    BY <2>3
  <2> HIDE DEF k, to
  <2>8. Books(publish_pool(Grow(evict(PublishedPool(s), ev), q), s, k, to),
              [kv_state EXCEPT ![s] = publish_cursor(k, to)])
    BY <2>4, <2>5, <2>6, AllocateBooks
  <2> QED
    BY <2>7, <2>8
<1>4. ASSUME NEW s \in Seqs, AllocateFails(s) PROVE Books(pool', kv_state')
  <2> DEFINE p1 == PublishedPool(s)
             K1 == [kv_state EXCEPT ![s] = PublishedKv(s)]
             K2 == [kv_state EXCEPT ![s] = EmptyKv]
  <2>1. /\ pool' = evict(p1, Unshared(p1))
        /\ \/ kv_state[s].blocks = <<>> /\ kv_state' = K2
           \/ kv_state[s].blocks # <<>> /\ kv_state' = K1
    BY <1>4 DEF AllocateFails
  <2>2. Books(p1, K1) /\ PublishedKv(s).blocks = kv_state[s].blocks
    BY PublishedBooks
  <2>3. Books(evict(p1, Unshared(p1)), K1)
    <3> HIDE DEF p1, K1
    <3> QED
      BY <2>2, EvictBooks
  <2>4. kv_state[s].blocks = <<>> => Books(evict(p1, Unshared(p1)), K2)
    <3> SUFFICES ASSUME kv_state[s].blocks = <<>>
                 PROVE  Books(evict(p1, Unshared(p1)), K2)
      OBVIOUS
    <3>1. EmptyKv \in KvType /\ EmptyKv.blocks = <<>> /\ EmptyKv.shared = 0
      BY DEF EmptyKv, KvType
    <3>2. K1 \in [Seqs -> KvType]
      BY <2>2 DEF Books
    <3>3. K2 \in [Seqs -> KvType]
      BY <1>1, <3>1
    <3>4. \A t \in Seqs : /\ K2[t].blocks = K1[t].blocks
                          /\ K2[t].shared <= K1[t].shared
                          /\ K2[t].cached >= K1[t].cached \/ K1[t].blocks = <<>>
      <4>1. ASSUME NEW t \in Seqs, t # s PROVE K2[t] = K1[t] /\ K1[t] \in KvType
        BY <1>1, <3>2, <4>1
      <4>2. K2[s] = EmptyKv /\ K1[s] = PublishedKv(s) /\ K1[s] \in KvType
        BY <1>1, <3>2
      <4> HIDE DEF K1, K2
      <4>3. ASSUME NEW t \in Seqs, t # s
            PROVE  /\ K2[t].blocks = K1[t].blocks /\ K2[t].shared <= K1[t].shared
                   /\ K2[t].cached >= K1[t].cached
        BY <4>1, <4>3 DEF KvType
      <4>4. K2[s].blocks = K1[s].blocks /\ K2[s].shared <= K1[s].shared /\ K1[s].blocks = <<>>
        BY <2>2, <3>1, <4>2 DEF KvType
      <4> QED
        BY <4>3, <4>4
    <3> HIDE DEF p1, K1, K2
    <3> QED
      BY <2>3, <3>3, <3>4, SameBlocksBooks
  <2> QED
    BY <2>1, <2>3, <2>4
<1>5. ASSUME NEW s \in Seqs, Cache(s) PROVE Books(pool', kv_state')
  BY <1>5, PublishedBooks DEF Cache
<1>6. ASSUME NEW s \in Seqs, Preempt(s) \/ Finish(s) PROVE Books(pool', kv_state')
  <2>1. Release(s)
    BY <1>6 DEF Preempt, Finish
  <2> QED
    BY <2>1, ReleaseBooks DEF Release
<1>7. ASSUME Forward PROVE Books(pool', kv_state')
  <2>1. pool' = pool
        /\ kv_state' = [s \in Seqs |-> [kv_state[s] EXCEPT !.kv = LargerOf(@, batch[s])]]
    BY <1>7 DEF Forward
  <2>2. ASSUME NEW t \in Seqs
        PROVE  /\ kv_state'[t] \in KvType /\ kv_state'[t].blocks = kv_state[t].blocks
               /\ kv_state'[t].shared <= kv_state[t].shared
               /\ kv_state'[t].cached >= kv_state[t].cached
    <3>1. kv_state'[t] = [kv_state[t] EXCEPT !.kv = LargerOf(@, batch[t])]
      BY <2>1
    <3>2. kv_state[t] \in KvType /\ batch[t] \in Nat
      BY <1>1 DEF IInv, TypeOK
    <3>3. LargerOf(kv_state[t].kv, batch[t]) \in Nat
      BY <3>2 DEF LargerOf, KvType
    <3> QED
      BY <3>1, <3>2, <3>3 DEF KvType
  <2>3. kv_state' \in [Seqs -> KvType]
    BY <2>1, <2>2
  <2>4. Books(pool, kv_state')
    BY <1>1, <2>2, <2>3, SameBlocksBooks
  <2> QED
    BY <2>1, <2>4
<1>8. ASSUME ResetPrefixCache PROVE Books(pool', kv_state')
  <2>1. pool' = evict(pool, Unshared(pool)) /\ kv_state' = kv_state
    BY <1>8 DEF ResetPrefixCache
  <2>2. Books(evict(pool, Unshared(pool)), kv_state)
    BY <1>1, EvictBooks
  <2> QED
    BY <2>1, <2>2
<1> QED
  BY <1>2, <1>3, <1>4, <1>5, <1>6, <1>7, <1>8 DEF Next

\* The KV a sequence writes is a sequence of tokens of its text.
LEMMA KvOfType ==
  ASSUME NEW s \in Seqs, NEW k \in Nat, k < Len(Text[s])
  PROVE  KvOf(s, k) \in Seq(Nat)
<1>1. Text[s] \in Seq(Nat) /\ Len(Text[s]) \in Nat /\ k + Lookahead \in Nat
      /\ k + Lookahead <= Len(Text[s])
  BY TextAssumption, LookaheadAssumption
<1>2. \A i \in 1 .. k + Lookahead : Text[s][i] \in Nat
  BY <1>1
<1> QED
  BY <1>1, <1>2, SubSeqProperties DEF KvOf

\* A forward pass leaves token sequences in every slot.
LEMMA ExecutedType ==
  ASSUME IInv PROVE Executed \in [Blocks -> [1 .. BlockSize -> Seq(Nat)]]
<1>1. SUFFICES ASSUME NEW b \in Blocks, NEW j \in 1 .. BlockSize
               PROVE  LET V == SlotValues(b, j)
                      IN  (IF V = {} THEN data[b][j]
                           ELSE IF \E v \in V : V = {v} THEN CHOOSE v \in V : TRUE
                           ELSE <<>>) \in Seq(Nat)
  BY DEF Executed
<1>2. data[b][j] \in Seq(Nat)
  BY DEF IInv, TypeOK
<1>3. SlotValues(b, j) \subseteq Seq(Nat)
  <2>1. ASSUME NEW v \in SlotValues(b, j) PROVE v \in Seq(Nat)
    <3>1. PICK s \in Seqs : \E k \in Writes(s) : v = KvOf(s, k)
      BY <2>1 DEF SlotValues
    <3>2. PICK k \in Writes(s) : v = KvOf(s, k)
      BY <3>1
    <3>3. /\ kv_state[s].kv \in Nat /\ batch[s] \in Nat /\ len[s] \in Nat
          /\ batch[s] <= len[s] /\ (batch[s] > 0 => len[s] < Len(Text[s]))
          /\ Len(Text[s]) \in Nat
      BY TableFacts, TextAssumption DEF IInv, TypeOK, Bounds
    <3>4. k \in Nat /\ k < Len(Text[s])
      BY <3>2, <3>3 DEF Writes
    <3> QED
      BY <3>2, <3>4, KvOfType
  <2> QED
    BY <2>1
<1>4. \A V : (\E v \in V : V = {v}) => (CHOOSE v \in V : TRUE) \in V
  OBVIOUS
<1>5. <<>> \in Seq(Nat)
  OBVIOUS
<1> QED
  BY <1>2, <1>3, <1>4, <1>5

\* The other variables keep their types and bounds.
LEMMA RestStep ==
  IInv /\ Next =>
    /\ len' \in [Seqs -> Nat] /\ prompt' \in [Seqs -> Nat] /\ batch' \in [Seqs -> Nat]
    /\ data' \in [Blocks -> [1 .. BlockSize -> Seq(Nat)]]
    /\ Bounds'
<1> SUFFICES ASSUME IInv, Next
             PROVE  /\ len' \in [Seqs -> Nat] /\ prompt' \in [Seqs -> Nat]
                    /\ batch' \in [Seqs -> Nat]
                    /\ data' \in [Blocks -> [1 .. BlockSize -> Seq(Nat)]]
                    /\ Bounds'
  OBVIOUS
<1>1. /\ len \in [Seqs -> Nat] /\ prompt \in [Seqs -> Nat] /\ batch \in [Seqs -> Nat]
      /\ data \in [Blocks -> [1 .. BlockSize -> Seq(Nat)]]
      /\ \A s \in Seqs : /\ 1 <= len[s] /\ len[s] <= Len(Text[s])
                         /\ batch[s] <= len[s]
                         /\ batch[s] > 0 => len[s] < Len(Text[s])
      /\ \A s \in Seqs : /\ Len(Text[s]) \in Nat /\ PromptLen[s] \in Nat
                         /\ 1 <= PromptLen[s] /\ PromptLen[s] < Len(Text[s])
  <2>1. ASSUME NEW s \in Seqs
        PROVE  /\ Len(Text[s]) \in Nat /\ PromptLen[s] \in Nat
               /\ 1 <= PromptLen[s] /\ PromptLen[s] < Len(Text[s])
    <3>1. Text[s] \in Seq(Nat) /\ PromptLen[s] \in 1 .. Len(Text[s]) - 1
      BY TextAssumption
    <3>2. Len(Text[s]) \in Nat
      BY <3>1
    <3> QED
      BY <3>1, <3>2
  <2> QED
    BY <2>1 DEF IInv, TypeOK, Bounds
<1>2. ASSUME NEW s \in Seqs, allocate_shared(s) \/ Cache(s) \/ ResetPrefixCache
      PROVE  UNCHANGED <<len, prompt, batch, data>>
  BY <1>2 DEF allocate_shared, Cache, ResetPrefixCache
<1>3. ASSUME NEW s \in Seqs, Allocate(s)
      PROVE  /\ UNCHANGED <<len, prompt, data>>
             /\ \E n \in 0 .. len[s] : /\ batch' = [batch EXCEPT ![s] = n]
                                       /\ len[s] < Len(Text[s])
  <2>1. PICK n \in 1 .. len[s] : \E use \in Uses(s) :
          /\ len[s] < Len(Text[s]) /\ UNCHANGED <<len, prompt, data>>
          /\ batch' = [batch EXCEPT ![s] = IF use = "idle" THEN 0 ELSE n]
    BY <1>3 DEF Allocate, CanAllocate
  <2>2. n \in 0 .. len[s] /\ 0 \in 0 .. len[s]
    BY <1>1
  <2> QED
    BY <2>1, <2>2
<1>4. ASSUME NEW s \in Seqs, AllocateFails(s) \/ Preempt(s)
      PROVE  /\ UNCHANGED <<len, batch, data>>
             /\ prompt' = prompt \/ prompt' = [prompt EXCEPT ![s] = len[s]]
  BY <1>4 DEF AllocateFails, Preempt
<1>5. ASSUME NEW s \in Seqs, Finish(s)
      PROVE  /\ UNCHANGED <<batch, data>> /\ batch[s] = 0
             /\ len' = [len EXCEPT ![s] = PromptLen[s]]
             /\ prompt' = [prompt EXCEPT ![s] = PromptLen[s]]
  BY <1>5 DEF Finish
<1>6. ASSUME Forward
      PROVE  /\ data' = Executed /\ prompt' = prompt
             /\ len' = [s \in Seqs |-> IF batch[s] = len[s] THEN len[s] + 1 ELSE len[s]]
             /\ batch' = [s \in Seqs |-> 0]
  BY <1>6 DEF Forward
<1>7. CASE \E s \in Seqs : allocate_shared(s) \/ Cache(s)
  BY <1>1, <1>2, <1>7 DEF Bounds
<1>8. CASE ResetPrefixCache
  BY <1>1, <1>8 DEF Bounds, ResetPrefixCache
<1>9. CASE \E s \in Seqs : Allocate(s)
  <2>1. PICK s \in Seqs : Allocate(s)
    BY <1>9
  <2>2. PICK n \in 0 .. len[s] : batch' = [batch EXCEPT ![s] = n] /\ len[s] < Len(Text[s])
    BY <1>3, <2>1
  <2>3. UNCHANGED <<len, prompt, data>>
    BY <1>3, <2>1
  <2>4. n \in Nat /\ n <= len[s]
    BY <1>1
  <2> QED
    BY <1>1, <2>2, <2>3, <2>4 DEF Bounds
<1>10. CASE \E s \in Seqs : AllocateFails(s) \/ Preempt(s)
  BY <1>1, <1>4, <1>10 DEF Bounds
<1>11. CASE \E s \in Seqs : Finish(s)
  <2>1. PICK s \in Seqs : Finish(s)
    BY <1>11
  <2>2. /\ UNCHANGED <<batch, data>> /\ batch[s] = 0
        /\ len' = [len EXCEPT ![s] = PromptLen[s]]
        /\ prompt' = [prompt EXCEPT ![s] = PromptLen[s]]
    BY <1>5, <2>1
  <2> QED
    BY <1>1, <2>2 DEF Bounds
<1>12. CASE Forward
  <2>1. /\ data' = Executed /\ prompt' = prompt
        /\ len' = [s \in Seqs |-> IF batch[s] = len[s] THEN len[s] + 1 ELSE len[s]]
        /\ batch' = [s \in Seqs |-> 0]
    BY <1>6, <1>12
  <2>2. len' \in [Seqs -> Nat] /\ batch' \in [Seqs -> Nat] /\ prompt' \in [Seqs -> Nat]
    BY <1>1, <2>1
  <2>3. ASSUME NEW s \in Seqs
        PROVE  /\ 1 <= len'[s] /\ len'[s] <= Len(Text[s]) /\ batch'[s] = 0
    <3>1. /\ len'[s] = (IF batch[s] = len[s] THEN len[s] + 1 ELSE len[s])
          /\ batch'[s] = 0
      BY <2>1
    <3>2. /\ len[s] \in Nat /\ batch[s] \in Nat /\ Len(Text[s]) \in Nat
          /\ 1 <= len[s] /\ len[s] <= Len(Text[s])
          /\ batch[s] > 0 => len[s] < Len(Text[s])
      BY <1>1
    <3> QED
      BY <3>1, <3>2
  <2>4. Bounds'
    BY <2>2, <2>3 DEF Bounds
  <2> QED
    BY <2>1, <2>2, <2>4, ExecutedType
<1> QED
  BY <1>7, <1>8, <1>9, <1>10, <1>11, <1>12 DEF Next

\* The invariant holds initially.
LEMMA InitInv == Init => IInv
<1> SUFFICES ASSUME Init PROVE IInv
  OBVIOUS
<1>1. EmptyKv \in KvType /\ EmptyKv.blocks = <<>> /\ EmptyKv.shared = 0
      /\ Len(EmptyKv.blocks) = 0 /\ Held(EmptyKv) = {}
  <2>1. EmptyKv \in KvType /\ EmptyKv.blocks = <<>> /\ EmptyKv.shared = 0
    BY DEF EmptyKv, KvType
  <2> QED
    BY <2>1 DEF Held
<1>2. /\ pool = NewLeaf /\ kv_state \in [Seqs -> KvType]
      /\ \A s \in Seqs : kv_state[s] = EmptyKv
  BY <1>1 DEF Init
<1>3. Cnt(kv_state) = [b \in Blocks |-> 0]
  <2>1. \A b \in Blocks : HoldersIn(kv_state, b) = {}
    BY <1>1, <1>2 DEF HoldersIn
  <2> QED
    BY <2>1, FS_EmptySet DEF Cnt
<1>4. \A s \in Seqs : TableInv(pool, kv_state, s)
  BY <1>1, <1>2 DEF TableInv, NoDuplicates, SharedIsFiled, FiledUnderOwnHash, Unpublished
<1>5. Books(pool, kv_state)
  BY <1>2, <1>3, <1>4, NewLeafInv DEF Books
<1>6. pool \in LeafType
  BY <1>5 DEF Books, LeafInv
<1>7. \A s \in Seqs : /\ PromptLen[s] \in Nat /\ PromptLen[s] >= 1
                      /\ PromptLen[s] <= Len(Text[s])
  BY TextAssumption
<1>8. len \in [Seqs -> Nat] /\ prompt \in [Seqs -> Nat] /\ batch \in [Seqs -> Nat]
  BY <1>7 DEF Init
<1>9. data \in [Blocks -> [1 .. BlockSize -> Seq(Nat)]]
  BY DEF Init
<1>10. Bounds
  BY <1>7 DEF Init, Bounds
<1> QED
  BY <1>2, <1>5, <1>6, <1>8, <1>9, <1>10 DEF IInv, TypeOK, KvType

\* A step keeps it.
LEMMA NextInv == IInv /\ [Next]_vars => IInv'
<1> SUFFICES ASSUME IInv, [Next]_vars PROVE IInv'
  OBVIOUS
<1>1. CASE Next
  <2>1. Books(pool', kv_state')
    BY <1>1, BooksStep
  <2>2. pool' \in LeafType /\ kv_state' \in [Seqs -> KvType]
    BY <2>1 DEF Books, LeafInv
  <2>3. /\ len' \in [Seqs -> Nat] /\ prompt' \in [Seqs -> Nat] /\ batch' \in [Seqs -> Nat]
        /\ data' \in [Blocks -> [1 .. BlockSize -> Seq(Nat)]]
        /\ Bounds'
    BY <1>1, RestStep
  <2> QED
    BY <2>1, <2>2, <2>3 DEF IInv, TypeOK, KvType
<1>2. CASE UNCHANGED vars
  BY <1>2 DEF vars, IInv, TypeOK, Bounds
<1> QED
  BY <1>1, <1>2

-----------------------------------------------------------------------------
(* The theorems                                                            *)

\* The inductive invariant holds in every reachable state.
THEOREM Invariance == Spec => []IInv
BY InitInv, NextInv, PTL DEF Spec

\* Every variable keeps its type; in particular no reference counter and no
\* size_t of the leaf ever goes below zero.
THEOREM TypeCorrectness == Spec => []TypeOK
<1>1. IInv => TypeOK
  BY DEF IInv
<1> QED
  BY <1>1, Invariance, PTL

\* No CHECK of BlockManagerImpl or PrefixCache can fire, for any number of
\* sequences, any pool size, any block size and any texts.
THEOREM NoCheckEverFails == Spec => []NoCheckFails
<1>1. IInv => NoCheckFails
  BY DEF IInv, Books, LeafInv, NoCheckFails
<1> QED
  BY <1>1, Invariance, PTL

\* Reference counting is exact: no leak, no early free, one node per block.
THEOREM RefCountsExact == Spec => []RefExact
<1>1. ASSUME IInv PROVE RefExact
  <2>1. LeafInv(pool, Cnt(kv_state))
    BY <1>1 DEF IInv, Books
  <2>2. \A b \in Blocks : Cnt(kv_state)[b] = Cardinality(Holders(b))
    BY DEF Cnt, HoldersIn, Holders
  <2>3. \A b \in Blocks : pool.ref[b] = Cardinality(Holders(b)) + NodeAlias(pool, b)
    BY <2>1, <2>2 DEF LeafInv, NodeAlias
  <2>4. pool.free = {b \in Blocks : pool.ref[b] = 0} /\ pool.used = Blocks \ pool.free
    BY <2>1 DEF LeafInv
  <2>5. pool.ids = {b \in Blocks : \E h \in Hashes : pool.node[h] = b}
        /\ \A g, h \in Hashes : pool.node[g] = pool.node[h] /\ pool.node[g] # NoBlock => g = h
        /\ pool.node \in [Hashes -> Blocks \cup {NoBlock}]
    BY <2>1 DEF LeafInv, FiledOnce, LeafType
  <2>6. pool.ids = NodeBlocks(pool, Resident(pool))
    BY <2>5, BlocksAssumption DEF NodeBlocks, Resident
  <2>7. \A g, h \in Resident(pool) : pool.node[g] = pool.node[h] => g = h
    BY <2>5 DEF Resident
  <2> QED
    BY <2>3, <2>4, <2>6, <2>7 DEF RefExact
<1> QED
  BY <1>1, Invariance, PTL

\* num_evictable_ is the number of nodes eviction can take.
THEOREM EvictableCountExact == Spec => []EvictableExact
<1>1. IInv => EvictableExact
  BY DEF IInv, Books, LeafInv, EvictableExact
<1> QED
  BY <1>1, Invariance, PTL

\* A block that is not published belongs to one sequence.
THEOREM UnpublishedBlocksPrivate == Spec => []UnpublishedIsPrivate
<1>1. ASSUME IInv PROVE UnpublishedIsPrivate
  <2>1. SUFFICES ASSUME NEW s \in Seqs,
                        NEW b \in HeldFrom(kv_state[s], kv_state[s].cached + 1)
                 PROVE  b \notin pool.ids /\ Holders(b) = {s}
    BY DEF UnpublishedIsPrivate
  <2>2. Books(pool, kv_state)
    BY <1>1 DEF IInv
  <2>3. kv_state[s].cached \in Nat /\ Len(kv_state[s].blocks) \in Nat
    BY <2>2, TableFacts
  <2>4. PICK i \in kv_state[s].cached + 1 .. Len(kv_state[s].blocks) :
          b = kv_state[s].blocks[i]
    BY <2>1 DEF HeldFrom
  <2>5. i \in 1 .. Len(kv_state[s].blocks) /\ i > kv_state[s].cached
    BY <2>3, <2>4
  <2>6. b \notin pool.ids /\ HoldersIn(kv_state, b) = {s}
    BY <2>2, <2>4, <2>5 DEF Books, TableInv, Unpublished
  <2> QED
    BY <2>6 DEF Holders, HoldersIn
<1> QED
  BY <1>1, Invariance, PTL

-----------------------------------------------------------------------------
(* A prefix in use stays in the cache                                      *)

\* A value with the fields of a leaf.
LeafFields(p) ==
  DOMAIN p = {"free", "used", "ref", "node", "ids", "evictable", "ok"}

\* What each operation does to the set of filed blocks.
LEMMA IdsOf ==
  ASSUME NEW p, LeafFields(p), NEW B
  PROVE  /\ free(p, B).ids = p.ids /\ LeafFields(free(p, B))
         /\ claim(p, B).ids = p.ids /\ LeafFields(claim(p, B))
         /\ allocate(p, B).ids = p.ids /\ LeafFields(allocate(p, B))
         /\ evict(p, B).ids = p.ids \ B /\ LeafFields(evict(p, B))
         /\ p.ids \subseteq insert(p, B).ids
<1>1. ASSUME NEW r, LeafFields(r) PROVE free(r, B).ids = r.ids /\ LeafFields(free(r, B))
  BY <1>1 DEF free, LeafFields
<1>2. claim(p, B).ids = p.ids /\ LeafFields(claim(p, B))
  BY DEF claim, LeafFields
<1>3. allocate(p, B).ids = p.ids /\ LeafFields(allocate(p, B))
  BY DEF allocate, LeafFields
<1>4. evict(p, B).ids = p.ids \ B /\ LeafFields(evict(p, B))
  <2> DEFINE r == [p EXCEPT !.node = [h \in Hashes |->
                               IF p.node[h] \in B THEN NoBlock ELSE p.node[h]],
                            !.ids  = @ \ B,
                            !.evictable = release_evictable_slot(@, Cardinality(B))]
  <2>1. LeafFields(r) /\ r.ids = p.ids \ B
    BY DEF LeafFields
  <2>2. evict(p, B) = free(r, B)
    BY DEF evict
  <2> HIDE DEF r
  <2> QED
    BY <1>1, <2>1, <2>2
<1>5. p.ids \subseteq insert(p, B).ids
  BY DEF insert, LeafFields
<1> QED
  BY <1>1, <1>2, <1>3, <1>4, <1>5

\* A leaf has them.
LEMMA LeafHasFields == ASSUME NEW p, p \in LeafType PROVE LeafFields(p)
BY DEF LeafType, LeafFields

\* A step never unfiles a block that some table holds when the step is taken.
LEMMA HeldStaysFiled ==
  ASSUME IInv, Next, NEW s \in Seqs, NEW b, b \in Held(kv_state[s]), b \in pool.ids
  PROVE  b \in pool'.ids
<1>1. Books(pool, kv_state) /\ pool \in LeafType
  BY DEF IInv, Books, LeafInv
<1>2. ASSUME NEW t \in Seqs
      PROVE  /\ PublishedPool(t) \in LeafType /\ b \in PublishedPool(t).ids
             /\ b \notin Unshared(PublishedPool(t))
  <2> DEFINE K == [kv_state EXCEPT ![t] = PublishedKv(t)]
  <2>1. /\ Books(PublishedPool(t), K) /\ kv_state \in [Seqs -> KvType]
        /\ PublishedKv(t).blocks = kv_state[t].blocks
    BY PublishedBooks
  <2>2. K[s].blocks = kv_state[s].blocks
    BY <2>1
  <2> HIDE DEF K
  <2>3. b \in Held(K[s])
    BY <2>2 DEF Held
  <2>4. b \notin Unshared(PublishedPool(t))
    BY <2>1, <2>3, HeldCounted
  <2>5. PublishedPool(t) \in LeafType
    BY <2>1 DEF Books, LeafInv
  <2>6. b \in PublishedPool(t).ids
    BY <1>1, IdsOf, LeafHasFields DEF PublishedPool, publish_pool
  <2> QED
    BY <2>4, <2>5, <2>6
<1>3. \A B : B \subseteq Unshared(pool) => b \notin B
  BY <1>1, HeldCounted
<1>4. ASSUME NEW t \in Seqs, allocate_shared(t) PROVE b \in pool'.ids
  <2>1. PICK m : /\ pool' = SharedPool(t, m) /\ m \in 1 .. num_hash_blocks(len[t])
                 /\ IsMatch(t, m) /\ m > kv_state[t].shared
    BY <1>4 DEF allocate_shared
  <2> DEFINE p1 == claim(pool, HitHashes(t, m))
             D == {kv_state[t].blocks[j] : j \in kv_state[t].shared + 1 ..
                                              SmallerOf(m, Len(kv_state[t].blocks))}
             p2 == free(p1, D)
  <2>2. pool' = p2 \/ pool' = free(p2, {Matched(t, m)[m]})
    BY <2>1 DEF SharedPool
  <2> HIDE DEF D
  <2>3. p2.ids = pool.ids /\ free(p2, {Matched(t, m)[m]}).ids = pool.ids
    <3>1. p1.ids = pool.ids /\ LeafFields(p1)
      BY <1>1, IdsOf, LeafHasFields
    <3> HIDE DEF p1
    <3>2. p2.ids = pool.ids /\ LeafFields(p2)
      BY <3>1, IdsOf
    <3> HIDE DEF p2
    <3> QED
      BY <3>2, IdsOf
  <2> HIDE DEF p2
  <2> QED
    BY <2>2, <2>3
<1>5. ASSUME NEW t \in Seqs, Allocate(t) PROVE b \in pool'.ids
  <2> DEFINE p1 == PublishedPool(t)
  <2>1. PICK ev, q, k, to :
          /\ ev \subseteq Unshared(p1)
          /\ pool' = publish_pool(Grow(evict(p1, ev), q), t, k, to)
    BY <1>5 DEF Allocate, Victims
  <2>2. b \in p1.ids /\ b \notin ev /\ LeafFields(p1)
    BY <1>2, <2>1, LeafHasFields
  <2> HIDE DEF p1
  <2> DEFINE p2 == evict(p1, ev)
             p3 == Grow(p2, q)
  <2>3. b \in p2.ids /\ LeafFields(p2)
    BY <2>2, IdsOf
  <2> HIDE DEF p2
  <2>4. b \in p3.ids /\ LeafFields(p3)
    BY <2>3, IdsOf DEF Grow
  <2> HIDE DEF p3
  <2>5. p3.ids \subseteq publish_pool(p3, t, k, to).ids
    BY <2>4, IdsOf DEF publish_pool
  <2> QED
    BY <2>1, <2>4, <2>5 DEF p3, p2
<1>6. ASSUME NEW t \in Seqs, AllocateFails(t) PROVE b \in pool'.ids
  <2>1. pool' = evict(PublishedPool(t), Unshared(PublishedPool(t)))
    BY <1>6 DEF AllocateFails
  <2> QED
    BY <1>2, <2>1, IdsOf, LeafHasFields
<1>7. ASSUME NEW t \in Seqs, Cache(t) PROVE b \in pool'.ids
  BY <1>2, <1>7 DEF Cache
<1>8. ASSUME NEW t \in Seqs, Preempt(t) \/ Finish(t) PROVE b \in pool'.ids
  <2>1. pool' = free(PublishedPool(t), Held(kv_state[t]))
    BY <1>8 DEF Preempt, Finish, Release
  <2> QED
    BY <1>2, <2>1, IdsOf, LeafHasFields
<1>9. ASSUME Forward PROVE b \in pool'.ids
  BY <1>9 DEF Forward
<1>10. ASSUME ResetPrefixCache PROVE b \in pool'.ids
  <2>1. pool' = evict(pool, Unshared(pool))
    BY <1>10 DEF ResetPrefixCache
  <2> QED
    BY <1>1, <1>3, <2>1, IdsOf, LeafHasFields
<1> QED
  BY <1>4, <1>5, <1>6, <1>7, <1>8, <1>9, <1>10 DEF Next

\* No eviction, whoever causes it, takes a cached block out from under a table
\* that holds it.
THEOREM SharedPrefixNeverEvicted == Spec => SharedPrefixStays
<1> DEFINE A == \A s \in Seqs : \A b \in Held(kv_state[s]) :
                  b \in pool.ids => b \in pool'.ids
<1>1. IInv /\ [Next]_vars => [A]_vars
  BY HeldStaysFiled DEF vars
<1> QED
  BY <1>1, Invariance, PTL DEF Spec, SharedPrefixStays

-----------------------------------------------------------------------------
(* The KV in the blocks                                                    *)

\* A block two sequences have in their tables is filed.
SharedOnlyIfFiled(p, K) ==
  \A s, t \in Seqs : s # t =>
    \A b \in Held(K[s]) : b \in Held(K[t]) => b \in p.ids

\* The slot holds v, or a sequence of the batch is to write v to it.
Has(b, j, v) == data[b][j] = v \/ v \in SlotValues(b, j)

\* Position x of s has a slot, and its KV is there or about to be.
CachedHas(s, x) ==
  /\ BlockOf(x) <= Len(kv_state[s].blocks)
  /\ Has(kv_state[s].blocks[BlockOf(x)], SlotOf(x), KvOf(s, x))

FiledHas(s, i) ==
  pool.node[Hash(s, i)] # NoBlock =>
    \A j \in 1 .. BlockSize :
      Has(pool.node[Hash(s, i)], j, KvOf(s, (i - 1) * BlockSize + j))

ContentInv ==
  /\ SharedOnlyIfFiled(pool, kv_state)
  /\ \A s \in Seqs : /\ \A x \in 1 .. batch[s] : BlockOf(x) <= Len(kv_state[s].blocks)
                     /\ \A x \in 1 .. kv_state[s].kv : CachedHas(s, x)
                     /\ \A i : Hashable(s, i) => FiledHas(s, i)

\* A position is a slot of a block.
LEMMA Position ==
  ASSUME NEW x \in Nat \ {0}
  PROVE  /\ BlockOf(x) \in Nat \ {0} /\ SlotOf(x) \in 1 .. BlockSize
         /\ (BlockOf(x) - 1) * BlockSize \in Nat
         /\ x = (BlockOf(x) - 1) * BlockSize + SlotOf(x)
<1> DEFINE a == x - 1
           d == a \div BlockSize
           r == a % BlockSize
<1>1. a \in Nat /\ BlockSize \in Nat \ {0}
  BY BlockSizeAssumption
<1>2. d \in Nat /\ d * BlockSize \in Nat /\ r \in 0 .. BlockSize - 1 /\ a = d * BlockSize + r
  BY <1>1
<1>3. BlockOf(x) = d + 1 /\ SlotOf(x) = r + 1
  BY DEF BlockOf, SlotOf
<1> HIDE DEF d, r
<1>4. BlockOf(x) - 1 = d
  BY <1>2, <1>3
<1> QED BY <1>1, <1>2, <1>3, <1>4

\* ... and every slot of a block is a position.
LEMMA SlotPosition ==
  ASSUME NEW i \in Nat \ {0}, NEW j \in 1 .. BlockSize
  PROVE  LET x == (i - 1) * BlockSize + j
         IN  /\ x \in Nat \ {0} /\ BlockOf(x) = i /\ SlotOf(x) = j
             /\ i * BlockSize \in Nat /\ x <= i * BlockSize
<1> DEFINE e == i - 1
           x == e * BlockSize + j
<1>1. BlockSize \in Nat \ {0} /\ e \in Nat /\ j \in Nat /\ j >= 1 /\ j <= BlockSize
  BY BlockSizeAssumption
<1>2. e * BlockSize \in Nat /\ i * BlockSize = e * BlockSize + BlockSize
  BY <1>1
<1>3. x \in Nat \ {0} /\ x <= i * BlockSize /\ i * BlockSize \in Nat
  BY <1>1, <1>2
<1>4. (x - 1) \div BlockSize = e /\ (x - 1) % BlockSize = j - 1
  <2>1. ASSUME NEW c \in Nat, c < BlockSize
        PROVE  (e * BlockSize + c) \div BlockSize = e /\ (e * BlockSize + c) % BlockSize = c
    BY <1>1, <2>1
  <2>2. x - 1 = e * BlockSize + (j - 1) /\ j - 1 \in Nat /\ j - 1 < BlockSize
    BY <1>1, <1>2
  <2> QED BY <2>1, <2>2
<1>5. BlockOf(x) = e + 1 /\ SlotOf(x) = j - 1 + 1
  BY <1>4 DEF BlockOf, SlotOf
<1> QED BY <1>1, <1>3, <1>5

\* Equal hashes are hashes of the same position and of the same tokens, so the
\* KV up to there is the same.
LEMMA HashSame ==
  ASSUME NEW s \in Seqs, NEW t \in Seqs, NEW i, NEW j, Hashable(s, i), Hashable(t, j),
         Hash(s, i) = Hash(t, j)
  PROVE  i = j /\ \A x \in Nat : x <= i * BlockSize => KvOf(s, x) = KvOf(t, x)
<1> USE BlockSizeAssumption, LookaheadAssumption
<1>1. /\ Text[s] \in Seq(Nat) /\ Len(Text[s]) \in Nat
      /\ Text[t] \in Seq(Nat) /\ Len(Text[t]) \in Nat
  BY TextAssumption
<1>2. /\ i \in Nat /\ j \in Nat
      /\ i * BlockSize + Lookahead <= Len(Text[s])
      /\ j * BlockSize + Lookahead <= Len(Text[t])
  <2>1. num_hash_blocks(Len(Text[s])) \in Nat /\ num_hash_blocks(Len(Text[t])) \in Nat
    BY <1>1, NumHashBlocks
  <2>2. /\ i \in Nat /\ i \in 1 .. num_hash_blocks(Len(Text[s]))
        /\ j \in Nat /\ j \in 1 .. num_hash_blocks(Len(Text[t]))
    BY <2>1 DEF Hashable
  <2> QED BY <1>1, <2>2, NumHashBlocks
<1>3. i * BlockSize \in Nat /\ j * BlockSize \in Nat
  BY <1>2
<1> DEFINE m == i * BlockSize
           n == j * BlockSize
<1>4. m \in Nat /\ n \in Nat /\ m + Lookahead <= Len(Text[s]) /\ n + Lookahead <= Len(Text[t])
  BY <1>2, <1>3
<1>5. SubSeq(Text[s], 1, m + Lookahead) = SubSeq(Text[t], 1, n + Lookahead)
  BY DEF Hash
<1> HIDE DEF m, n
<1>6. ASSUME NEW q \in Seq(Nat), NEW c \in Nat, c <= Len(q)
      PROVE  SubSeq(q, 1, c) = [y \in 1 .. c |-> q[y]] /\ Len(SubSeq(q, 1, c)) = c
             /\ \A y \in 1 .. c : SubSeq(q, 1, c)[y] = q[y]
  BY <1>6
<1> DEFINE u == SubSeq(Text[s], 1, m + Lookahead)
           w == SubSeq(Text[t], 1, n + Lookahead)
<1>7. /\ Len(u) = m + Lookahead /\ \A y \in 1 .. m + Lookahead : u[y] = Text[s][y]
      /\ Len(w) = n + Lookahead /\ \A y \in 1 .. n + Lookahead : w[y] = Text[t][y]
  <2>1. m + Lookahead \in Nat /\ n + Lookahead \in Nat
    BY <1>4
  <2> QED BY <1>1, <1>4, <1>6, <2>1
<1> HIDE DEF u, w
<1>8. m = n
  BY <1>4, <1>5, <1>7 DEF u, w
<1>9. i = j
  BY <1>2, <1>8, MulInj DEF m, n
<1>10. \A y \in 1 .. m + Lookahead : Text[s][y] = Text[t][y]
  BY <1>5, <1>8, <1>7 DEF u, w
<1>11. ASSUME NEW x \in Nat, x <= m PROVE KvOf(s, x) = KvOf(t, x)
  <2>1. /\ SubSeq(Text[s], 1, x + Lookahead) = [y \in 1 .. x + Lookahead |-> Text[s][y]]
        /\ SubSeq(Text[t], 1, x + Lookahead) = [y \in 1 .. x + Lookahead |-> Text[t][y]]
    <3>1. x + Lookahead \in Nat /\ x + Lookahead <= Len(Text[s])
          /\ x + Lookahead <= Len(Text[t])
      BY <1>1, <1>4, <1>8, <1>11
    <3> QED BY <1>1, <1>6, <3>1
  <2>2. \A y \in 1 .. x + Lookahead : Text[s][y] = Text[t][y]
    BY <1>4, <1>10, <1>11
  <2> QED BY <2>1, <2>2 DEF KvOf
<1> QED BY <1>9, <1>11 DEF m

\* What a sequence of the batch writes to a slot agrees with whatever a table or
\* the cache takes the slot to hold.
LEMMA WriteFacts ==
  ASSUME IInv, ContentInv, NEW b, NEW j, NEW w \in SlotValues(b, j)
  PROVE  \E t \in Seqs : \E y \in Nat \ {0} :
           /\ y \in Writes(t) /\ SlotOf(y) = j /\ BlockOf(y) \in 1 .. Len(kv_state[t].blocks)
           /\ kv_state[t].blocks[BlockOf(y)] = b /\ w = KvOf(t, y)
<1>1. PICK t \in Seqs : \E y \in Writes(t) : /\ SlotOf(y) = j /\ w = KvOf(t, y)
                                             /\ kv_state[t].blocks[BlockOf(y)] = b
  BY DEF SlotValues
<1>2. PICK y \in Writes(t) : /\ SlotOf(y) = j /\ w = KvOf(t, y)
                             /\ kv_state[t].blocks[BlockOf(y)] = b
  BY <1>1
<1>3. kv_state[t].kv \in Nat /\ batch[t] \in Nat /\ Len(kv_state[t].blocks) \in Nat
  BY TableFacts DEF IInv, TypeOK
<1>4. y \in Nat \ {0} /\ y \in 1 .. batch[t]
  BY <1>3 DEF Writes
<1>5. BlockOf(y) \in Nat \ {0} /\ BlockOf(y) <= Len(kv_state[t].blocks)
  BY <1>4, Position DEF ContentInv
<1> QED BY <1>2, <1>3, <1>4, <1>5

LEMMA FiledAgrees ==
  ASSUME IInv, ContentInv, NEW s \in Seqs, NEW i, Hashable(s, i), pool.node[Hash(s, i)] # NoBlock,
         NEW j \in 1 .. BlockSize, NEW w \in SlotValues(pool.node[Hash(s, i)], j)
  PROVE  w = KvOf(s, (i - 1) * BlockSize + j)
<1> DEFINE b == pool.node[Hash(s, i)]
<1>1. Books(pool, kv_state)
  BY DEF IInv
<1>2. PICK t \in Seqs : \E y \in Nat \ {0} :
           /\ y \in Writes(t) /\ SlotOf(y) = j /\ BlockOf(y) \in 1 .. Len(kv_state[t].blocks)
           /\ kv_state[t].blocks[BlockOf(y)] = b /\ w = KvOf(t, y)
  BY WriteFacts
<1>3. PICK y \in Nat \ {0} :
           /\ y \in Writes(t) /\ SlotOf(y) = j /\ BlockOf(y) \in 1 .. Len(kv_state[t].blocks)
           /\ kv_state[t].blocks[BlockOf(y)] = b /\ w = KvOf(t, y)
  BY <1>2
<1>4. b \in pool.ids /\ Hash(s, i) \in Hashes /\ i \in Nat \ {0}
  BY <1>1, FiledFacts, HashType
<1>5. Hashable(t, BlockOf(y)) /\ pool.node[Hash(t, BlockOf(y))] = b
  BY <1>1, <1>3, <1>4 DEF Books, TableInv, FiledUnderOwnHash
<1>6. Hash(s, i) = Hash(t, BlockOf(y))
  BY <1>1, <1>4, <1>5, FiledFacts, HashType
<1>7. i = BlockOf(y) /\ \A x \in Nat : x <= i * BlockSize => KvOf(s, x) = KvOf(t, x)
  BY <1>5, <1>6, HashSame
<1>8. y = (i - 1) * BlockSize + j
  BY <1>3, <1>7, Position
<1>9. y <= i * BlockSize
  BY <1>4, <1>8, SlotPosition
<1> QED BY <1>3, <1>7, <1>8, <1>9

LEMMA TableAgrees ==
  ASSUME IInv, ContentInv, NEW s \in Seqs, NEW x \in Nat \ {0},
         BlockOf(x) <= Len(kv_state[s].blocks),
         NEW w \in SlotValues(kv_state[s].blocks[BlockOf(x)], SlotOf(x))
  PROVE  w = KvOf(s, x)
<1> DEFINE b == kv_state[s].blocks[BlockOf(x)]
<1>1. Books(pool, kv_state)
  BY DEF IInv
<1>2. PICK t \in Seqs : \E y \in Nat \ {0} :
           /\ y \in Writes(t) /\ SlotOf(y) = SlotOf(x)
           /\ BlockOf(y) \in 1 .. Len(kv_state[t].blocks)
           /\ kv_state[t].blocks[BlockOf(y)] = b /\ w = KvOf(t, y)
  BY WriteFacts
<1>3. PICK y \in Nat \ {0} :
           /\ y \in Writes(t) /\ SlotOf(y) = SlotOf(x)
           /\ BlockOf(y) \in 1 .. Len(kv_state[t].blocks)
           /\ kv_state[t].blocks[BlockOf(y)] = b /\ w = KvOf(t, y)
  BY <1>2
<1>4. BlockOf(x) \in 1 .. Len(kv_state[s].blocks) /\ Len(kv_state[s].blocks) \in Nat
  <2>1. BlockOf(x) \in Nat \ {0}
    BY Position
  <2>2. Len(kv_state[s].blocks) \in Nat
    BY <1>1, TableFacts
  <2> QED BY <2>1, <2>2
<1>5. b \in Held(kv_state[s]) /\ b \in Held(kv_state[t])
  BY <1>3, <1>4 DEF Held
<1>6. CASE s = t
  <2>1. BlockOf(x) = BlockOf(y)
    BY <1>1, <1>3, <1>4, <1>6 DEF Books, TableInv, NoDuplicates
  <2>2. x = y
    BY <1>3, <2>1, Position
  <2> QED BY <1>3, <1>6, <2>2
<1>7. CASE s # t
  <2>1. b \in pool.ids
    BY <1>5, <1>7 DEF ContentInv, SharedOnlyIfFiled
  <2>2. /\ Hashable(t, BlockOf(y)) /\ pool.node[Hash(t, BlockOf(y))] = b
        /\ Hashable(s, BlockOf(x)) /\ pool.node[Hash(s, BlockOf(x))] = b
    BY <1>1, <1>3, <1>4, <2>1 DEF Books, TableInv, FiledUnderOwnHash
  <2>3. b # NoBlock
    BY <1>1, <2>1, FiledFacts
  <2>4. Hash(s, BlockOf(x)) = Hash(t, BlockOf(y))
    BY <1>1, <2>2, <2>3, FiledFacts, HashType
  <2>5. BlockOf(x) = BlockOf(y)
        /\ \A z \in Nat : z <= BlockOf(x) * BlockSize => KvOf(s, z) = KvOf(t, z)
    BY <2>2, <2>4, HashSame
  <2>6. x = y
    BY <1>3, <2>5, Position
  <2>7. x <= BlockOf(x) * BlockSize
    BY Position, SlotPosition
  <2> QED BY <1>3, <2>5, <2>6, <2>7
<1> QED BY <1>6, <1>7

\* So what a slot has is what the forward pass leaves in it.
LEMMA ExecutedHas ==
  ASSUME NEW b \in Blocks, NEW j \in 1 .. BlockSize, NEW v, Has(b, j, v),
         \A w \in SlotValues(b, j) : w = v
  PROVE  Executed[b][j] = v
<1>1. CASE SlotValues(b, j) = {}
  BY <1>1 DEF Executed, Has
<1>2. CASE SlotValues(b, j) # {}
  <2>1. SlotValues(b, j) = {v}
    BY <1>2
  <2>2. (CHOOSE u \in {v} : TRUE) = v
    OBVIOUS
  <2> QED BY <2>1, <2>2 DEF Executed
<1> QED BY <1>1, <1>2

LEMMA FiledExecuted ==
  ASSUME IInv, ContentInv, NEW s \in Seqs, NEW i, Hashable(s, i), pool.node[Hash(s, i)] # NoBlock,
         NEW j \in 1 .. BlockSize
  PROVE  Executed[pool.node[Hash(s, i)]][j] = KvOf(s, (i - 1) * BlockSize + j)
<1>1. pool.node[Hash(s, i)] \in Blocks
  BY FiledFacts, HashType DEF IInv
<1>2. Has(pool.node[Hash(s, i)], j, KvOf(s, (i - 1) * BlockSize + j))
  BY DEF ContentInv, FiledHas
<1> QED BY <1>1, <1>2, FiledAgrees, ExecutedHas

LEMMA CachedExecuted ==
  ASSUME IInv, ContentInv, NEW s \in Seqs, NEW x \in Nat \ {0},
         x \in 1 .. kv_state[s].kv \/ x \in 1 .. batch[s]
  PROVE  /\ BlockOf(x) \in 1 .. Len(kv_state[s].blocks) /\ SlotOf(x) \in 1 .. BlockSize
         /\ kv_state[s].blocks[BlockOf(x)] \in Blocks
         /\ Executed[kv_state[s].blocks[BlockOf(x)]][SlotOf(x)] = KvOf(s, x)
<1>1. Books(pool, kv_state) /\ kv_state[s].kv \in Nat /\ batch[s] \in Nat
      /\ Len(kv_state[s].blocks) \in Nat
  BY TableFacts DEF IInv, TypeOK
<1>2. BlockOf(x) <= Len(kv_state[s].blocks)
  BY DEF ContentInv, CachedHas
<1>3. BlockOf(x) \in 1 .. Len(kv_state[s].blocks) /\ SlotOf(x) \in 1 .. BlockSize
  BY <1>1, <1>2, Position
<1>4. kv_state[s].blocks[BlockOf(x)] \in Blocks
  BY <1>1, <1>3, TableFacts
<1>5. Has(kv_state[s].blocks[BlockOf(x)], SlotOf(x), KvOf(s, x))
  <2>1. CASE x \in 1 .. kv_state[s].kv
    BY <2>1 DEF ContentInv, CachedHas
  <2>2. CASE x \notin 1 .. kv_state[s].kv
    <3>1. x \in Writes(s)
      BY <1>1, <2>2 DEF Writes
    <3>2. KvOf(s, x) \in SlotValues(kv_state[s].blocks[BlockOf(x)], SlotOf(x))
      BY <3>1 DEF SlotValues
    <3> QED BY <3>2 DEF Has
  <2> QED BY <2>1, <2>2
<1> QED BY <1>2, <1>3, <1>4, <1>5, TableAgrees, ExecutedHas

\* After the forward pass the slots hold what they were to hold.
LEMMA ForwardContent ==
  ASSUME IInv, ContentInv, Forward
  PROVE  ContentInv'
<1>1. /\ data' = Executed /\ pool' = pool /\ batch' = [s \in Seqs |-> 0]
      /\ kv_state' = [s \in Seqs |-> [kv_state[s] EXCEPT !.kv = LargerOf(@, batch[s])]]
  BY DEF Forward
<1>2. Books(pool, kv_state)
  BY DEF IInv
<1>3. ASSUME NEW s \in Seqs
      PROVE  /\ kv_state[s].kv \in Nat /\ batch[s] \in Nat /\ batch'[s] = 0
             /\ kv_state'[s].blocks = kv_state[s].blocks
             /\ kv_state'[s].kv = LargerOf(kv_state[s].kv, batch[s])
             /\ Held(kv_state'[s]) = Held(kv_state[s])
  <2>1. kv_state[s] \in KvType /\ kv_state[s].kv \in Nat /\ batch[s] \in Nat
    BY <1>2, TableFacts DEF IInv, TypeOK
  <2>2. kv_state'[s] = [kv_state[s] EXCEPT !.kv = LargerOf(@, batch[s])]
    BY <1>1
  <2>3. kv_state'[s].blocks = kv_state[s].blocks
        /\ kv_state'[s].kv = LargerOf(kv_state[s].kv, batch[s])
    BY <2>1, <2>2 DEF KvType
  <2> QED BY <1>1, <2>1, <2>3 DEF Held
<1>4. SharedOnlyIfFiled(pool', kv_state')
  BY <1>1, <1>3 DEF ContentInv, SharedOnlyIfFiled
<1>5. ASSUME NEW s \in Seqs, NEW x \in 1 .. kv_state'[s].kv PROVE CachedHas(s, x)'
  <2>1. x \in Nat \ {0} /\ (x \in 1 .. kv_state[s].kv \/ x \in 1 .. batch[s])
    BY <1>3 DEF LargerOf
  <2>2. /\ BlockOf(x) \in 1 .. Len(kv_state[s].blocks)
        /\ Executed[kv_state[s].blocks[BlockOf(x)]][SlotOf(x)] = KvOf(s, x)
    BY <2>1, CachedExecuted
  <2>3. Len(kv_state[s].blocks) \in Nat
    BY <1>2, TableFacts
  <2> QED BY <1>1, <1>3, <2>2, <2>3 DEF CachedHas, Has
<1>6. ASSUME NEW s \in Seqs, NEW i, Hashable(s, i) PROVE FiledHas(s, i)'
  BY <1>1, <1>6, FiledExecuted DEF FiledHas, Has
<1>7. \A s \in Seqs : \A x \in 1 .. batch'[s] : BlockOf(x) <= Len(kv_state'[s].blocks)
  BY <1>3
<1> QED BY <1>4, <1>5, <1>6, <1>7 DEF ContentInv

\* What every handler of one sequence does to tables, cache and batch: a table
\* gets blocks that are filed or that nobody holds; what the sequence counts as
\* cached was so before, or is filed under its hash; and a block is newly filed
\* only if its KV is cached or is being written by the batch.
HandlerStep(s) ==
  LET k == kv_state[s]
      l == kv_state'[s]
  IN  /\ data' = data /\ batch[s] = 0
      /\ \A t \in Seqs : t # s => kv_state'[t] = kv_state[t] /\ batch'[t] = batch[t]
      /\ \A b \in Held(l) : \/ b \in Held(k) \/ b \in pool.ids
                            \/ \A t \in Seqs : b \notin Held(kv_state[t])
      /\ \A x \in 1 .. l.kv :
           /\ BlockOf(x) <= Len(l.blocks)
           /\ \/ x \in 1 .. k.kv /\ l.blocks[BlockOf(x)] = k.blocks[BlockOf(x)]
              \/ /\ Hashable(s, BlockOf(x)) /\ pool.node[Hash(s, BlockOf(x))] # NoBlock
                 /\ l.blocks[BlockOf(x)] = pool.node[Hash(s, BlockOf(x))]
      /\ \A x \in 1 .. batch'[s] : BlockOf(x) <= Len(l.blocks)
      /\ \A h \in Hashes :
           \/ pool'.node[h] \in {NoBlock, pool.node[h]}
           \/ \E i : /\ Hashable(s, i) /\ h = Hash(s, i)
                     /\ \/ pool'.node[h] = k.blocks[i] /\ i * BlockSize <= k.kv
                        \/ pool'.node[h] = l.blocks[i] /\ i * BlockSize <= batch'[s]

\* Nobody else's writes change, and the sequence had none.
LEMMA WritesGrow ==
  ASSUME IInv, NEW s \in Seqs, HandlerStep(s), NEW b, NEW j, NEW v, Has(b, j, v)
  PROVE  Has(b, j, v)'
<1>1. ASSUME NEW w \in SlotValues(b, j) PROVE w \in SlotValues(b, j)'
  <2>1. PICK t \in Seqs : \E y \in Writes(t) : /\ SlotOf(y) = j /\ w = KvOf(t, y)
                                               /\ kv_state[t].blocks[BlockOf(y)] = b
    BY <1>1 DEF SlotValues
  <2>2. t # s
    <3>1. kv_state[s].kv \in Nat /\ batch[s] = 0
      BY TableFacts DEF IInv, HandlerStep
    <3>2. Writes(s) = {}
      BY <3>1 DEF Writes
    <3> QED BY <2>1, <3>2
  <2>3. kv_state'[t] = kv_state[t] /\ batch'[t] = batch[t]
    BY <2>2 DEF HandlerStep
  <2>4. Writes(t)' = Writes(t)
    BY <2>3 DEF Writes
  <2> QED BY <2>1, <2>3, <2>4 DEF SlotValues
<1> QED BY <1>1 DEF Has, HandlerStep

LEMMA HandlerContent ==
  ASSUME IInv, ContentInv, Next, NEW s \in Seqs, HandlerStep(s)
  PROVE  ContentInv'
<1> DEFINE k == kv_state[s]
           l == kv_state'[s]
<1>1. IInv' /\ Books(pool, kv_state) /\ Books(pool', kv_state')
  BY NextInv DEF IInv
<1>2. SharedOnlyIfFiled(pool', kv_state')
  <2> SUFFICES ASSUME NEW t \in Seqs, NEW u \in Seqs, t # u, NEW b,
                      b \in Held(kv_state'[t]), b \in Held(kv_state'[u])
               PROVE  b \in pool'.ids
    BY DEF SharedOnlyIfFiled
  <2>1. \A r \in Seqs : r # s => Held(kv_state'[r]) = Held(kv_state[r])
    BY DEF HandlerStep
  <2>2. PICK r \in Seqs : r # s /\ b \in Held(kv_state[r])
    BY <2>1
  <2>3. b \in pool.ids
    <3>1. CASE t # s /\ u # s
      BY <2>1, <3>1 DEF ContentInv, SharedOnlyIfFiled
    <3>2. CASE t = s \/ u = s
      <4>1. b \in Held(l)
        BY <3>2
      <4>2. b \in Held(k) \/ b \in pool.ids
        BY <2>2, <4>1 DEF HandlerStep
      <4> QED BY <2>2, <4>2 DEF ContentInv, SharedOnlyIfFiled
    <3> QED BY <3>1, <3>2
  <2> QED BY <2>2, <2>3, HeldStaysFiled
<1>3. ASSUME NEW t \in Seqs, NEW x \in 1 .. batch'[t]
      PROVE  BlockOf(x) <= Len(kv_state'[t].blocks)
  <2>1. CASE t = s
    BY <2>1 DEF HandlerStep
  <2>2. CASE t # s
    <3>1. kv_state'[t] = kv_state[t] /\ batch'[t] = batch[t]
      BY <2>2 DEF HandlerStep
    <3> QED BY <3>1 DEF ContentInv
  <2> QED BY <2>1, <2>2
<1>4. ASSUME NEW t \in Seqs, NEW x \in 1 .. kv_state'[t].kv PROVE CachedHas(t, x)'
  <2>1. CASE t # s
    <3>1. kv_state'[t] = kv_state[t]
      BY <2>1 DEF HandlerStep
    <3>2. CachedHas(t, x)
      BY <3>1 DEF ContentInv
    <3> QED BY <3>1, <3>2, WritesGrow DEF CachedHas
  <2>2. CASE t = s
    <3>1. x \in 1 .. l.kv /\ x \in Nat \ {0}
      <4>1. l.kv \in Nat
        BY <1>1, TableFacts
      <4> QED BY <2>2, <4>1
    <3>2. BlockOf(x) <= Len(l.blocks)
      BY <3>1 DEF HandlerStep
    <3>3. Has(l.blocks[BlockOf(x)], SlotOf(x), KvOf(s, x))
      <4>1. CASE x \in 1 .. k.kv /\ l.blocks[BlockOf(x)] = k.blocks[BlockOf(x)]
        BY <4>1 DEF ContentInv, CachedHas
      <4>2. CASE /\ Hashable(s, BlockOf(x)) /\ pool.node[Hash(s, BlockOf(x))] # NoBlock
                 /\ l.blocks[BlockOf(x)] = pool.node[Hash(s, BlockOf(x))]
        <5>1. SlotOf(x) \in 1 .. BlockSize /\ x = (BlockOf(x) - 1) * BlockSize + SlotOf(x)
          BY <3>1, Position
        <5>2. Has(l.blocks[BlockOf(x)], SlotOf(x),
                  KvOf(s, (BlockOf(x) - 1) * BlockSize + SlotOf(x)))
          BY <4>2, <5>1 DEF ContentInv, FiledHas
        <5> QED BY <5>1, <5>2
      <4> QED BY <3>1, <4>1, <4>2 DEF HandlerStep
    <3>4. PICK c : c = l.blocks[BlockOf(x)]
      OBVIOUS
    <3>5. Has(c, SlotOf(x), KvOf(s, x))'
      BY <3>3, <3>4, WritesGrow
    <3> QED BY <2>2, <3>2, <3>4, <3>5 DEF CachedHas
  <2> QED BY <2>1, <2>2
<1>5. ASSUME NEW t \in Seqs, NEW i, Hashable(t, i), NEW c, c = pool'.node[Hash(t, i)],
             c # NoBlock, NEW j \in 1 .. BlockSize
      PROVE  Has(c, j, KvOf(t, (i - 1) * BlockSize + j))'
  <2> DEFINE x == (i - 1) * BlockSize + j
  <2>1. Hash(t, i) \in Hashes /\ i \in Nat \ {0}
    BY <1>5, HashType
  <2>2. /\ x \in Nat \ {0} /\ BlockOf(x) = i /\ SlotOf(x) = j
        /\ i * BlockSize \in Nat /\ x <= i * BlockSize
    BY <2>1, SlotPosition
  <2>3. CASE pool'.node[Hash(t, i)] = pool.node[Hash(t, i)]
    <3>1. Has(c, j, KvOf(t, (i - 1) * BlockSize + j))
      BY <1>5, <2>3 DEF ContentInv, FiledHas
    <3> QED BY <3>1, WritesGrow
  <2>4. ASSUME NEW e, Hashable(s, e), Hash(t, i) = Hash(s, e),
               \/ pool'.node[Hash(t, i)] = k.blocks[e] /\ e * BlockSize <= k.kv
               \/ pool'.node[Hash(t, i)] = l.blocks[e] /\ e * BlockSize <= batch'[s]
        PROVE  Has(c, j, KvOf(t, x))'
    <3>1. e = i /\ KvOf(t, x) = KvOf(s, x)
      BY <1>5, <2>2, <2>4, HashSame
    <3>2. k.kv \in Nat /\ l.kv \in Nat /\ batch'[s] \in Nat
      BY <1>1, TableFacts DEF IInv, TypeOK
    <3> HIDE DEF x
    <3>3. CASE pool'.node[Hash(t, i)] = k.blocks[e] /\ e * BlockSize <= k.kv
      <4>1. x \in 1 .. k.kv
        BY <2>2, <3>1, <3>2, <3>3
      <4>2. Has(c, j, KvOf(s, x))
        BY <1>5, <2>2, <3>1, <3>3, <4>1 DEF ContentInv, CachedHas
      <4> QED BY <3>1, <4>2, WritesGrow
    <3>4. CASE pool'.node[Hash(t, i)] = l.blocks[e] /\ e * BlockSize <= batch'[s]
      <4>1. x \in 1 .. batch'[s]
        BY <2>2, <3>1, <3>2, <3>4
      <4>2. CASE x \in 1 .. l.kv
        <5>1. CachedHas(s, x)'
          BY <1>4, <4>2
        <5> QED BY <1>5, <2>2, <3>1, <3>4, <5>1 DEF CachedHas
      <4>3. CASE x \notin 1 .. l.kv
        <5>1. x \in Writes(s)'
          BY <3>2, <4>1, <4>3 DEF Writes
        <5>2. KvOf(t, x) \in SlotValues(c, j)'
          BY <1>5, <2>2, <3>1, <3>4, <5>1 DEF SlotValues
        <5> QED BY <5>2 DEF Has
      <4> QED BY <4>2, <4>3
    <3> QED BY <2>4, <3>3, <3>4
  <2> QED BY <1>5, <2>1, <2>3, <2>4 DEF HandlerStep
<1>6. ASSUME NEW t \in Seqs, NEW i, Hashable(t, i) PROVE FiledHas(t, i)'
  <2>1. PICK c : c = pool'.node[Hash(t, i)]
    OBVIOUS
  <2>2. c # NoBlock => \A j \in 1 .. BlockSize : Has(c, j, KvOf(t, (i - 1) * BlockSize + j))'
    BY <1>5, <1>6, <2>1
  <2> QED BY <2>1, <2>2 DEF FiledHas
<1> QED BY <1>2, <1>3, <1>4, <1>6 DEF ContentInv

\* What each operation of the leaf does to the nodes.
LEMMA NodesOf ==
  ASSUME NEW p, LeafFields(p), NEW B
  PROVE  /\ free(p, B).node = p.node /\ claim(p, B).node = p.node
         /\ allocate(p, B).node = p.node
         /\ \A h \in Hashes : evict(p, B).node[h] \in {NoBlock, p.node[h]}
<1>1. ASSUME NEW r, LeafFields(r) PROVE free(r, B).node = r.node
  BY <1>1 DEF free, LeafFields
<1>2. claim(p, B).node = p.node /\ allocate(p, B).node = p.node
  BY DEF claim, allocate, LeafFields
<1>3. \A h \in Hashes : evict(p, B).node[h] \in {NoBlock, p.node[h]}
  <2> DEFINE r == [p EXCEPT !.node = [h \in Hashes |->
                               IF p.node[h] \in B THEN NoBlock ELSE p.node[h]],
                            !.ids  = @ \ B,
                            !.evictable = release_evictable_slot(@, Cardinality(B))]
  <2>1. LeafFields(r) /\ r.node = [h \in Hashes |-> IF p.node[h] \in B THEN NoBlock ELSE p.node[h]]
    BY DEF LeafFields
  <2>2. evict(p, B) = free(r, B)
    BY DEF evict
  <2> HIDE DEF r
  <2>3. evict(p, B).node = r.node
    BY <1>1, <2>1, <2>2
  <2> QED BY <2>1, <2>3
<1> QED BY <1>1, <1>2, <1>3

LEMMA PublishNodes ==
  ASSUME NEW p, LeafFields(p), NEW s, NEW k, NEW e, NEW h \in Hashes
  PROVE  LET q == publish_pool(p, s, k, e)
         IN  \/ q.node[h] = p.node[h]
             \/ \E i \in PublishedRange(k, e) : h = Hash(s, i) /\ q.node[h] = k.blocks[i]
<1> DEFINE pub == {<<Hash(s, i), k.blocks[i]>> : i \in PublishedRange(k, e)}
           fresh == {x \in pub : p.node[x[1]] = NoBlock}
           q == publish_pool(p, s, k, e)
<1>1. q.node = [g \in Hashes |-> IF \E x \in fresh : x[1] = g
                                   THEN (CHOOSE x \in fresh : x[1] = g)[2] ELSE p.node[g]]
  BY DEF publish_pool, insert, LeafFields
<1> HIDE DEF q
<1>2. CASE \E x \in fresh : x[1] = h
  <2> DEFINE c == CHOOSE x \in fresh : x[1] = h
  <2>1. c \in fresh /\ c[1] = h /\ q.node[h] = c[2]
    BY <1>1, <1>2
  <2> HIDE DEF c
  <2>2. PICK i \in PublishedRange(k, e) : c = <<Hash(s, i), k.blocks[i]>>
    BY <2>1
  <2> QED BY <2>1, <2>2 DEF q
<1>3. CASE ~\E x \in fresh : x[1] = h
  BY <1>1, <1>3 DEF q
<1> QED BY <1>2, <1>3

\* x tokens lie in the first c blocks if c blocks have room for them.
LEMMA BlockBound ==
  ASSUME NEW x \in Nat \ {0}, NEW c \in Nat, x <= c * BlockSize
  PROVE  BlockOf(x) <= c
<1> DEFINE d == BlockOf(x) - 1
<1>1. /\ d \in Nat /\ SlotOf(x) \in 1 .. BlockSize /\ d * BlockSize \in Nat
      /\ x = d * BlockSize + SlotOf(x) /\ BlockOf(x) = d + 1
  BY Position
<1> HIDE DEF d
<1>2. c * BlockSize \in Nat /\ BlockSize \in Nat \ {0}
  BY BlockSizeAssumption
<1>3. d < c
  <2> SUFFICES ASSUME c <= d PROVE FALSE
    BY <1>1
  <2>1. c * BlockSize <= d * BlockSize
    BY <1>1, <1>2, MulMono
  <2>2. SlotOf(x) \in Nat /\ SlotOf(x) >= 1
    BY <1>1, <1>2
  <2> QED BY <1>1, <1>2, <2>1, <2>2
<1> QED BY <1>1, <1>3

\* CeilDiv(n) blocks have room for n tokens.
LEMMA CeilDivRoom ==
  ASSUME NEW n \in Nat
  PROVE  CeilDiv(n) \in Nat /\ n <= CeilDiv(n) * BlockSize
<1> DEFINE a == n + BlockSize - 1
           d == a \div BlockSize
<1>1. BlockSize \in Nat \ {0} /\ a \in Nat
  BY BlockSizeAssumption
<1>2. n = a - BlockSize + 1
  BY <1>1
<1> HIDE DEF a
<1>3. d \in Nat /\ a < d * BlockSize + BlockSize
  BY <1>1, DivMul
<1> HIDE DEF d
<1>4. d * BlockSize \in Nat
  BY <1>1, <1>3
<1>5. n <= d * BlockSize
  BY <1>1, <1>2, <1>3, <1>4
<1> QED BY <1>3, <1>5 DEF CeilDiv, d, a

\* cache_full_blocks_for_sequence() files blocks whose KV is cached.
LEMMA PublishedNodes ==
  ASSUME IInv, NEW s \in Seqs
  PROVE  /\ LeafFields(PublishedPool(s)) /\ LeafFields(pool)
         /\ \A h \in Hashes :
              \/ PublishedPool(s).node[h] = pool.node[h]
              \/ \E i : /\ Hashable(s, i) /\ h = Hash(s, i)
                        /\ PublishedPool(s).node[h] = kv_state[s].blocks[i]
                        /\ i * BlockSize <= kv_state[s].kv
         /\ PublishedKv(s).kv = kv_state[s].kv
<1> USE BlockSizeAssumption, LookaheadAssumption
<1>1. /\ pool \in LeafType /\ kv_state[s] \in KvType /\ kv_state[s].kv \in Nat
      /\ kv_state[s].cached \in Nat /\ Len(kv_state[s].blocks) \in Nat /\ len[s] \in Nat
  BY TableFacts DEF IInv, TypeOK
<1>2. LeafFields(pool) /\ LeafFields(PublishedPool(s))
  <2>1. PublishedPool(s) \in LeafType
    BY PublishedBooks DEF Books, LeafInv
  <2> QED BY <1>1, <2>1, LeafHasFields
<1>3. PublishedKv(s).kv = kv_state[s].kv
  BY <1>1 DEF PublishedKv, publish_cursor, KvType
<1>4. FullBlocks(s) \in Nat /\ FullBlocks(s) <= num_hash_blocks(Len(Text[s]))
  BY PublishLimits
<1>5. FullBlocks(s) * BlockSize <= kv_state[s].kv
  <2> DEFINE a == publishable_tokens(s)
             d == a \div BlockSize
  <2>1. a \in Nat /\ a <= kv_state[s].kv
    BY <1>1 DEF publishable_tokens, SmallerOf
  <2> HIDE DEF a
  <2>2. d \in Nat /\ d * BlockSize <= a /\ d * BlockSize \in Nat
    BY <2>1, DivMul
  <2> HIDE DEF d
  <2>3. FullBlocks(s) <= d
    BY <1>1, <2>2 DEF FullBlocks, SmallerOf, a, d
  <2>4. FullBlocks(s) * BlockSize <= d * BlockSize /\ FullBlocks(s) * BlockSize \in Nat
    BY <1>4, <2>2, <2>3, MulMono
  <2> QED BY <1>1, <2>1, <2>2, <2>4
<1>6. ASSUME NEW h \in Hashes
      PROVE  \/ PublishedPool(s).node[h] = pool.node[h]
             \/ \E i : /\ Hashable(s, i) /\ h = Hash(s, i)
                       /\ PublishedPool(s).node[h] = kv_state[s].blocks[i]
                       /\ i * BlockSize <= kv_state[s].kv
  <2>1. \/ PublishedPool(s).node[h] = pool.node[h]
        \/ \E i \in PublishedRange(kv_state[s], FullBlocks(s)) :
             h = Hash(s, i) /\ PublishedPool(s).node[h] = kv_state[s].blocks[i]
    BY <1>2, PublishNodes DEF PublishedPool
  <2>2. ASSUME NEW i \in PublishedRange(kv_state[s], FullBlocks(s))
        PROVE  Hashable(s, i) /\ i * BlockSize <= kv_state[s].kv
    <3>1. i \in Nat \ {0} /\ i <= FullBlocks(s)
      BY <1>1 DEF PublishedRange
    <3>2. num_hash_blocks(Len(Text[s])) \in Nat
      BY NumHashBlocks, TextAssumption
    <3>3. Hashable(s, i)
      BY <1>4, <3>1, <3>2 DEF Hashable
    <3>4. /\ i * BlockSize <= FullBlocks(s) * BlockSize
          /\ i * BlockSize \in Nat /\ FullBlocks(s) * BlockSize \in Nat
      BY <1>4, <3>1, MulMono
    <3> QED BY <1>1, <1>5, <3>3, <3>4
  <2> QED BY <2>1, <2>2
<1> QED BY <1>2, <1>3, <1>6

\* The handlers that take no blocks: they file what is complete, and keep the
\* table or drop it.
LEMMA KeepOrDropStep ==
  ASSUME IInv, ContentInv, NEW s \in Seqs, batch[s] = 0, batch' = batch, data' = data,
         NEW k, k \in {EmptyKv, PublishedKv(s)}, kv_state' = [kv_state EXCEPT ![s] = k],
         \A h \in Hashes : pool'.node[h] \in {NoBlock, PublishedPool(s).node[h]}
  PROVE  HandlerStep(s)
<1> DEFINE l == kv_state'[s]
<1>1. kv_state \in [Seqs -> KvType] /\ PublishedKv(s).blocks = kv_state[s].blocks
      /\ PublishedKv(s).kv = kv_state[s].kv
  BY PublishedBooks, PublishedNodes
<1>2. l = k /\ \A t \in Seqs : t # s => kv_state'[t] = kv_state[t]
  BY <1>1
<1>3. \A b \in Held(l) : b \in Held(kv_state[s])
  <2>1. Held(EmptyKv) = {}
    BY DEF Held, EmptyKv
  <2>2. Held(PublishedKv(s)) = Held(kv_state[s])
    BY <1>1 DEF Held
  <2> QED BY <1>2, <2>1, <2>2
<1>4. ASSUME NEW x \in 1 .. l.kv
      PROVE  BlockOf(x) <= Len(l.blocks) /\ x \in 1 .. kv_state[s].kv
             /\ l.blocks[BlockOf(x)] = kv_state[s].blocks[BlockOf(x)]
  <2>1. k # EmptyKv
    BY <1>2, <1>4 DEF EmptyKv
  <2>2. l.blocks = kv_state[s].blocks /\ l.kv = kv_state[s].kv
    BY <1>1, <1>2, <2>1
  <2>3. CachedHas(s, x)
    BY <1>4, <2>2 DEF ContentInv
  <2> QED BY <2>2, <2>3 DEF CachedHas
<1>5. ASSUME NEW h \in Hashes
      PROVE  \/ pool'.node[h] \in {NoBlock, pool.node[h]}
             \/ \E i : /\ Hashable(s, i) /\ h = Hash(s, i)
                       /\ pool'.node[h] = kv_state[s].blocks[i]
                       /\ i * BlockSize <= kv_state[s].kv
  <2>1. pool'.node[h] = NoBlock \/ pool'.node[h] = PublishedPool(s).node[h]
    OBVIOUS
  <2>2. \/ PublishedPool(s).node[h] = pool.node[h]
        \/ \E i : /\ Hashable(s, i) /\ h = Hash(s, i)
                  /\ PublishedPool(s).node[h] = kv_state[s].blocks[i]
                  /\ i * BlockSize <= kv_state[s].kv
    BY PublishedNodes
  <2> QED BY <2>1, <2>2
<1>6. \A x \in 1 .. batch'[s] : BlockOf(x) <= Len(l.blocks)
  OBVIOUS
<1> QED BY <1>2, <1>3, <1>4, <1>5, <1>6 DEF HandlerStep

LEMMA PublishOnlySteps ==
  ASSUME IInv, ContentInv, NEW s \in Seqs,
         Cache(s) \/ AllocateFails(s) \/ Preempt(s) \/ Finish(s)
  PROVE  HandlerStep(s)
<1> DEFINE p == PublishedPool(s)
<1>1. LeafFields(p)
  BY PublishedNodes
<1>2. CASE Cache(s)
  <2>1. /\ batch[s] = 0 /\ batch' = batch /\ data' = data /\ pool' = PublishedPool(s)
        /\ kv_state' = [kv_state EXCEPT ![s] = PublishedKv(s)]
    BY <1>2 DEF Cache
  <2> QED BY <2>1, KeepOrDropStep
<1>3. CASE AllocateFails(s)
  <2>1. /\ batch[s] = 0 /\ batch' = batch /\ data' = data
        /\ pool' = evict(p, Unshared(p))
        /\ \/ kv_state' = [kv_state EXCEPT ![s] = EmptyKv]
           \/ kv_state' = [kv_state EXCEPT ![s] = PublishedKv(s)]
    BY <1>3 DEF AllocateFails, CanAllocate
  <2>2. \A h \in Hashes : pool'.node[h] \in {NoBlock, p.node[h]}
    BY <1>1, <2>1, NodesOf
  <2> QED BY <2>1, <2>2, KeepOrDropStep
<1>4. CASE Preempt(s) \/ Finish(s)
  <2>1. /\ batch[s] = 0 /\ batch' = batch /\ data' = data
        /\ pool' = free(p, Held(kv_state[s]))
        /\ kv_state' = [kv_state EXCEPT ![s] = EmptyKv]
    BY <1>4 DEF Preempt, Finish, Release
  <2>2. \A h \in Hashes : pool'.node[h] \in {NoBlock, p.node[h]}
    BY <1>1, <2>1, NodesOf
  <2> QED BY <2>1, <2>2, KeepOrDropStep
<1> QED BY <1>2, <1>3, <1>4

\* The table add_shared_blocks() leaves: the matched blocks, then its own; and
\* it counts no more cached than it had, or than the matched blocks hold.
LEMMA MountedTable ==
  ASSUME IInv, NEW s \in Seqs, NEW m \in 1 .. num_hash_blocks(len[s]),
         IsMatch(s, m), m > kv_state[s].shared, NEW l,
         l = IF m <= Len(kv_state[s].blocks) THEN ReplacePrefix(s, m) ELSE MountPrefix(s, m)
  PROVE  LET N == Len(kv_state[s].blocks)
         IN  /\ Len(l.blocks) \in Nat /\ N \in Nat /\ m \in Nat \ {0}
             /\ \A i \in 1 .. Len(l.blocks) :
                  l.blocks[i] = IF i <= m THEN pool.node[Hash(s, i)] ELSE kv_state[s].blocks[i]
             /\ m <= N => Len(l.blocks) = N /\ l.kv = kv_state[s].kv
             /\ m > N => Len(l.blocks) <= m /\ l.kv = Len(l.blocks) * BlockSize
<1> DEFINE B == kv_state[s].blocks
           N == Len(B)
           v == [i \in 1 .. m |-> pool.node[Hash(s, i)]]
<1>1. /\ Books(pool, kv_state) /\ len[s] \in Nat /\ len[s] <= Len(Text[s])
      /\ kv_state[s] \in KvType /\ B \in Seq(Blocks) /\ N \in Nat
      /\ \A i \in 1 .. N : B[i] \in Blocks
  BY TableFacts DEF IInv, TypeOK, Bounds
<1>2. m \in Nat \ {0}
  BY <1>1, NumHashBlocks
<1>3. Matched(s, m) = v /\ \A i \in 1 .. m : pool.node[Hash(s, i)] \in Blocks
  BY <1>1, MatchFacts
<1>4. CASE m <= N
  <2> DEFINE f == [i \in 1 .. N |-> IF i <= m THEN v[i] ELSE B[i]]
  <2>1. l = ReplacePrefix(s, m)
    BY <1>4
  <2>2. l.blocks = f /\ l.kv = kv_state[s].kv
    <3>1. l = [kv_state[s] EXCEPT !.blocks = f, !.shared = m, !.cached = LargerOf(@, m)]
      BY <1>3, <2>1 DEF ReplacePrefix
    <3> HIDE DEF f
    <3> QED BY <1>1, <3>1 DEF KvType
  <2>3. \A i \in 1 .. N : f[i] \in Blocks /\ f[i] = IF i <= m THEN pool.node[Hash(s, i)] ELSE B[i]
    BY <1>1, <1>2, <1>3
  <2>4. f \in [1 .. N -> Blocks]
    BY <2>3
  <2> HIDE DEF f
  <2>5. Len(f) = N
    BY <1>1, <2>4, FunctionSeq
  <2> QED BY <1>1, <1>2, <1>4, <2>2, <2>3, <2>5
<1>5. CASE m > N
  <2> DEFINE kept == IF ExactRepeat(s, m) THEN m - 1 ELSE m
             f == [i \in 1 .. kept |-> v[i]]
  <2>1. l = MountPrefix(s, m)
    BY <1>1, <1>2, <1>5
  <2>2. kept \in Nat /\ kept <= m
    BY <1>2
  <2>3. l.blocks = f
    <3>1. MountPrefix(s, m).blocks = [i \in 1 .. kept |-> Matched(s, m)[i]]
      BY DEF MountPrefix
    <3> QED BY <1>3, <2>1, <3>1
  <2>4. l.kv = kept * BlockSize
    <3>1. l.kv = IF ExactRepeat(s, m) THEN ((len[s] - 1) \div BlockSize) * BlockSize
                                      ELSE m * BlockSize
      BY <2>1 DEF MountPrefix
    <3>2. CASE ExactRepeat(s, m)
      <4> DEFINE x == (m - 1) * BlockSize + BlockSize
      <4>1. BlockSize \in 1 .. BlockSize /\ BlockSize \in Nat \ {0}
        BY BlockSizeAssumption
      <4>2. BlockOf(x) = m /\ x \in Nat \ {0}
        BY <1>2, <4>1, SlotPosition
      <4>3. len[s] = x
        BY <1>2, <3>2, <4>1 DEF ExactRepeat
      <4> HIDE DEF x
      <4>4. (x - 1) \div BlockSize = m - 1
        <5>1. x - 1 \in Nat
          BY <4>2
        <5>2. (x - 1) \div BlockSize \in Nat
          BY <4>1, <5>1, DivMul
        <5> QED BY <1>2, <4>2, <5>2 DEF BlockOf
      <4> QED BY <3>1, <3>2, <4>3, <4>4
    <3>3. CASE ~ExactRepeat(s, m)
      BY <3>1, <3>3
    <3> QED BY <3>2, <3>3
  <2> HIDE DEF kept
  <2>5. \A i \in 1 .. kept : f[i] \in Blocks /\ i <= m /\ f[i] = pool.node[Hash(s, i)]
    <3>1. \A i \in 1 .. kept : i \in 1 .. m /\ i <= m
      BY <1>2, <2>2
    <3> QED BY <1>3, <3>1
  <2>6. f \in [1 .. kept -> Blocks]
    BY <2>5
  <2> HIDE DEF f
  <2>7. Len(f) = kept
    BY <2>2, <2>6, FunctionSeq
  <2>8. ~(m <= N)
    BY <1>1, <1>2, <1>5
  <2> QED BY <1>1, <1>2, <2>2, <2>3, <2>4, <2>5, <2>7, <2>8
<1> QED BY <1>1, <1>2, <1>4, <1>5

LEMMA MountStep ==
  ASSUME IInv, ContentInv, NEW s \in Seqs, allocate_shared(s)
  PROVE  HandlerStep(s)
<1> DEFINE k == kv_state[s]
           l == kv_state'[s]
           N == Len(k.blocks)
<1>1. PICK m \in 1 .. num_hash_blocks(len[s]) :
        /\ batch[s] = 0 /\ IsMatch(s, m) /\ m > kv_state[s].shared
        /\ pool' = SharedPool(s, m)
        /\ kv_state' = [kv_state EXCEPT ![s] = IF m <= Len(kv_state[s].blocks)
                                                 THEN ReplacePrefix(s, m) ELSE MountPrefix(s, m)]
        /\ batch' = batch /\ data' = data
  BY DEF allocate_shared
<1>2. Books(pool, kv_state) /\ kv_state \in [Seqs -> KvType] /\ k.kv \in Nat
      /\ len[s] \in Nat /\ len[s] <= Len(Text[s])
  BY TableFacts DEF IInv, Books, TypeOK, Bounds
<1>3. /\ l = IF m <= Len(kv_state[s].blocks) THEN ReplacePrefix(s, m) ELSE MountPrefix(s, m)
      /\ \A t \in Seqs : t # s => kv_state'[t] = kv_state[t]
  BY <1>1, <1>2
<1>4. /\ Len(l.blocks) \in Nat /\ N \in Nat /\ m \in Nat \ {0}
      /\ \A i \in 1 .. Len(l.blocks) :
           l.blocks[i] = IF i <= m THEN pool.node[Hash(s, i)] ELSE k.blocks[i]
      /\ m <= N => Len(l.blocks) = N /\ l.kv = k.kv
      /\ m > N => Len(l.blocks) <= m /\ l.kv = Len(l.blocks) * BlockSize
  <2> HIDE DEF l
  <2> QED BY <1>1, <1>3, MountedTable
<1>5. \A i \in 1 .. m : /\ Hashable(s, i) /\ pool.node[Hash(s, i)] # NoBlock
                        /\ pool.node[Hash(s, i)] \in pool.ids
  BY <1>1, <1>2, MatchFacts, FiledFacts
<1>6. \A b \in Held(l) : b \in Held(k) \/ b \in pool.ids
  <2> SUFFICES ASSUME NEW i \in 1 .. Len(l.blocks)
               PROVE  l.blocks[i] \in Held(k) \/ l.blocks[i] \in pool.ids
    BY DEF Held
  <2>1. CASE i <= m
    BY <1>4, <1>5, <2>1
  <2>2. CASE ~(i <= m)
    <3>1. i \in 1 .. N /\ l.blocks[i] = k.blocks[i]
      BY <1>4, <2>2
    <3> QED BY <3>1 DEF Held
  <2> QED BY <2>1, <2>2
<1>7. ASSUME NEW x \in 1 .. l.kv
      PROVE  /\ BlockOf(x) <= Len(l.blocks)
             /\ \/ x \in 1 .. k.kv /\ l.blocks[BlockOf(x)] = k.blocks[BlockOf(x)]
                \/ /\ Hashable(s, BlockOf(x)) /\ pool.node[Hash(s, BlockOf(x))] # NoBlock
                   /\ l.blocks[BlockOf(x)] = pool.node[Hash(s, BlockOf(x))]
  <2>1. l.kv \in Nat
    BY <1>2, <1>4, BlockSizeAssumption
  <2>2. x \in Nat \ {0} /\ x <= l.kv /\ BlockOf(x) \in Nat \ {0}
    BY <2>1, Position
  <2>3. BlockOf(x) <= Len(l.blocks) /\ (m <= N => x \in 1 .. k.kv)
    <3>1. CASE m <= N
      <4>1. x \in 1 .. k.kv
        BY <1>4, <3>1
      <4> QED BY <1>4, <3>1, <4>1 DEF ContentInv, CachedHas
    <3>2. CASE m > N
      BY <1>4, <2>2, <3>2, BlockBound
    <3> QED BY <1>4, <3>1, <3>2
  <2>4. BlockOf(x) \in 1 .. Len(l.blocks)
    BY <1>4, <2>2, <2>3
  <2>5. CASE BlockOf(x) <= m
    <3>1. BlockOf(x) \in 1 .. m
      BY <1>4, <2>2, <2>5
    <3> QED BY <1>4, <1>5, <2>3, <2>4, <2>5, <3>1
  <2>6. CASE ~(BlockOf(x) <= m)
    <3>1. m <= N
      BY <1>4, <2>2, <2>3, <2>6
    <3> QED BY <1>4, <2>3, <2>4, <2>6, <3>1
  <2> QED BY <2>5, <2>6
<1>8. \A x \in 1 .. batch'[s] : BlockOf(x) <= Len(l.blocks)
  BY <1>1
<1>9. pool'.node = pool.node
  <2> DEFINE D == {k.blocks[j] : j \in k.shared + 1 .. SmallerOf(m, N)}
             p1 == claim(pool, HitHashes(s, m))
             p2 == free(p1, D)
  <2>1. LeafFields(pool)
    BY PublishedNodes
  <2>2. p1.node = pool.node /\ LeafFields(p1)
    BY <2>1, NodesOf, IdsOf
  <2> HIDE DEF p1, D
  <2>3. p2.node = p1.node /\ LeafFields(p2)
    BY <2>2, NodesOf, IdsOf
  <2>4. pool' = p2 \/ \E M : pool' = free(p2, M)
    BY <1>1 DEF SharedPool, p1, D
  <2> HIDE DEF p2
  <2> QED BY <2>2, <2>3, <2>4, NodesOf
<1> HIDE DEF l
<1> QED BY <1>1, <1>3, <1>6, <1>7, <1>8, <1>9 DEF HandlerStep, l

\* cache_in_batch_prefix() stops within the tokens the batch computes, and the
\* table of a sequence in the batch has room for them.
LEMMA BatchRoom ==
  ASSUME IInv, NEW s \in Seqs, NEW n \in Nat
  PROVE  /\ InBatchEnd(s, n) * BlockSize <= n
         /\ n <= (Len(kv_state[s].blocks) + Missing(s, n)) * BlockSize
<1> USE BlockSizeAssumption
<1>1. kv_state[s].kv \in Nat /\ len[s] \in Nat /\ Len(kv_state[s].blocks) \in Nat
      /\ InBatchEnd(s, n) \in Nat /\ Missing(s, n) \in Nat
  BY TableFacts, PublishLimits DEF IInv, TypeOK
<1>2. InBatchEnd(s, n) * BlockSize <= n
  <2> DEFINE a == SmallerOf(n, IF Lookahead = 0 THEN n ELSE kv_state[s].kv)
             d == a \div BlockSize
  <2>1. a \in Nat /\ a <= n
    BY <1>1 DEF SmallerOf
  <2> HIDE DEF a
  <2>2. d \in Nat /\ d * BlockSize <= a
    BY <2>1, DivMul
  <2> HIDE DEF d
  <2>3. InBatchEnd(s, n) <= d
    <3>1. InBatchEnd(s, n) = SmallerOf(d, num_hash_blocks(len[s]))
      BY DEF InBatchEnd, a, d
    <3>2. num_hash_blocks(len[s]) \in Nat
      BY <1>1, NumHashBlocks
    <3> QED BY <2>2, <3>1, <3>2 DEF SmallerOf
  <2>4. InBatchEnd(s, n) * BlockSize <= d * BlockSize
    BY <1>1, <2>2, <2>3, MulMono
  <2>5. InBatchEnd(s, n) * BlockSize \in Nat /\ d * BlockSize \in Nat
    BY <1>1, <2>2
  <2> QED BY <2>1, <2>2, <2>4, <2>5
<1>3. n <= (Len(kv_state[s].blocks) + Missing(s, n)) * BlockSize
  <2> DEFINE c == CeilDiv(n)
             m == Len(kv_state[s].blocks) + Missing(s, n)
  <2>1. c \in Nat /\ n <= c * BlockSize
    BY CeilDivRoom
  <2>2. m \in Nat /\ c <= m
    BY <1>1, <2>1 DEF Missing, LargerOf
  <2> HIDE DEF c, m
  <2>3. c * BlockSize <= m * BlockSize
    BY <2>1, <2>2, MulMono
  <2>4. c * BlockSize \in Nat /\ m * BlockSize \in Nat
    BY <2>1, <2>2
  <2>5. n <= m * BlockSize
    BY <2>1, <2>3, <2>4
  <2> QED BY <2>5 DEF m
<1> QED BY <1>2, <1>3

\* Blocks an allocation takes are held by nobody.
LEMMA TakenAreFree ==
  ASSUME IInv, NEW s \in Seqs, NEW ev, ev \subseteq Unshared(PublishedPool(s)),
         NEW b \in evict(PublishedPool(s), ev).free, NEW t \in Seqs
  PROVE  b \notin Held(kv_state[t]) /\ b \in Blocks
<1> DEFINE K1 == [kv_state EXCEPT ![s] = PublishedKv(s)]
           p1 == PublishedPool(s)
<1>1. Books(p1, K1) /\ kv_state \in [Seqs -> KvType]
      /\ PublishedKv(s).blocks = kv_state[s].blocks
  BY PublishedBooks
<1>2. K1[t].blocks = kv_state[t].blocks
  BY <1>1
<1> HIDE DEF K1, p1
<1>3. Books(evict(p1, ev), K1)
  BY <1>1, EvictBooks DEF p1
<1>4. b \notin Held(K1[t]) /\ b \in Blocks
  BY <1>3, FreeBlock DEF p1
<1> QED BY <1>2, <1>4 DEF Held

LEMMA AllocateStep ==
  ASSUME IInv, ContentInv, NEW s \in Seqs, Allocate(s)
  PROVE  HandlerStep(s)
<1>1. PICK n \in 1 .. len[s], use \in Uses(s) :
        /\ CanAllocate(s, n)
        /\ \E ev \in Victims(PublishedPool(s), Missing(s, n)) :
           \E q \in NewBlocks(evict(PublishedPool(s), ev), Missing(s, n)) :
             LET p  == Grow(evict(PublishedPool(s), ev), q)
                 k  == [PublishedKv(s) EXCEPT !.blocks = @ \o q]
                 to == IF use = "published" THEN InBatchEnd(s, n) ELSE 0
             IN  /\ pool' = publish_pool(p, s, k, to)
                 /\ kv_state' = [kv_state EXCEPT ![s] = publish_cursor(k, to)]
        /\ batch' = [batch EXCEPT ![s] = IF use = "idle" THEN 0 ELSE n]
        /\ data' = data
  BY DEF Allocate
<1>2. PICK ev \in Victims(PublishedPool(s), Missing(s, n)) :
        \E q \in NewBlocks(evict(PublishedPool(s), ev), Missing(s, n)) :
          LET p  == Grow(evict(PublishedPool(s), ev), q)
              k  == [PublishedKv(s) EXCEPT !.blocks = @ \o q]
              to == IF use = "published" THEN InBatchEnd(s, n) ELSE 0
          IN  /\ pool' = publish_pool(p, s, k, to)
              /\ kv_state' = [kv_state EXCEPT ![s] = publish_cursor(k, to)]
  BY <1>1
<1>3. PICK q \in NewBlocks(evict(PublishedPool(s), ev), Missing(s, n)) :
          LET p  == Grow(evict(PublishedPool(s), ev), q)
              k  == [PublishedKv(s) EXCEPT !.blocks = @ \o q]
              to == IF use = "published" THEN InBatchEnd(s, n) ELSE 0
          IN  /\ pool' = publish_pool(p, s, k, to)
              /\ kv_state' = [kv_state EXCEPT ![s] = publish_cursor(k, to)]
  BY <1>2
<1> DEFINE B == kv_state[s].blocks
           N == Len(B)
           M == Missing(s, n)
           l == kv_state'[s]
           p1 == PublishedPool(s)
           p2 == evict(p1, ev)
           p3 == Grow(p2, q)
           k  == [PublishedKv(s) EXCEPT !.blocks = @ \o q]
           to == IF use = "published" THEN InBatchEnd(s, n) ELSE 0
<1>4. /\ kv_state \in [Seqs -> KvType] /\ PublishedKv(s) \in KvType
      /\ PublishedKv(s).blocks = B /\ PublishedKv(s).kv = kv_state[s].kv
      /\ kv_state[s].kv \in Nat /\ B \in Seq(Blocks) /\ N \in Nat
      /\ batch \in [Seqs -> Nat] /\ n \in Nat /\ M \in Nat
  <2>1. /\ kv_state \in [Seqs -> KvType] /\ PublishedKv(s) \in KvType
        /\ PublishedKv(s).blocks = B /\ PublishedKv(s).kv = kv_state[s].kv
    BY PublishedBooks, PublishedNodes
  <2>2. kv_state[s].kv \in Nat /\ B \in Seq(Blocks) /\ N \in Nat
    BY TableFacts DEF IInv
  <2>3. batch \in [Seqs -> Nat] /\ n \in Nat
    BY DEF IInv, TypeOK
  <2>4. M \in Nat
    BY <2>3, PublishLimits
  <2> QED BY <2>1, <2>2, <2>3, <2>4
<1>5. ev \subseteq Unshared(p1)
  BY DEF Victims
<1>6. q \in [1 .. M -> p2.free] /\ q \in Seq(Blocks) /\ Len(q) = M
  <2>1. q \in [1 .. M -> p2.free]
    BY DEF NewBlocks
  <2>2. p2.free \subseteq Blocks
    BY <1>5, TakenAreFree
  <2> HIDE DEF p2, M
  <2> QED BY <1>4, <2>1, <2>2, FunctionSeq
<1>7. /\ l = publish_cursor(k, to) /\ k.blocks = B \o q /\ k.kv = kv_state[s].kv
      /\ l.blocks = k.blocks /\ l.kv = kv_state[s].kv
      /\ \A t \in Seqs : t # s => kv_state'[t] = kv_state[t]
  <2>1. kv_state' = [kv_state EXCEPT ![s] = publish_cursor(k, to)]
    BY <1>3
  <2>2. l = publish_cursor(k, to) /\ \A t \in Seqs : t # s => kv_state'[t] = kv_state[t]
    <3> HIDE DEF k, to
    <3> QED BY <1>4, <2>1
  <2>3. k.blocks = B \o q /\ k.kv = kv_state[s].kv
    BY <1>4 DEF KvType
  <2>4. l.blocks = k.blocks /\ l.kv = k.kv
    <3>1. B \o q \in Seq(Blocks)
      BY <1>4, <1>6
    <3>2. k \in KvType
      BY <1>4, <3>1 DEF KvType
    <3> HIDE DEF to, k, l, B
    <3> QED BY <2>2, <3>2 DEF publish_cursor, KvType
  <2> QED BY <2>2, <2>3, <2>4
<1> HIDE DEF l, k
<1>8. /\ Len(l.blocks) = N + M
      /\ \A i \in 1 .. N : l.blocks[i] = B[i]
      /\ \A i \in 1 .. Len(l.blocks) : i \notin 1 .. N => l.blocks[i] \in p2.free
  <2>1. /\ Len(B \o q) = N + M
        /\ \A i \in 1 .. N + M : (B \o q)[i] = IF i <= N THEN B[i] ELSE q[i - N]
    <3>1. ASSUME NEW S, NEW a \in Seq(S), NEW d \in Seq(S)
          PROVE  /\ Len(a \o d) = Len(a) + Len(d)
                 /\ \A i \in 1 .. Len(a) + Len(d) :
                      (a \o d)[i] = IF i <= Len(a) THEN a[i] ELSE d[i - Len(a)]
      OBVIOUS
    <3> HIDE DEF M
    <3> QED BY <1>4, <1>6, <3>1
  <2>2. \A i \in 1 .. N + M : i \notin 1 .. N => ~(i <= N) /\ i - N \in 1 .. M
    BY <1>4
  <2>3. \A i \in 1 .. N : i <= N /\ i \in 1 .. N + M
    BY <1>4
  <2>4. l.blocks = B \o q
    BY <1>7
  <2> HIDE DEF N, M, B, p2, l
  <2>5. \A i \in 1 .. N : l.blocks[i] = B[i]
    BY <2>1, <2>3, <2>4
  <2>6. ASSUME NEW i \in 1 .. N + M, i \notin 1 .. N PROVE l.blocks[i] \in p2.free
    <3>1. l.blocks[i] = q[i - N] /\ i - N \in 1 .. M
      BY <2>1, <2>2, <2>4, <2>6
    <3> QED BY <1>6, <3>1
  <2> QED BY <2>1, <2>4, <2>5, <2>6
<1>9. batch[s] = 0 /\ batch'[s] = (IF use = "idle" THEN 0 ELSE n)
      /\ \A t \in Seqs : t # s => batch'[t] = batch[t]
  BY <1>1, <1>4 DEF CanAllocate
<1>10. ASSUME NEW b \in Held(l)
       PROVE  b \in Held(kv_state[s]) \/ \A t \in Seqs : b \notin Held(kv_state[t])
  <2>1. PICK i \in 1 .. Len(l.blocks) : b = l.blocks[i]
    BY <1>10 DEF Held
  <2>2. CASE i \in 1 .. N
    BY <1>8, <2>1, <2>2 DEF Held
  <2>3. CASE i \notin 1 .. N
    BY <1>5, <1>8, <2>1, <2>3, TakenAreFree
  <2> QED BY <2>2, <2>3
<1>11. ASSUME NEW x \in 1 .. l.kv
       PROVE  /\ BlockOf(x) <= Len(l.blocks) /\ x \in 1 .. kv_state[s].kv
              /\ l.blocks[BlockOf(x)] = B[BlockOf(x)]
  <2>1. x \in 1 .. kv_state[s].kv
    BY <1>7, <1>11
  <2>2. x \in Nat \ {0}
    BY <1>4, <2>1
  <2>3. BlockOf(x) \in Nat \ {0}
    BY <2>2, Position
  <2>4. BlockOf(x) <= N
    BY <2>1 DEF ContentInv, CachedHas
  <2> QED BY <1>4, <1>8, <2>1, <2>3, <2>4
<1>12. ASSUME NEW x \in 1 .. batch'[s] PROVE BlockOf(x) <= Len(l.blocks)
  <2>1. x \in Nat \ {0} /\ x <= n
    BY <1>4, <1>9
  <2>2. n <= (N + M) * BlockSize
    BY <1>4, BatchRoom
  <2>3. N + M \in Nat /\ (N + M) * BlockSize \in Nat
    BY <1>4, BlockSizeAssumption
  <2> HIDE DEF N, M
  <2>4. x <= (N + M) * BlockSize
    BY <1>4, <2>1, <2>2, <2>3
  <2> QED BY <1>8, <2>1, <2>3, <2>4, BlockBound
<1>13. ASSUME NEW h \in Hashes
       PROVE  \/ pool'.node[h] \in {NoBlock, pool.node[h]}
              \/ \E i : /\ Hashable(s, i) /\ h = Hash(s, i)
                        /\ \/ pool'.node[h] = B[i] /\ i * BlockSize <= kv_state[s].kv
                           \/ pool'.node[h] = l.blocks[i] /\ i * BlockSize <= batch'[s]
  <2>1. LeafFields(p1)
    BY PublishedNodes
  <2> HIDE DEF p1
  <2>2. LeafFields(p2) /\ p2.node[h] \in {NoBlock, p1.node[h]}
    BY <2>1, NodesOf, IdsOf
  <2> HIDE DEF p2
  <2>3. LeafFields(p3) /\ p3.node = p2.node
    BY <2>2, NodesOf, IdsOf DEF Grow
  <2> HIDE DEF p3, to
  <2>4. \/ pool'.node[h] = p3.node[h]
        \/ \E i \in PublishedRange(k, to) : h = Hash(s, i) /\ pool'.node[h] = k.blocks[i]
    <3>1. pool' = publish_pool(p3, s, k, to)
      BY <1>3 DEF p3, p2, p1, k, to
    <3> QED BY <2>3, <3>1, PublishNodes
  <2>5. CASE pool'.node[h] = p3.node[h]
    <3>1. pool'.node[h] \in {NoBlock, p1.node[h]}
      BY <2>2, <2>3, <2>5
    <3>2. \/ p1.node[h] = pool.node[h]
          \/ \E i : /\ Hashable(s, i) /\ h = Hash(s, i) /\ p1.node[h] = B[i]
                    /\ i * BlockSize <= kv_state[s].kv
      BY PublishedNodes DEF p1
    <3> QED BY <3>1, <3>2
  <2>6. ASSUME NEW i \in PublishedRange(k, to), h = Hash(s, i), pool'.node[h] = k.blocks[i]
        PROVE  Hashable(s, i) /\ pool'.node[h] = l.blocks[i] /\ i * BlockSize <= batch'[s]
    <3>1. InBatchEnd(s, n) \in Nat /\ InBatchEnd(s, n) <= num_hash_blocks(Len(Text[s]))
      BY <1>4, PublishLimits
    <3>2. Len(k.blocks) \in Nat
      <4>1. N + M \in Nat
        BY <1>4
      <4> HIDE DEF N, M
      <4> QED BY <1>7, <1>8, <4>1
    <3>3. i \in Nat \ {0} /\ i <= to
      BY <3>2 DEF PublishedRange
    <3>4. use = "published" /\ to = InBatchEnd(s, n)
      BY <3>1, <3>3 DEF to
    <3>5. batch'[s] = n
      BY <1>9, <3>4
    <3>6. num_hash_blocks(Len(Text[s])) \in Nat
      BY NumHashBlocks, TextAssumption
    <3>7. Hashable(s, i)
      BY <3>1, <3>3, <3>4, <3>6 DEF Hashable
    <3>8. i * BlockSize <= InBatchEnd(s, n) * BlockSize
      BY <3>1, <3>3, <3>4, BlockSizeAssumption, MulMono
    <3>9. i * BlockSize \in Nat /\ InBatchEnd(s, n) * BlockSize \in Nat
      BY <3>1, <3>3, BlockSizeAssumption
    <3>10. InBatchEnd(s, n) * BlockSize <= n
      BY <1>4, BatchRoom
    <3>11. i * BlockSize <= n
      BY <1>4, <3>8, <3>9, <3>10
    <3> QED BY <1>7, <2>6, <3>5, <3>7, <3>11
  <2> QED BY <2>4, <2>5, <2>6
<1> QED BY <1>1, <1>7, <1>9, <1>10, <1>11, <1>12, <1>13 DEF HandlerStep, l

\* Dropping every evictable node changes no table and no slot.
LEMMA ResetContent ==
  ASSUME IInv, ContentInv, ResetPrefixCache
  PROVE  ContentInv'
<1>1. /\ pool' = evict(pool, Unshared(pool)) /\ kv_state' = kv_state
      /\ batch' = batch /\ data' = data
  BY DEF ResetPrefixCache
<1>2. LeafFields(pool)
  BY LeafHasFields DEF IInv, TypeOK
<1>3. \A h \in Hashes : pool'.node[h] \in {NoBlock, pool.node[h]}
  BY <1>1, <1>2, NodesOf
<1>4. SharedOnlyIfFiled(pool', kv_state')
  BY <1>1, HeldStaysFiled DEF ContentInv, SharedOnlyIfFiled, Next
<1>5. ASSUME NEW b, NEW j, NEW v PROVE Has(b, j, v)' <=> Has(b, j, v)
  BY <1>1 DEF Has, SlotValues, Writes
<1>6. ASSUME NEW s \in Seqs, NEW x \in 1 .. kv_state'[s].kv PROVE CachedHas(s, x)'
  <2>1. CachedHas(s, x)
    BY <1>1 DEF ContentInv
  <2> QED BY <1>1, <1>5, <2>1 DEF CachedHas
<1>7. ASSUME NEW s \in Seqs, NEW i, Hashable(s, i) PROVE FiledHas(s, i)'
  <2>1. FiledHas(s, i)
    BY <1>7 DEF ContentInv
  <2>2. PICK c : c = pool'.node[Hash(s, i)]
    OBVIOUS
  <2>3. c = NoBlock \/ c = pool.node[Hash(s, i)]
    BY <1>3, <1>7, <2>2, HashType
  <2>4. c # NoBlock => \A j \in 1 .. BlockSize : Has(c, j, KvOf(s, (i - 1) * BlockSize + j))'
    BY <1>5, <2>1, <2>3 DEF FiledHas
  <2> QED BY <2>2, <2>4 DEF FiledHas
<1>8. \A s \in Seqs : \A x \in 1 .. batch'[s] : BlockOf(x) <= Len(kv_state'[s].blocks)
  BY <1>1 DEF ContentInv
<1> QED BY <1>4, <1>6, <1>7, <1>8 DEF ContentInv

\* At start nothing is cached, filed or scheduled.
LEMMA InitContent == Init => ContentInv
<1> SUFFICES ASSUME Init PROVE ContentInv
  OBVIOUS
<1>1. \A s \in Seqs : kv_state[s] = EmptyKv /\ batch[s] = 0
  BY DEF Init
<1>2. \A h \in Hashes : pool.node[h] = NoBlock
  BY DEF Init, NewLeaf
<1>3. \A s \in Seqs : Held(kv_state[s]) = {} /\ kv_state[s].kv = 0
  BY <1>1 DEF Held, EmptyKv
<1>4. \A s \in Seqs : \A i : Hashable(s, i) => FiledHas(s, i)
  BY <1>2, HashType DEF FiledHas
<1>5. SharedOnlyIfFiled(pool, kv_state)
  BY <1>3 DEF SharedOnlyIfFiled
<1>6. ASSUME NEW s \in Seqs
      PROVE  1 .. batch[s] = {} /\ 1 .. kv_state[s].kv = {}
  <2>1. 1 .. 0 = {}
    OBVIOUS
  <2> QED BY <1>1, <1>3, <2>1
<1> HIDE DEF Init
<1> QED BY <1>4, <1>5, <1>6 DEF ContentInv

LEMMA NextContent == IInv /\ ContentInv /\ [Next]_vars => ContentInv'
<1> SUFFICES ASSUME IInv, ContentInv, [Next]_vars PROVE ContentInv'
  OBVIOUS
<1>1. CASE Next
  <2>1. ASSUME NEW s \in Seqs,
               \/ allocate_shared(s) \/ Allocate(s) \/ AllocateFails(s)
               \/ Cache(s) \/ Preempt(s) \/ Finish(s)
        PROVE  ContentInv'
    <3>1. HandlerStep(s)
      BY <2>1, MountStep, AllocateStep, PublishOnlySteps
    <3> QED BY <1>1, <3>1, HandlerContent
  <2> QED BY <1>1, <2>1, ForwardContent, ResetContent DEF Next
<1>2. CASE UNCHANGED vars
  BY <1>2 DEF vars, ContentInv, SharedOnlyIfFiled, CachedHas, FiledHas, Has, SlotValues, Writes
<1> QED BY <1>1, <1>2

\* The content of the cache: at every step each slot a table or a cache node
\* relies on holds the KV it stands for, or the forward pass being assembled
\* writes it.
THEOREM ContentInvariance == Spec => [](IInv /\ ContentInv)
<1>1. Init => IInv /\ ContentInv
  BY InitInv, InitContent
<1>2. IInv /\ ContentInv /\ [Next]_vars => (IInv /\ ContentInv)'
  BY NextInv, NextContent
<1> QED BY <1>1, <1>2, PTL DEF Spec

\* No sequence ever attends to KV that is not that of its own tokens: every
\* position counted in kv_cache_tokens_num has a block in the table, and after
\* the forward pass being assembled that block holds the KV of the sequence's
\* own tokens, whatever mix of prefix hits, chunked-prefill replacement,
\* in-batch sharing, eviction and preemption led there.
THEOREM CachedKvAlwaysOwn == Spec => []CachedKvIsOwn
<1>1. IInv /\ ContentInv => CachedKvIsOwn
  <2> SUFFICES ASSUME IInv, ContentInv, NEW s \in Seqs, NEW x \in 1 .. kv_state[s].kv
               PROVE  /\ BlockOf(x) <= Len(kv_state[s].blocks)
                      /\ Executed[kv_state[s].blocks[BlockOf(x)]][SlotOf(x)] = KvOf(s, x)
    BY DEF CachedKvIsOwn
  <2>1. x \in Nat \ {0} /\ Len(kv_state[s].blocks) \in Nat
    BY TableFacts DEF IInv
  <2>2. BlockOf(x) \in 1 .. Len(kv_state[s].blocks)
        /\ Executed[kv_state[s].blocks[BlockOf(x)]][SlotOf(x)] = KvOf(s, x)
    BY <2>1, CachedExecuted
  <2> QED BY <2>1, <2>2
<1> QED BY <1>1, ContentInvariance, PTL

\* A prefix-cache node is never filed under a hash its KV does not match: the
\* block under the hash of the first i blocks of a text holds, after the forward
\* pass being assembled, the KV of block i of that text, including the blocks
\* cache_in_batch_prefix() files before anything has written them.
THEOREM FiledKvAlwaysMatches == Spec => []FiledKvMatchesHash
<1>1. IInv /\ ContentInv => FiledKvMatchesHash
  <2> SUFFICES ASSUME IInv, ContentInv, NEW s \in Seqs,
                      NEW i \in 1 .. num_hash_blocks(Len(Text[s])),
                      pool.node[Hash(s, i)] # NoBlock, NEW j \in 1 .. BlockSize
               PROVE  Executed[pool.node[Hash(s, i)]][j] = KvOf(s, (i - 1) * BlockSize + j)
    BY DEF FiledKvMatchesHash
  <2> QED BY FiledExecuted DEF Hashable
<1> QED BY <1>1, ContentInvariance, PTL

\* Two sequences of one batch never write different KV to the same slot of a
\* block they share.
THEOREM SharedWritesAlwaysAgree == Spec => []SharedWritesAgree
<1>1. IInv /\ ContentInv => SharedWritesAgree
  <2> SUFFICES ASSUME IInv, ContentInv, NEW b \in Blocks, NEW j \in 1 .. BlockSize
               PROVE  Cardinality(SlotValues(b, j)) <= 1
    BY DEF SharedWritesAgree
  <2>1. ASSUME NEW v \in SlotValues(b, j), NEW w \in SlotValues(b, j) PROVE w = v
    <3>1. PICK t \in Seqs : \E y \in Nat \ {0} :
             /\ y \in Writes(t) /\ SlotOf(y) = j /\ BlockOf(y) \in 1 .. Len(kv_state[t].blocks)
             /\ kv_state[t].blocks[BlockOf(y)] = b /\ v = KvOf(t, y)
      BY WriteFacts
    <3>2. PICK y \in Nat \ {0} :
             /\ y \in Writes(t) /\ SlotOf(y) = j /\ BlockOf(y) \in 1 .. Len(kv_state[t].blocks)
             /\ kv_state[t].blocks[BlockOf(y)] = b /\ v = KvOf(t, y)
      BY <3>1
    <3>3. BlockOf(y) <= Len(kv_state[t].blocks)
      <4>1. Len(kv_state[t].blocks) \in Nat
        BY TableFacts DEF IInv
      <4> QED BY <3>2, <4>1
    <3>4. w = KvOf(t, y)
      BY <3>2, <3>3, TableAgrees
    <3> QED BY <3>2, <3>4
  <2>2. CASE SlotValues(b, j) = {}
    BY <2>2, FS_EmptySet
  <2>3. CASE SlotValues(b, j) # {}
    <3>1. PICK v : v \in SlotValues(b, j)
      BY <2>3
    <3>2. SlotValues(b, j) = {v}
      BY <2>1, <3>1
    <3>3. Cardinality({v}) = 1
      BY FS_Singleton
    <3> QED BY <3>2, <3>3
  <2> QED BY <2>2, <2>3
<1> QED BY <1>1, ContentInvariance, PTL
=============================================================================
