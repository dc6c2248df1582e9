----------------------- MODULE BlockManagerImplProofs -----------------------
(***************************************************************************)
(* What each operation of a leaf does to its books, for every leaf and     *)
(* every caller.  LeafInv relates a leaf to cnt, the number of aliases of  *)
(* each block that live outside the prefix cache.                          *)
(***************************************************************************)
EXTENDS BlockManagerImpl, FiniteSetTheorems, TLAPS

FiledOnce(p) ==
  /\ p.ids = {b \in Blocks : \E h \in Hashes : p.node[h] = b}
  /\ \A g, h \in Hashes : p.node[g] = p.node[h] /\ p.node[g] # NoBlock => g = h

LeafInv(p, cnt) ==
  /\ p \in LeafType
  /\ cnt \in [Blocks -> Nat]
  /\ p.ok
  /\ \A b \in Blocks : p.ref[b] = cnt[b] + (IF b \in p.ids THEN 1 ELSE 0)
  /\ p.free = {b \in Blocks : p.ref[b] = 0}
  /\ p.used = Blocks \ p.free
  /\ FiledOnce(p)
  /\ p.evictable = Cardinality(Unshared(p))

Plus1(cnt, B)  == [b \in Blocks |-> IF b \in B THEN cnt[b] + 1 ELSE cnt[b]]
Minus1(cnt, B) == [b \in Blocks |-> IF b \in B THEN cnt[b] - 1 ELSE cnt[b]]

\* Residents nobody else holds form a finite set: its size is a number.
LEMMA UnsharedFinite ==
  ASSUME NEW p, p \in LeafType
  PROVE  /\ IsFiniteSet(Unshared(p)) /\ Cardinality(Unshared(p)) \in Nat
         /\ \A S : S \subseteq Unshared(p) =>
              IsFiniteSet(S) /\ Cardinality(S) \in Nat
<1>1. Unshared(p) \subseteq Blocks
  BY DEF Unshared, LeafType
<1> QED
  BY <1>1, BlocksAssumption, FS_Subset, FS_CardinalityType

\* A new leaf has consistent books.
LEMMA NewLeafInv == LeafInv(NewLeaf, [b \in Blocks |-> 0])
<1>1. Unshared(NewLeaf) = {}
  BY DEF Unshared, NewLeaf
<1>2. Cardinality({}) = 0
  BY FS_EmptySet
<1>3. NewLeaf \in LeafType
  BY DEF NewLeaf, LeafType
<1>4. FiledOnce(NewLeaf)
  BY BlocksAssumption DEF NewLeaf, FiledOnce
<1>5. \A b \in Blocks : NewLeaf.ref[b] = 0 + (IF b \in NewLeaf.ids THEN 1 ELSE 0)
  BY DEF NewLeaf
<1>6. /\ NewLeaf.free = {b \in Blocks : NewLeaf.ref[b] = 0}
      /\ NewLeaf.used = Blocks \ NewLeaf.free
      /\ NewLeaf.evictable = 0 /\ NewLeaf.ok
  BY DEF NewLeaf
<1> QED
  BY <1>1, <1>2, <1>3, <1>4, <1>5, <1>6 DEF LeafInv

\* allocate() of free blocks gives each its first alias.
LEMMA AllocateLeaf ==
  ASSUME NEW p, NEW cnt, LeafInv(p, cnt), NEW B, B \subseteq p.free
  PROVE  LeafInv(allocate(p, B), Plus1(cnt, B))
<1> DEFINE q == allocate(p, B)
<1>1. /\ q.free = p.free \ B /\ q.used = p.used \cup B /\ q.node = p.node
      /\ q.ids = p.ids /\ q.evictable = p.evictable
      /\ q.ok = (p.ok /\ B \subseteq p.free /\ B \cap p.used = {})
      /\ q.ref = [b \in Blocks |-> IF b \in B THEN 1 ELSE p.ref[b]]
  BY DEF allocate, LeafInv, LeafType
<1>2. /\ p.ids \subseteq Blocks /\ p.free \subseteq Blocks /\ p.used \subseteq Blocks
      /\ p.ref \in [Blocks -> Nat]
  BY DEF LeafInv, LeafType
<1>3. \A b \in B : p.ref[b] = 0 /\ b \in Blocks /\ b \notin p.ids /\ cnt[b] = 0
  BY <1>2 DEF LeafInv
<1>4. q.ok
  BY <1>1 DEF LeafInv
<1>5. Unshared(q) = Unshared(p)
  BY <1>1, <1>2, <1>3 DEF Unshared
<1>6. q \in LeafType
  BY <1>1, <1>2, <1>4 DEF LeafInv, LeafType, allocate
<1>7. FiledOnce(q)
  BY <1>1 DEF LeafInv, FiledOnce
<1>8. \A b \in Blocks : q.ref[b] = Plus1(cnt, B)[b] + (IF b \in q.ids THEN 1 ELSE 0)
  BY <1>1, <1>2, <1>3 DEF LeafInv, Plus1
<1>9. q.free = {b \in Blocks : q.ref[b] = 0} /\ q.used = Blocks \ q.free
  BY <1>1, <1>2, <1>3 DEF LeafInv
<1>10. Plus1(cnt, B) \in [Blocks -> Nat]
  BY DEF Plus1, LeafInv
<1> QED
  BY <1>1, <1>4, <1>5, <1>6, <1>7, <1>8, <1>9, <1>10 DEF LeafInv

\* free() destroys one outside alias of each block of B.
LEMMA FreeLeaf ==
  ASSUME NEW p, NEW cnt, LeafInv(p, cnt), NEW B, B \subseteq Blocks,
         \A b \in B : cnt[b] >= 1
  PROVE  LeafInv(free(p, B), Minus1(cnt, B))
<1> DEFINE ref1 == [b \in Blocks |-> IF b \in B THEN p.ref[b] - 1 ELSE p.ref[b]]
           dead == {b \in B : ref1[b] = 0}
           regained == {b \in B \cap p.ids : ref1[b] = 1}
           q == free(p, B)
<1>1. /\ q.free = p.free \cup dead /\ q.used = p.used \ dead /\ q.node = p.node
      /\ q.ids = p.ids /\ q.evictable = p.evictable + Cardinality(regained)
      /\ q.ok = (p.ok /\ dead \cap p.ids = {} /\ dead \subseteq p.used
                      /\ dead \cap p.free = {})
      /\ q.ref = ref1
  BY DEF free, LeafInv, LeafType
<1>2. /\ p.ids \subseteq Blocks /\ p.free \subseteq Blocks /\ p.used \subseteq Blocks
      /\ p.ref \in [Blocks -> Nat] /\ cnt \in [Blocks -> Nat]
  BY DEF LeafInv, LeafType
<1>3. \A b \in B : p.ref[b] = cnt[b] + (IF b \in p.ids THEN 1 ELSE 0) /\ cnt[b] >= 1
                   /\ b \in p.used /\ b \notin p.free
  BY <1>2 DEF LeafInv
<1>4. /\ \A b \in dead : b \notin p.ids
      /\ \A b \in B : b \in p.ids => p.ref[b] >= 2
  BY <1>2, <1>3
<1>5. q.ok
  BY <1>1, <1>3, <1>4 DEF LeafInv
<1>6. Unshared(q) = Unshared(p) \cup regained /\ Unshared(p) \cap regained = {}
  BY <1>1, <1>2, <1>4 DEF Unshared
<1>7. IsFiniteSet(regained) /\ Cardinality(regained) \in Nat
  BY <1>2, BlocksAssumption, FS_Subset, FS_CardinalityType
<1>8. q.evictable = Cardinality(Unshared(q)) /\ q.evictable \in Nat
  <2>1. IsFiniteSet(Unshared(p)) /\ Cardinality(Unshared(p)) \in Nat
    BY UnsharedFinite DEF LeafInv
  <2>2. Cardinality(Unshared(p) \cap regained) = 0
    BY <1>6, FS_EmptySet
  <2>3. Cardinality(Unshared(p) \cup regained)
          = Cardinality(Unshared(p)) + Cardinality(regained)
            - Cardinality(Unshared(p) \cap regained)
    BY <1>7, <2>1, FS_Union
  <2> HIDE DEF regained
  <2> QED
    BY <1>1, <1>6, <1>7, <2>1, <2>2, <2>3 DEF LeafInv
<1>9. q \in LeafType
  <2>1. ref1 \in [Blocks -> Nat]
    BY <1>2, <1>3
  <2>2. q.free \subseteq Blocks /\ q.used \subseteq Blocks /\ q.ok \in BOOLEAN
    BY <1>1, <1>2, <1>5
  <2> QED
    BY <1>1, <1>2, <1>8, <2>1, <2>2 DEF LeafInv, LeafType, free
<1>10. FiledOnce(q)
  BY <1>1 DEF LeafInv, FiledOnce
<1>11. \A b \in Blocks : q.ref[b] = Minus1(cnt, B)[b] + (IF b \in q.ids THEN 1 ELSE 0)
  BY <1>1, <1>2, <1>3 DEF LeafInv, Minus1
<1>12. q.free = {b \in Blocks : q.ref[b] = 0} /\ q.used = Blocks \ q.free
  BY <1>1, <1>2, <1>3 DEF LeafInv
<1>13. Minus1(cnt, B) \in [Blocks -> Nat]
  BY <1>2, <1>3 DEF Minus1
<1> QED
  BY <1>1, <1>5, <1>8, <1>9, <1>10, <1>11, <1>12, <1>13 DEF LeafInv

\* claim(): a prefix hit adds one outside alias to every node's block it hits.
LEMMA ClaimLeaf ==
  ASSUME NEW p, NEW cnt, LeafInv(p, cnt), NEW H, H \subseteq Resident(p)
  PROVE  LeafInv(claim(p, H), Plus1(cnt, NodeBlocks(p, H)))
<1> DEFINE B == NodeBlocks(p, H)
           S == {b \in B : p.ref[b] = 1}
           q == claim(p, H)
<1>1. /\ q.free = p.free /\ q.used = p.used /\ q.node = p.node /\ q.ids = p.ids
      /\ q.ok = p.ok
      /\ q.evictable = release_evictable_slot(p.evictable, Cardinality(S))
      /\ q.ref = [b \in Blocks |-> IF b \in B THEN p.ref[b] + 1 ELSE p.ref[b]]
  BY DEF claim, LeafInv, LeafType
<1>2. /\ p.ids \subseteq Blocks /\ p.free \subseteq Blocks /\ p.used \subseteq Blocks
      /\ p.ref \in [Blocks -> Nat] /\ cnt \in [Blocks -> Nat]
      /\ p.node \in [Hashes -> Blocks \cup {NoBlock}] /\ p.evictable \in Nat
  BY DEF LeafInv, LeafType
<1>3. B \subseteq p.ids
  BY <1>2 DEF LeafInv, FiledOnce, NodeBlocks, Resident
<1>4. \A b \in p.ids : p.ref[b] = cnt[b] + 1 /\ p.ref[b] >= 1
  BY <1>2 DEF LeafInv
<1> HIDE DEF B
<1>5. S \subseteq Unshared(p) /\ Unshared(q) = Unshared(p) \ S
  BY <1>1, <1>2, <1>3, <1>4 DEF Unshared
<1> HIDE DEF S
<1>6. q.evictable = Cardinality(Unshared(q)) /\ q.evictable \in Nat
  <2>1. /\ IsFiniteSet(Unshared(p)) /\ Cardinality(Unshared(p)) \in Nat
        /\ IsFiniteSet(S) /\ Cardinality(S) \in Nat
    BY <1>5, UnsharedFinite DEF LeafInv
  <2>2. Cardinality(S) <= Cardinality(Unshared(p))
    BY <1>5, <2>1, FS_Subset
  <2>3. Cardinality(Unshared(p) \ S)
          = Cardinality(Unshared(p)) - Cardinality(Unshared(p) \cap S)
    BY <2>1, FS_Difference
  <2>4. Unshared(p) \cap S = S
    BY <1>5
  <2>5. p.evictable = Cardinality(Unshared(p))
    BY DEF LeafInv
  <2>6. q.evictable = p.evictable - Cardinality(S)
    BY <1>1, <2>1, <2>2, <2>5 DEF release_evictable_slot
  <2> QED
    BY <1>5, <2>1, <2>2, <2>3, <2>4, <2>5, <2>6
<1>7. q \in LeafType
  <2> DEFINE e == q.evictable
             f == q.ref
  <2>1. q = [p EXCEPT !.evictable = e, !.ref = f]
    BY <1>1 DEF claim, LeafInv, LeafType, B, S
  <2>2. e \in Nat /\ f \in [Blocks -> Nat]
    BY <1>1, <1>2, <1>6
  <2> HIDE DEF q, e, f
  <2> QED
    BY <2>1, <2>2 DEF LeafInv, LeafType
<1>8. FiledOnce(q)
  BY <1>1 DEF LeafInv, FiledOnce
<1>9. \A b \in Blocks : q.ref[b] = Plus1(cnt, B)[b] + (IF b \in q.ids THEN 1 ELSE 0)
  BY <1>1, <1>2, <1>3 DEF LeafInv, Plus1
<1>10. q.free = {b \in Blocks : q.ref[b] = 0} /\ q.used = Blocks \ q.free
  BY <1>1, <1>2, <1>3, <1>4 DEF LeafInv
<1>11. Plus1(cnt, B) \in [Blocks -> Nat]
  BY <1>2 DEF Plus1
<1>12. q.ok
  BY <1>1 DEF LeafInv
<1> QED
  BY <1>6, <1>7, <1>8, <1>9, <1>10, <1>11, <1>12 DEF LeafInv, B

\* What a published range must be: pairs of distinct hashes and distinct
\* blocks; a block it would newly file is held outside and not filed yet.
Publishable(p, cnt, pub) ==
  /\ pub \subseteq Hashes \X Blocks
  /\ \A x, y \in pub : x[1] = y[1] => x = y
  /\ \A x, y \in pub : x[2] = y[2] => x = y
  /\ \A x \in pub : p.node[x[1]] = NoBlock => x[2] \notin p.ids /\ cnt[x[2]] >= 1

\* The blocks and the nodes a publish leaves behind.
LEMMA InsertNodes ==
  ASSUME NEW p, NEW cnt, LeafInv(p, cnt), NEW pub, Publishable(p, cnt, pub)
  PROVE  LET fresh == {x \in pub : p.node[x[1]] = NoBlock}
             q == insert(p, pub)
         IN  /\ \A h \in Hashes : p.node[h] # NoBlock => q.node[h] = p.node[h]
             /\ \A x \in fresh : q.node[x[1]] = x[2]
             /\ \A h \in Hashes : p.node[h] = NoBlock =>
                  \/ q.node[h] = NoBlock
                  \/ \E x \in fresh : x[1] = h /\ q.node[h] = x[2]
             /\ q.ids = p.ids \cup {x[2] : x \in fresh}
             /\ q.node \in [Hashes -> Blocks \cup {NoBlock}]
             /\ q.free = p.free /\ q.used = p.used /\ q.evictable = p.evictable
             /\ q.ok = p.ok
             /\ q.ref = [b \in Blocks |-> IF b \in {x[2] : x \in fresh}
                                            THEN p.ref[b] + 1 ELSE p.ref[b]]
<1> DEFINE fresh == {x \in pub : p.node[x[1]] = NoBlock}
           B == {x[2] : x \in fresh}
           q == insert(p, pub)
<1>1. /\ q.free = p.free /\ q.used = p.used /\ q.evictable = p.evictable
      /\ q.ids = p.ids \cup B
      /\ q.node = [h \in Hashes |-> IF \E x \in fresh : x[1] = h
                                      THEN (CHOOSE x \in fresh : x[1] = h)[2]
                                      ELSE p.node[h]]
      /\ q.ok = (p.ok /\ B \cap p.ids = {}
                      /\ \A x, y \in fresh : x[2] = y[2] => x = y)
      /\ q.ref = [b \in Blocks |-> IF b \in B THEN p.ref[b] + 1 ELSE p.ref[b]]
  BY DEF insert, LeafInv, LeafType
<1>2. \A x \in fresh : /\ x[1] \in Hashes /\ x[2] \in Blocks /\ x[2] \notin p.ids
                         /\ p.node[x[1]] = NoBlock
                         /\ (CHOOSE y \in fresh : y[1] = x[1]) = x
  BY DEF Publishable
<1>3. \A x, y \in fresh : x[2] = y[2] => x = y
  BY DEF Publishable
<1>4. q.ok = p.ok
  <2>1. B \cap p.ids = {}
    BY <1>2
  <2> HIDE DEF fresh, B, q
  <2>2. p.ok \in BOOLEAN /\ p.ok
    BY DEF LeafInv, LeafType
  <2> QED
    BY <1>1, <1>3, <2>1, <2>2
<1>5. p.node \in [Hashes -> Blocks \cup {NoBlock}]
  BY DEF LeafInv, LeafType
<1> HIDE DEF fresh, q
<1>6. \A h \in Hashes : q.node[h] = IF \E x \in fresh : x[1] = h
                                      THEN (CHOOSE x \in fresh : x[1] = h)[2]
                                      ELSE p.node[h]
  BY <1>1
<1>7. \A x \in fresh : q.node[x[1]] = x[2]
  BY <1>2, <1>6
<1>8. \A h \in Hashes : (\E x \in fresh : x[1] = h) \/ q.node[h] = p.node[h]
  BY <1>6
<1>9. /\ \A h \in Hashes : p.node[h] # NoBlock => q.node[h] = p.node[h]
      /\ \A h \in Hashes : p.node[h] = NoBlock =>
           \/ q.node[h] = NoBlock
           \/ \E x \in fresh : x[1] = h /\ q.node[h] = x[2]
  BY <1>2, <1>7, <1>8
<1>10. q.node \in [Hashes -> Blocks \cup {NoBlock}]
  <2>1. \A h \in Hashes : q.node[h] \in Blocks \cup {NoBlock}
    BY <1>2, <1>5, <1>9
  <2> QED
    BY <1>1, <2>1
<1> QED
  BY <1>1, <1>4, <1>7, <1>9, <1>10 DEF fresh, q

\* The same, one pair of the published range at a time.
LEMMA InsertFiled ==
  ASSUME NEW p, NEW cnt, LeafInv(p, cnt), NEW pub, Publishable(p, cnt, pub)
  PROVE  /\ \A h \in Hashes : p.node[h] # NoBlock => insert(p, pub).node[h] = p.node[h]
         /\ p.ids \subseteq insert(p, pub).ids
         /\ \A b \in insert(p, pub).ids : b \in p.ids \/
              \E x \in pub : b = x[2] /\ insert(p, pub).node[x[1]] = b
<1> DEFINE fresh == {x \in pub : p.node[x[1]] = NoBlock}
           B == {x[2] : x \in fresh}
           q == insert(p, pub)
<1>1. /\ q.free = p.free /\ q.used = p.used /\ q.evictable = p.evictable
      /\ q.ids = p.ids \cup B /\ q.ok = p.ok
      /\ q.node \in [Hashes -> Blocks \cup {NoBlock}]
      /\ q.ref = [b \in Blocks |-> IF b \in B THEN p.ref[b] + 1 ELSE p.ref[b]]
      /\ \A h \in Hashes : p.node[h] # NoBlock => q.node[h] = p.node[h]
      /\ \A x \in fresh : q.node[x[1]] = x[2]
      /\ \A h \in Hashes : p.node[h] = NoBlock =>
           q.node[h] = NoBlock \/ \E x \in fresh : x[1] = h /\ q.node[h] = x[2]
  BY InsertNodes
<1>2. \A b \in B : \E x \in pub : b = x[2] /\ x \in fresh
  OBVIOUS
<1> HIDE DEF q, B, fresh
<1>3. \A b \in B : \E x \in pub : b = x[2] /\ q.node[x[1]] = b
  BY <1>1, <1>2
<1>4. p.ids \subseteq q.ids /\ \A b \in q.ids : b \in p.ids \/ b \in B
  BY <1>1
<1> QED
  BY <1>1, <1>3, <1>4 DEF q

\* insert() keeps the books: the outside aliases stay as they are.
LEMMA InsertLeaf ==
  ASSUME NEW p, NEW cnt, LeafInv(p, cnt), NEW pub, Publishable(p, cnt, pub)
  PROVE  LeafInv(insert(p, pub), cnt)
<1> DEFINE fresh == {x \in pub : p.node[x[1]] = NoBlock}
           B == {x[2] : x \in fresh}
           q == insert(p, pub)
<1>1. /\ q.free = p.free /\ q.used = p.used /\ q.evictable = p.evictable
      /\ q.ids = p.ids \cup B /\ q.ok = p.ok
      /\ q.node \in [Hashes -> Blocks \cup {NoBlock}]
      /\ q.ref = [b \in Blocks |-> IF b \in B THEN p.ref[b] + 1 ELSE p.ref[b]]
      /\ \A h \in Hashes : p.node[h] # NoBlock => q.node[h] = p.node[h]
      /\ \A x \in fresh : q.node[x[1]] = x[2]
      /\ \A h \in Hashes : p.node[h] = NoBlock =>
           q.node[h] = NoBlock \/ \E x \in fresh : x[1] = h /\ q.node[h] = x[2]
  BY InsertNodes
<1>2. /\ p.ids \subseteq Blocks /\ p.free \subseteq Blocks /\ p.used \subseteq Blocks
      /\ p.ref \in [Blocks -> Nat] /\ cnt \in [Blocks -> Nat]
      /\ p.node \in [Hashes -> Blocks \cup {NoBlock}] /\ p.evictable \in Nat
  BY DEF LeafInv, LeafType
<1>3. \A x \in fresh : /\ x[1] \in Hashes /\ x[2] \in Blocks /\ x[2] \notin p.ids
                         /\ p.node[x[1]] = NoBlock /\ cnt[x[2]] >= 1
  BY DEF Publishable
<1>4. \A x, y \in fresh : x[2] = y[2] => x = y
  BY DEF Publishable
<1>5. \A b \in B : b \in Blocks /\ b \notin p.ids /\ cnt[b] >= 1 /\ p.ref[b] = cnt[b]
  BY <1>2, <1>3 DEF LeafInv
<1>6. \A b \in Blocks : q.ref[b] = cnt[b] + (IF b \in q.ids THEN 1 ELSE 0)
  BY <1>1, <1>2, <1>5 DEF LeafInv
<1>7. Unshared(q) = Unshared(p)
  <2> HIDE DEF B, q
  <2> QED
    BY <1>1, <1>2, <1>5 DEF Unshared
<1>8. q.free = {b \in Blocks : q.ref[b] = 0} /\ q.used = Blocks \ q.free
  <2> HIDE DEF B, q
  <2> QED
    BY <1>1, <1>2, <1>5 DEF LeafInv
<1>9. FiledOnce(q)
  <2> HIDE DEF fresh, q
  <2>1. q.ids = {b \in Blocks : \E h \in Hashes : q.node[h] = b}
    <3>1. \A b \in q.ids : b \in Blocks /\ \E h \in Hashes : q.node[h] = b
      <4>1. \A b \in p.ids : \E h \in Hashes : p.node[h] = b
        BY DEF LeafInv, FiledOnce
      <4> QED
        BY <1>1, <1>2, <1>3, <4>1, BlocksAssumption
    <3>2. \A b \in Blocks, h \in Hashes : q.node[h] = b => b \in q.ids
      <4>1. \A b \in Blocks, h \in Hashes : p.node[h] = b => b \in p.ids
        BY DEF LeafInv, FiledOnce
      <4> QED
        BY <1>1, <1>2, <4>1, BlocksAssumption
    <3> QED
      BY <3>1, <3>2
  <2>2. \A g, h \in Hashes : q.node[g] = q.node[h] /\ q.node[g] # NoBlock => g = h
    <3> SUFFICES ASSUME NEW g \in Hashes, NEW h \in Hashes,
                        q.node[g] = q.node[h], q.node[g] # NoBlock
                 PROVE  g = h
      OBVIOUS
    <3>1. \A b \in Blocks, k \in Hashes : p.node[k] = b => b \in p.ids
      BY DEF LeafInv, FiledOnce
    <3>2. CASE p.node[g] # NoBlock /\ p.node[h] # NoBlock
      BY <1>1, <3>2 DEF LeafInv, FiledOnce
    <3>3. CASE p.node[g] = NoBlock /\ p.node[h] = NoBlock
      BY <1>1, <1>4, <3>3
    <3>4. CASE p.node[g] # NoBlock /\ p.node[h] = NoBlock
      BY <1>1, <1>2, <1>3, <3>1, <3>4
    <3>5. CASE p.node[g] = NoBlock /\ p.node[h] # NoBlock
      BY <1>1, <1>2, <1>3, <3>1, <3>5
    <3> QED
      BY <3>2, <3>3, <3>4, <3>5
  <2> QED
    BY <2>1, <2>2 DEF FiledOnce
<1>10. q \in LeafType
  <2> DEFINE o == q.ok
             n == q.node
             i == q.ids
             f == q.ref
  <2>1. q = [p EXCEPT !.ok = o, !.node = n, !.ids = i, !.ref = f]
    BY DEF insert, LeafInv, LeafType
  <2>2. /\ o \in BOOLEAN /\ n \in [Hashes -> Blocks \cup {NoBlock}]
        /\ i \subseteq Blocks /\ f \in [Blocks -> Nat]
    <3>1. p.ok \in BOOLEAN
      BY DEF LeafInv, LeafType
    <3> HIDE DEF q, B
    <3> QED
      BY <1>1, <1>2, <1>5, <3>1
  <2> HIDE DEF q, o, n, i, f
  <2> QED
    BY <2>1, <2>2 DEF LeafInv, LeafType
<1> QED
  BY <1>1, <1>2, <1>6, <1>7, <1>8, <1>9, <1>10 DEF LeafInv

\* evict() of residents nobody else holds: they leave the cache and are free.
LEMMA EvictLeaf ==
  ASSUME NEW p, NEW cnt, LeafInv(p, cnt), NEW B, B \subseteq Unshared(p)
  PROVE  /\ LeafInv(evict(p, B), cnt)
         /\ evict(p, B).ids = p.ids \ B
         /\ \A h \in Hashes : evict(p, B).node[h] =
                               IF p.node[h] \in B THEN NoBlock ELSE p.node[h]
<1> DEFINE r == [p EXCEPT !.node = [h \in Hashes |->
                             IF p.node[h] \in B THEN NoBlock ELSE p.node[h]],
                          !.ids  = @ \ B,
                          !.evictable = release_evictable_slot(@, Cardinality(B))]
<1>1. /\ r.free = p.free /\ r.used = p.used /\ r.ref = p.ref /\ r.ok = p.ok
      /\ r.ids = p.ids \ B
      /\ r.evictable = release_evictable_slot(p.evictable, Cardinality(B))
      /\ r.node = [h \in Hashes |-> IF p.node[h] \in B THEN NoBlock ELSE p.node[h]]
  BY DEF LeafInv, LeafType
<1>2. /\ p.ids \subseteq Blocks /\ p.free \subseteq Blocks /\ p.used \subseteq Blocks
      /\ p.ref \in [Blocks -> Nat] /\ cnt \in [Blocks -> Nat]
      /\ p.node \in [Hashes -> Blocks \cup {NoBlock}] /\ p.evictable \in Nat
  BY DEF LeafInv, LeafType
<1>3. \A b \in B : b \in p.ids /\ b \in Blocks /\ cnt[b] = 0
  BY <1>2 DEF Unshared, LeafInv
<1>4. Unshared(r) = Unshared(p) \ B
  BY <1>1 DEF Unshared
<1>5. r.evictable = Cardinality(Unshared(r)) /\ r.evictable \in Nat
  <2>1. /\ IsFiniteSet(Unshared(p)) /\ Cardinality(Unshared(p)) \in Nat
        /\ IsFiniteSet(B) /\ Cardinality(B) \in Nat
    BY UnsharedFinite DEF LeafInv
  <2>2. Cardinality(B) <= Cardinality(Unshared(p))
    BY <2>1, FS_Subset
  <2>3. Cardinality(Unshared(p) \ B)
          = Cardinality(Unshared(p)) - Cardinality(Unshared(p) \cap B)
    BY <2>1, FS_Difference
  <2>4. Unshared(p) \cap B = B
    OBVIOUS
  <2>5. p.evictable = Cardinality(Unshared(p))
    BY DEF LeafInv
  <2>6. r.evictable = p.evictable - Cardinality(B)
    BY <1>1, <2>1, <2>2, <2>5 DEF release_evictable_slot
  <2> HIDE DEF r
  <2>7. Cardinality(Unshared(r)) = Cardinality(Unshared(p)) - Cardinality(B)
    BY <1>4, <2>3, <2>4
  <2> QED
    BY <2>1, <2>2, <2>5, <2>6, <2>7
<1>6. r \in LeafType
  BY <1>1, <1>2, <1>5 DEF LeafInv, LeafType
<1> HIDE DEF r
<1>7. FiledOnce(r)
  BY <1>1, <1>2, BlocksAssumption DEF LeafInv, FiledOnce
<1>8. LeafInv(r, Plus1(cnt, B))
  <2>1. \A b \in Blocks : r.ref[b] = Plus1(cnt, B)[b] + (IF b \in r.ids THEN 1 ELSE 0)
    BY <1>1, <1>2, <1>3 DEF LeafInv, Plus1
  <2>2. Plus1(cnt, B) \in [Blocks -> Nat]
    BY <1>2 DEF Plus1
  <2> QED
    BY <1>1, <1>5, <1>6, <1>7, <2>1, <2>2 DEF LeafInv
<1>9. /\ B \subseteq Blocks
      /\ \A b \in B : Plus1(cnt, B)[b] >= 1
      /\ Minus1(Plus1(cnt, B), B) = cnt
  BY <1>2, <1>3 DEF Plus1, Minus1
<1>10. LeafInv(free(r, B), cnt)
  BY <1>8, <1>9, FreeLeaf
<1>11. evict(p, B) = free(r, B)
  BY DEF evict, r
<1>12. free(r, B).ids = r.ids /\ free(r, B).node = r.node
  BY <1>6 DEF free, LeafType
<1> QED
  BY <1>1, <1>10, <1>11, <1>12
=============================================================================
