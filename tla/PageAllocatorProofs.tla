------------------------- MODULE PageAllocatorProofs -------------------------
(***************************************************************************)
(* Proofs about PageAllocator, for every number of models, of virtual and  *)
(* of physical pages.                                                      *)
(*                                                                         *)
(* No page is lost although the preallocation thread drops the pages of a  *)
(* model it finds asleep: it counts as pending while it maps, and a model  *)
(* falls asleep only when nothing is pending (ModelInv).  What is mapped   *)
(* follows from where the model is between sleep and wake-up (MapInv).     *)
(* The physical pages in use are those mapped and those charged by a       *)
(* thread that has still to map or to unmap them (ChargeInv).              *)
(***************************************************************************)
EXTENDS PageAllocator, FiniteSetTheorems, TLAPS

Calls == [pc : {"idle", "map", "insert", "unmap", "taken", "sleep", "wake", "load",
               "failed"},
          pages : SUBSET VirtPages]

TypeInv ==
  /\ free \in [Models -> SUBSET VirtPages] /\ reserved \in [Models -> SUBSET VirtPages]
  /\ allocated \in [Models -> SUBSET VirtPages] /\ num_free \in [Models -> Int]
  /\ is_sleeping \in [Models -> BOOLEAN] /\ pending_map_ops \in [Models -> Int]
  /\ sched \in [Models -> Calls] /\ pre \in [Models -> Calls] /\ admin \in [Models -> Calls]
  /\ mapped \in [Models -> SUBSET VirtPages] /\ loaded \subseteq Models /\ faults \in Nat

\* Every virtual page is in exactly one of five sets.
Cover(F, R, A, S, P) ==
  \A v \in VirtPages :
    /\ v \in F \/ v \in R \/ v \in A \/ v \in S \/ v \in P
    /\ v \in F => v \notin R /\ v \notin A /\ v \notin S /\ v \notin P
    /\ v \in R => v \notin A /\ v \notin S /\ v \notin P
    /\ v \in A => v \notin S /\ v \notin P
    /\ v \in S => v \notin P

Taking(m) == IF sched[m].pc = "unmap" THEN {} ELSE sched[m].pages

Pending(m) ==
  (IF sched[m].pc = "map" THEN 1 ELSE 0) + (IF pre[m].pc = "map" THEN 1 ELSE 0)

\* The books of one model.
ModelInv(m) ==
  /\ Cover(free[m], reserved[m], allocated[m], sched[m].pages, pre[m].pages)
  /\ num_free[m] = Cardinality(VirtPages \ (allocated[m] \union Taking(m)))
  /\ sched[m].pc = "idle" => sched[m].pages = {}
  /\ sched[m].pc = "map" => \E v \in VirtPages : sched[m].pages = {v}
  /\ pre[m].pc = "idle" => pre[m].pages = {}
  /\ pending_map_ops[m] = Pending(m)
  /\ pre[m].pc = "map" => ~is_sleeping[m]

\* What is mapped, as long as no broadcast failed.
MapInv(m) ==
  faults = 0 =>
    IF is_sleeping[m]
    THEN /\ sched[m].pc = "idle"
         /\ \/ admin[m].pc = "sleep" /\ mapped[m] = Mine(m) /\ admin[m].pages = Mine(m)
            \/ /\ admin[m].pc = "unmap" /\ m \notin loaded
               /\ mapped[m] = Mine(m) /\ admin[m].pages = Mine(m)
            \/ admin[m].pc = "idle" /\ m \notin loaded /\ mapped[m] = {}
            \/ /\ admin[m].pc = "wake" /\ m \notin loaded
               /\ mapped[m] = {} /\ admin[m].pages = Mine(m)
    ELSE /\ admin[m].pc \in {"idle", "load"}
         /\ admin[m].pc = "load" => m \notin loaded
         /\ m \notin loaded => sched[m].pc = "idle"
         /\ mapped[m] = Mine(m) \union
                        (IF sched[m].pc \in {"insert", "unmap"} THEN sched[m].pages ELSE {})

IInv == TypeInv /\ \A m \in Models : ModelInv(m)

-----------------------------------------------------------------------------
LEMMA PagesFinite ==
  ASSUME NEW S \in SUBSET VirtPages
  PROVE  IsFiniteSet(S) /\ Cardinality(S) \in Nat
BY PageAssumption, FS_Subset, FS_CardinalityType

\* What becomes available is counted.
LEMMA CountMore ==
  ASSUME NEW A \in SUBSET VirtPages, NEW X \in SUBSET A
  PROVE  Cardinality(VirtPages \ (A \ X)) = Cardinality(VirtPages \ A) + Cardinality(X)
<1>1. VirtPages \ (A \ X) = (VirtPages \ A) \union X /\ (VirtPages \ A) \intersect X = {}
  OBVIOUS
<1>2. /\ IsFiniteSet(VirtPages \ A) /\ IsFiniteSet(X)
      /\ Cardinality(VirtPages \ A) \in Nat /\ Cardinality(X) \in Nat
  BY PagesFinite
<1> QED BY <1>1, <1>2, FS_Union, FS_EmptySet

\* What is taken from the available pages is counted.
LEMMA CountLess ==
  ASSUME NEW A \in SUBSET VirtPages, NEW v \in VirtPages \ A
  PROVE  Cardinality(VirtPages \ (A \union {v})) = Cardinality(VirtPages \ A) - 1
<1>1. VirtPages \ (A \union {v}) = (VirtPages \ A) \ {v}
  OBVIOUS
<1>2. IsFiniteSet(VirtPages \ A)
  BY PagesFinite
<1> QED BY <1>1, <1>2, FS_RemoveElement

\* PagesAccounted follows from the books of the models.
LEMMA Accounted ==
  ASSUME IInv
  PROVE  PagesAccounted
<1> SUFFICES ASSUME NEW m \in Models
    PROVE LET parts == <<free[m], reserved[m], allocated[m], sched[m].pages, pre[m].pages>>
              taking  == IF sched[m].pc = "unmap" THEN {} ELSE sched[m].pages
          IN /\ UNION {parts[i] : i \in 1 .. 5} = VirtPages
             /\ \A i, j \in 1 .. 5 : i # j => parts[i] \intersect parts[j] = {}
             /\ num_free[m] = Cardinality(VirtPages \ (allocated[m] \union taking))
  BY DEF PagesAccounted
<1> DEFINE parts == <<free[m], reserved[m], allocated[m], sched[m].pages, pre[m].pages>>
<1>1. /\ parts[1] = free[m] /\ parts[2] = reserved[m] /\ parts[3] = allocated[m]
      /\ parts[4] = sched[m].pages /\ parts[5] = pre[m].pages
  OBVIOUS
<1> HIDE DEF parts
<1>2. \A i \in 1 .. 5 : i = 1 \/ i = 2 \/ i = 3 \/ i = 4 \/ i = 5
  OBVIOUS
<1>3. /\ \A i \in 1 .. 5 : parts[i] \subseteq VirtPages
      /\ Cover(parts[1], parts[2], parts[3], parts[4], parts[5])
  <2>1. /\ free[m] \subseteq VirtPages /\ reserved[m] \subseteq VirtPages
        /\ allocated[m] \subseteq VirtPages /\ sched[m].pages \subseteq VirtPages
        /\ pre[m].pages \subseteq VirtPages
    BY DEF IInv, TypeInv, Calls
  <2>2. ASSUME NEW i \in 1 .. 5 PROVE parts[i] \subseteq VirtPages
    BY <2>1, <1>1, <1>2
  <2> QED BY <2>2, <1>1 DEF IInv, ModelInv
<1>4. UNION {parts[i] : i \in 1 .. 5} = VirtPages
  <2>1. ASSUME NEW v \in VirtPages PROVE \E i \in 1 .. 5 : v \in parts[i]
    BY <1>3 DEF Cover
  <2> QED BY <1>3, <2>1
<1>5. \A i, j \in 1 .. 5 : i # j => parts[i] \intersect parts[j] = {}
  <2> SUFFICES ASSUME NEW i \in 1 .. 5, NEW j \in 1 .. 5, i # j, NEW v \in parts[i], v \in parts[j]
      PROVE FALSE
    OBVIOUS
  <2>1. v \in VirtPages
    BY <1>3
  <2> QED BY <2>1, <1>2, <1>3 DEF Cover
<1> QED BY <1>4, <1>5 DEF parts, IInv, ModelInv, Taking

LEMMA InitIInv == Init => IInv
<1> SUFFICES ASSUME Init PROVE IInv
  OBVIOUS
<1>1. TypeInv
  BY PagesFinite DEF Init, TypeInv, Calls, At, Idle
<1>2. ASSUME NEW m \in Models PROVE ModelInv(m)
  <2>1. /\ free[m] = VirtPages /\ reserved[m] = {} /\ allocated[m] = {}
        /\ sched[m].pc = "idle" /\ sched[m].pages = {} /\ pre[m].pc = "idle"
        /\ pre[m].pages = {} /\ num_free[m] = Cardinality(VirtPages)
        /\ pending_map_ops[m] = 0
    BY DEF Init, At, Idle
  <2>2. VirtPages \ (allocated[m] \union Taking(m)) = VirtPages
    BY <2>1 DEF Taking
  <2> QED BY <2>1, <2>2 DEF ModelInv, Cover, Pending
<1> QED BY <1>1, <1>2 DEF IInv

-----------------------------------------------------------------------------
(* One step of one model leaves the others alone.                          *)

KeptBooks(q) ==
  /\ free'[q] = free[q] /\ reserved'[q] = reserved[q] /\ allocated'[q] = allocated[q]
  /\ num_free'[q] = num_free[q] /\ is_sleeping'[q] = is_sleeping[q]
  /\ pending_map_ops'[q] = pending_map_ops[q] /\ sched'[q] = sched[q] /\ pre'[q] = pre[q]

LEMMA KeptBooksInv ==
  ASSUME NEW q, ModelInv(q), KeptBooks(q)
  PROVE  ModelInv(q)'
BY DEF ModelInv, KeptBooks, Cover, Taking, Pending

\* A thread goes on with its pages, or ends its call.
LEMMA CallSteps ==
  ASSUME NEW f \in [Models -> Calls], NEW m \in Models, NEW x \in {"insert", "map", "unmap"},
         NEW g, g = [f EXCEPT ![m] = Idle] \/ g = [f EXCEPT ![m].pc = x]
  PROVE  g \in [Models -> Calls]
<1>1. Idle \in Calls
  BY DEF Idle, At, Calls
<1>2. [f[m] EXCEPT !.pc = x] \in Calls
  BY DEF Calls
<1>3. [f EXCEPT ![m].pc = x] = [f EXCEPT ![m] = [f[m] EXCEPT !.pc = x]]
  OBVIOUS
<1> QED BY <1>1, <1>2, <1>3

\* The types of the fields of one model.
LEMMA FieldTypes ==
  ASSUME TypeInv, NEW m \in Models
  PROVE  /\ free[m] \subseteq VirtPages /\ reserved[m] \subseteq VirtPages
         /\ allocated[m] \subseteq VirtPages /\ mapped[m] \subseteq VirtPages
         /\ sched[m].pages \subseteq VirtPages /\ pre[m].pages \subseteq VirtPages
         /\ admin[m].pages \subseteq VirtPages
         /\ num_free[m] \in Int /\ pending_map_ops[m] \in Int
         /\ is_sleeping[m] \in BOOLEAN
BY DEF TypeInv, Calls

LEMMA LoadWeightsIInv ==
  ASSUME IInv, NEW m \in Models, LoadWeights(m), UNCHANGED faults
  PROVE  IInv'
<1>1. TypeInv'
  BY DEF LoadWeights, IInv, TypeInv, Calls, At, lists
<1>2. ASSUME NEW q \in Models PROVE ModelInv(q)'
  BY KeptBooksInv DEF LoadWeights, KeptBooks, IInv, lists
<1> QED BY <1>1, <1>2 DEF IInv

LEMMA LoadMapIInv ==
  ASSUME IInv, NEW m \in Models, NEW ok \in BOOLEAN, LoadMap(m, ok), faults' \in Nat
  PROVE  IInv'
<1>1. loaded' \subseteq Models /\ admin' \in [Models -> Calls]
  <2>1. loaded \subseteq Models /\ admin \in [Models -> Calls]
    BY DEF IInv, TypeInv
  <2>2. Idle \in Calls /\ At("failed", {}) \in Calls
    BY DEF Calls, Idle, At
  <2>3. loaded' \subseteq loaded \union {m}
    BY DEF LoadMap
  <2> QED BY <2>1, <2>2, <2>3 DEF LoadMap
<1>2. TypeInv'
  BY <1>1 DEF LoadMap, IInv, TypeInv, lists
<1>3. ASSUME NEW q \in Models PROVE ModelInv(q)'
  BY KeptBooksInv DEF LoadMap, KeptBooks, IInv, lists
<1> QED BY <1>2, <1>3 DEF IInv

LEMMA AllocFastIInv ==
  ASSUME IInv, NEW m \in Models, AllocFast(m), UNCHANGED faults
  PROVE  IInv'
<1>1. PICK v \in reserved[m] : /\ reserved' = Del(reserved, m, {v})
                               /\ allocated' = Add(allocated, m, {v})
  BY DEF AllocFast
<1>2. /\ sched[m].pc = "idle" /\ num_free' = [num_free EXCEPT ![m] = @ - 1]
      /\ UNCHANGED <<free, is_sleeping, pending_map_ops, sched, pre, admin, mapped, loaded>>
  BY DEF AllocFast, CanCall, CountFree
<1>3. TypeInv /\ ModelInv(m) /\ v \in VirtPages
  BY FieldTypes DEF IInv
<1>4. TypeInv'
  BY <1>1, <1>2, <1>3 DEF TypeInv, Add, Del
<1>5. ModelInv(m)'
  <2>1. /\ reserved'[m] = reserved[m] \ {v} /\ allocated'[m] = allocated[m] \union {v}
        /\ num_free'[m] = num_free[m] - 1
    BY <1>1, <1>2, <1>3 DEF TypeInv, Add, Del
  <2>2. Cover(free[m], reserved'[m], allocated'[m], sched[m].pages, pre[m].pages)
    BY <2>1, <1>3 DEF ModelInv, Cover
  <2>3. sched[m].pages = {} /\ v \in VirtPages \ allocated[m] /\ Taking(m) = {}
    BY <1>1, <1>2, <1>3 DEF ModelInv, Cover, Taking
  <2>4. num_free'[m] = Cardinality(VirtPages \ (allocated'[m] \union {}))
    <3>1. num_free[m] = Cardinality(VirtPages \ allocated[m])
      BY <1>3, <2>3 DEF ModelInv
    <3> QED BY <3>1, <2>1, <2>3, <1>3, FieldTypes, CountLess
  <2> QED BY <1>2, <1>3, <2>2, <2>3, <2>4 DEF ModelInv, Taking, Pending
<1>6. ASSUME NEW q \in Models, q # m PROVE ModelInv(q)'
  BY <1>1, <1>2, <1>3, <1>6, KeptBooksInv DEF KeptBooks, IInv, TypeInv, Add, Del
<1> QED BY <1>4, <1>5, <1>6 DEF IInv

LEMMA AllocTakeIInv ==
  ASSUME IInv, NEW m \in Models, AllocTake(m), UNCHANGED faults
  PROVE  IInv'
<1>1. PICK v \in free[m] : /\ free' = Del(free, m, {v})
                           /\ sched' = [sched EXCEPT ![m] = At("map", {v})]
  BY DEF AllocTake
<1>2. /\ sched[m].pc = "idle" /\ num_free' = [num_free EXCEPT ![m] = @ - 1]
      /\ pending_map_ops' = [pending_map_ops EXCEPT ![m] = @ + 1]
      /\ UNCHANGED <<reserved, allocated, is_sleeping, pre, admin, mapped, loaded>>
  BY DEF AllocTake, CanCall, CountFree, Pend
<1>3. TypeInv /\ ModelInv(m) /\ v \in VirtPages
  BY FieldTypes DEF IInv
<1>4. TypeInv'
  BY <1>1, <1>2, <1>3 DEF TypeInv, Del, Calls, At
<1>5. ModelInv(m)'
  <2>1. /\ free'[m] = free[m] \ {v} /\ num_free'[m] = num_free[m] - 1
        /\ sched'[m].pc = "map" /\ sched'[m].pages = {v}
        /\ pending_map_ops'[m] = pending_map_ops[m] + 1
    BY <1>1, <1>2, <1>3 DEF TypeInv, Del, At
  <2>2. sched[m].pages = {} /\ v \in VirtPages \ allocated[m] /\ Taking(m) = {}
    BY <1>1, <1>2, <1>3 DEF ModelInv, Cover, Taking
  <2>3. Cover(free'[m], reserved[m], allocated[m], sched'[m].pages, pre[m].pages)
    BY <2>1, <2>2, <1>1, <1>3 DEF ModelInv, Cover
  <2>4. num_free'[m] = Cardinality(VirtPages \ (allocated[m] \union {v}))
    <3>1. num_free[m] = Cardinality(VirtPages \ allocated[m])
      BY <1>3, <2>2 DEF ModelInv
    <3> QED BY <3>1, <2>1, <2>2, <1>3, FieldTypes, CountLess
  <2>5. pending_map_ops'[m] = Pending(m)'
    BY <1>2, <1>3, <2>1 DEF ModelInv, Pending
  <2> QED BY <1>2, <1>3, <2>1, <2>3, <2>4, <2>5 DEF ModelInv, Taking
<1>6. ASSUME NEW q \in Models, q # m PROVE ModelInv(q)'
  BY <1>1, <1>2, <1>3, <1>6, KeptBooksInv DEF KeptBooks, IInv, TypeInv, Del
<1> QED BY <1>4, <1>5, <1>6 DEF IInv

LEMMA AllocInsertIInv ==
  ASSUME IInv, NEW m \in Models, AllocInsert(m), UNCHANGED faults
  PROVE  IInv'
<1>1. /\ sched[m].pc = "insert" /\ allocated' = Add(allocated, m, sched[m].pages)
      /\ sched' = [sched EXCEPT ![m] = Idle]
      /\ UNCHANGED <<free, reserved, num_free, is_sleeping, pending_map_ops, pre, admin,
                     mapped, loaded>>
  BY DEF AllocInsert
<1>2. TypeInv /\ ModelInv(m)
  BY DEF IInv
<1>3. TypeInv'
  BY <1>1, <1>2, FieldTypes DEF TypeInv, Add, Calls, At, Idle
<1>4. ModelInv(m)'
  <2>1. /\ allocated'[m] = allocated[m] \union sched[m].pages
        /\ sched'[m].pc = "idle" /\ sched'[m].pages = {}
    BY <1>1, <1>2 DEF TypeInv, Add, At, Idle
  <2>2. Cover(free[m], reserved[m], allocated'[m], sched'[m].pages, pre[m].pages)
    BY <2>1, <1>2 DEF ModelInv, Cover
  <2>3. allocated'[m] \union Taking(m)' = allocated[m] \union Taking(m)
    BY <1>1, <2>1 DEF Taking
  <2> QED BY <1>1, <1>2, <2>1, <2>2, <2>3 DEF ModelInv, Pending
<1>5. ASSUME NEW q \in Models, q # m PROVE ModelInv(q)'
  BY <1>1, <1>2, <1>5, KeptBooksInv DEF KeptBooks, IInv, TypeInv, Add
<1> QED BY <1>3, <1>4, <1>5 DEF IInv

LEMMA FreePagesIInv ==
  ASSUME IInv, NEW m \in Models, NEW pages, FreePages(m, pages), UNCHANGED faults
  PROVE  IInv'
<1>1. PICK keep \in SUBSET pages :
        /\ reserved' = Add(reserved, m, keep)
        /\ sched' = [sched EXCEPT ![m] =
                       IF keep = pages THEN Idle ELSE At("unmap", pages \ keep)]
  BY DEF FreePages
<1>2. /\ sched[m].pc = "idle" /\ pages \subseteq allocated[m]
      /\ allocated' = Del(allocated, m, pages)
      /\ num_free' = [num_free EXCEPT ![m] = @ + Cardinality(pages)]
      /\ UNCHANGED <<free, is_sleeping, pending_map_ops, pre, admin, mapped, loaded>>
  BY DEF FreePages, CanCall, CountFree
<1>3. TypeInv /\ ModelInv(m) /\ pages \subseteq VirtPages /\ Cardinality(pages) \in Nat
  BY <1>2, FieldTypes, PagesFinite DEF IInv
<1>4. TypeInv'
  BY <1>1, <1>2, <1>3 DEF TypeInv, Add, Del, Calls, At, Idle
<1>5. ModelInv(m)'
  <2>1. /\ reserved'[m] = reserved[m] \union keep /\ allocated'[m] = allocated[m] \ pages
        /\ num_free'[m] = num_free[m] + Cardinality(pages)
        /\ sched'[m].pages = pages \ keep /\ sched'[m].pc \in {"idle", "unmap"}
        /\ sched'[m].pc = "idle" => sched'[m].pages = {}
    BY <1>1, <1>2, <1>3 DEF TypeInv, Add, Del, At, Idle
  <2>2. sched[m].pages = {} /\ Taking(m) = {} /\ Taking(m)' = {}
    BY <1>2, <1>3, <2>1 DEF ModelInv, Taking
  <2>3. Cover(free[m], reserved'[m], allocated'[m], sched'[m].pages, pre[m].pages)
    BY <2>1, <2>2, <1>2, <1>3 DEF ModelInv, Cover
  <2>4. num_free'[m] = Cardinality(VirtPages \ (allocated'[m] \union {}))
    <3>1. num_free[m] = Cardinality(VirtPages \ allocated[m])
      BY <1>3, <2>2 DEF ModelInv
    <3>2. allocated[m] \in SUBSET VirtPages /\ pages \in SUBSET allocated[m]
      BY <1>2, <1>3, FieldTypes
    <3>3. VirtPages \ (allocated'[m] \union {}) = VirtPages \ (allocated[m] \ pages)
      BY <2>1
    <3>4. Cardinality(VirtPages \ (allocated[m] \ pages)) = num_free[m] + Cardinality(pages)
      BY <3>1, <3>2, CountMore
    <3> QED BY <3>3, <3>4, <2>1
  <2> QED BY <1>2, <1>3, <2>1, <2>2, <2>3, <2>4 DEF ModelInv, Pending
<1>6. ASSUME NEW q \in Models, q # m PROVE ModelInv(q)'
  BY <1>1, <1>2, <1>3, <1>6, KeptBooksInv DEF KeptBooks, IInv, TypeInv, Add, Del
<1> QED BY <1>4, <1>5, <1>6 DEF IInv

LEMMA TrimPagesIInv ==
  ASSUME IInv, NEW m \in Models, TrimPages(m), UNCHANGED faults
  PROVE  IInv'
<1>1. /\ sched[m].pc = "idle" /\ sched' = [sched EXCEPT ![m] = At("unmap", reserved[m])]
      /\ reserved' = [reserved EXCEPT ![m] = {}]
      /\ UNCHANGED <<free, allocated, num_free, is_sleeping, pending_map_ops, pre, admin,
                     mapped, loaded>>
  BY DEF TrimPages, CanCall
<1>2. TypeInv /\ ModelInv(m)
  BY DEF IInv
<1>3. TypeInv'
  BY <1>1, <1>2, FieldTypes DEF TypeInv, Calls, At
<1>4. ModelInv(m)'
  <2>1. reserved'[m] = {} /\ sched'[m].pc = "unmap" /\ sched'[m].pages = reserved[m]
    BY <1>1, <1>2 DEF TypeInv, At
  <2>2. sched[m].pages = {} /\ Taking(m) = {} /\ Taking(m)' = {}
    BY <1>1, <1>2, <2>1 DEF ModelInv, Taking
  <2>3. Cover(free[m], reserved'[m], allocated[m], sched'[m].pages, pre[m].pages)
    BY <2>1, <2>2, <1>2 DEF ModelInv, Cover
  <2> QED BY <1>1, <1>2, <2>1, <2>2, <2>3 DEF ModelInv, Pending
<1>5. ASSUME NEW q \in Models, q # m PROVE ModelInv(q)'
  BY <1>1, <1>2, <1>5, KeptBooksInv DEF KeptBooks, IInv, TypeInv
<1> QED BY <1>3, <1>4, <1>5 DEF IInv

-----------------------------------------------------------------------------
(* Steps that end a broadcast of the block manager.                        *)

LEMMA AllocMapIInv ==
  ASSUME IInv, NEW m \in Models, NEW ok \in BOOLEAN, AllocMap(m, ok), faults' \in Nat
  PROVE  IInv'
<1>1. /\ sched[m].pc = "map" /\ pending_map_ops' = [pending_map_ops EXCEPT ![m] = @ - 1]
      /\ UNCHANGED <<reserved, allocated, is_sleeping, pre, admin, loaded>>
  BY DEF AllocMap, Pend
<1>2. TypeInv /\ ModelInv(m)
  BY DEF IInv
<1>3. mapped' \in [Models -> SUBSET VirtPages]
  BY <1>2, FieldTypes DEF AllocMap, AfterMap, Add, TypeInv
<1>4. CASE ok
  <2>1. sched' = [sched EXCEPT ![m].pc = "insert"] /\ UNCHANGED <<free, num_free>>
    BY <1>4 DEF AllocMap
  <2>2. TypeInv'
    <3>1. sched' \in [Models -> Calls]
      BY <1>2, <2>1, CallSteps DEF TypeInv
    <3>2. pending_map_ops' \in [Models -> Int]
      BY <1>1, <1>2 DEF TypeInv
    <3> QED BY <1>1, <1>2, <1>3, <2>1, <3>1, <3>2 DEF TypeInv
  <2>3. /\ sched'[m].pc = "insert" /\ sched'[m].pages = sched[m].pages
        /\ pending_map_ops'[m] = pending_map_ops[m] - 1
    BY <1>1, <1>2, <2>1 DEF TypeInv, Calls
  <2>4. ModelInv(m)'
    <3>1. Pending(m)' = Pending(m) - 1 /\ Taking(m)' = Taking(m)
      BY <1>1, <2>3 DEF Pending, Taking
    <3> QED BY <1>1, <1>2, <2>1, <2>3, <3>1 DEF ModelInv, Cover
  <2>5. ASSUME NEW q \in Models, q # m PROVE ModelInv(q)'
    BY <1>1, <1>2, <2>1, <2>5, KeptBooksInv DEF KeptBooks, IInv, TypeInv
  <2> QED BY <2>2, <2>4, <2>5 DEF IInv
<1>5. CASE ~ok
  <2>1. /\ sched' = [sched EXCEPT ![m] = Idle] /\ free' = Add(free, m, sched[m].pages)
        /\ num_free' = [num_free EXCEPT ![m] = @ + 1]
    BY <1>5 DEF AllocMap, GiveBack, CountFree
  <2>2. TypeInv'
    BY <1>1, <1>2, <1>3, <2>1, FieldTypes DEF TypeInv, Calls, Add, At, Idle
  <2>3. /\ sched'[m].pc = "idle" /\ sched'[m].pages = {}
        /\ free'[m] = free[m] \union sched[m].pages /\ num_free'[m] = num_free[m] + 1
        /\ pending_map_ops'[m] = pending_map_ops[m] - 1
    BY <1>1, <1>2, <2>1 DEF TypeInv, Calls, Add, At, Idle
  <2>4. Cover(free'[m], reserved[m], allocated[m], sched'[m].pages, pre[m].pages)
    BY <2>3, <1>2 DEF ModelInv, Cover
  <2>5. num_free'[m] = Cardinality(VirtPages \ (allocated[m] \union {}))
    <3>1. PICK v \in VirtPages \ allocated[m] : sched[m].pages = {v}
      BY <1>1, <1>2 DEF ModelInv, Cover
    <3>2. num_free[m] = Cardinality(VirtPages \ (allocated[m] \union {v}))
      BY <3>1, <1>1, <1>2 DEF ModelInv, Taking
    <3>3. num_free[m] = Cardinality(VirtPages \ allocated[m]) - 1
      BY <3>2, <1>2, FieldTypes, CountLess
    <3>4. VirtPages \ (allocated[m] \union {}) = VirtPages \ allocated[m]
      OBVIOUS
    <3>5. Cardinality(VirtPages \ allocated[m]) \in Nat
      BY PagesFinite
    <3> QED BY <3>3, <3>4, <3>5, <2>3
  <2>6. ModelInv(m)'
    BY <1>1, <1>2, <2>3, <2>4, <2>5 DEF ModelInv, Pending, Taking
  <2>7. ASSUME NEW q \in Models, q # m PROVE ModelInv(q)'
    BY <1>1, <1>2, <2>1, <2>7, KeptBooksInv DEF KeptBooks, IInv, TypeInv, Add
  <2> QED BY <2>2, <2>6, <2>7 DEF IInv
<1> QED BY <1>4, <1>5

LEMMA UnmapDoneIInv ==
  ASSUME IInv, NEW m \in Models, NEW ok \in BOOLEAN, UnmapDone(m, ok), faults' \in Nat
  PROVE  IInv'
<1>1. /\ sched[m].pc = "unmap" /\ sched' = [sched EXCEPT ![m] = Idle]
      /\ UNCHANGED <<allocated, num_free, is_sleeping, pending_map_ops, pre, admin, loaded>>
  BY DEF UnmapDone
<1>2. TypeInv /\ ModelInv(m)
  BY DEF IInv
<1>3. mapped' \in [Models -> SUBSET VirtPages]
  BY <1>2, FieldTypes DEF UnmapDone, AfterUnmap, Del, TypeInv
<1>4. \/ free' = Add(free, m, sched[m].pages) /\ UNCHANGED reserved
      \/ reserved' = Add(reserved, m, sched[m].pages) /\ UNCHANGED free
  BY DEF UnmapDone, GiveBack
<1>5. TypeInv'
  <2>1. free' \in [Models -> SUBSET VirtPages] /\ reserved' \in [Models -> SUBSET VirtPages]
    BY <1>2, <1>4, FieldTypes DEF TypeInv, Add
  <2>2. sched' \in [Models -> Calls]
    BY <1>1, <1>2, CallSteps DEF TypeInv
  <2> QED BY <1>1, <1>2, <1>3, <2>1, <2>2 DEF TypeInv
<1>6. ModelInv(m)'
  <2>1. /\ sched'[m].pc = "idle" /\ sched'[m].pages = {}
        /\ \/ free'[m] = free[m] \union sched[m].pages /\ reserved'[m] = reserved[m]
           \/ free'[m] = free[m] /\ reserved'[m] = reserved[m] \union sched[m].pages
    BY <1>1, <1>2, <1>4 DEF TypeInv, Calls, Add, At, Idle
  <2>2. Cover(free'[m], reserved'[m], allocated[m], sched'[m].pages, pre[m].pages)
    BY <2>1, <1>2 DEF ModelInv, Cover
  <2>3. Taking(m) = {} /\ Taking(m)' = {}
    BY <1>1, <2>1 DEF Taking
  <2> QED BY <1>1, <1>2, <2>1, <2>2, <2>3 DEF ModelInv, Pending
<1>7. ASSUME NEW q \in Models, q # m PROVE ModelInv(q)'
  BY <1>1, <1>2, <1>4, <1>7, KeptBooksInv DEF KeptBooks, IInv, TypeInv, Add
<1> QED BY <1>5, <1>6, <1>7 DEF IInv

-----------------------------------------------------------------------------
(* The preallocation thread.                                               *)

LEMMA PreallocTakeIInv ==
  ASSUME IInv, PreallocTake, UNCHANGED faults
  PROVE  IInv'
<1>1. PICK take \in [Models -> SUBSET VirtPages] :
        /\ \A m \in Models : take[m] \subseteq free[m]
        /\ free' = [m \in Models |-> free[m] \ take[m]]
        /\ pre' = [m \in Models |-> IF take[m] = {} THEN Idle ELSE At("taken", take[m])]
  BY DEF PreallocTake
<1>2. /\ \A m \in Models : pre[m].pc = "idle"
      /\ UNCHANGED <<reserved, allocated, num_free, is_sleeping, pending_map_ops, sched,
                     admin, mapped, loaded>>
  BY DEF PreallocTake
<1>3. TypeInv'
  BY <1>1, <1>2 DEF IInv, TypeInv, Calls, At, Idle
<1>4. ASSUME NEW q \in Models PROVE ModelInv(q)'
  <2>1. /\ free'[q] = free[q] \ take[q] /\ pre'[q].pages = take[q]
        /\ pre'[q].pc \in {"idle", "taken"} /\ (pre'[q].pc = "idle" => take[q] = {})
    BY <1>1 DEF At, Idle
  <2>2. ModelInv(q) /\ pre[q].pages = {}
    BY <1>2 DEF IInv, ModelInv
  <2>3. Cover(free'[q], reserved[q], allocated[q], sched[q].pages, pre'[q].pages)
    BY <2>1, <2>2, <1>1 DEF ModelInv, Cover
  <2> QED BY <1>2, <2>1, <2>2, <2>3 DEF ModelInv, Taking, Pending
<1> QED BY <1>3, <1>4 DEF IInv

LEMMA PreallocCheckIInv ==
  ASSUME IInv, NEW m \in Models, PreallocCheck(m), UNCHANGED faults
  PROVE  IInv'
<1>1. /\ pre[m].pc = "taken"
      /\ UNCHANGED <<reserved, allocated, num_free, is_sleeping, sched, admin, mapped, loaded>>
  BY DEF PreallocCheck
<1>2. TypeInv /\ ModelInv(m)
  BY DEF IInv
<1>3. CASE is_sleeping[m]
  <2>1. /\ free' = Add(free, m, pre[m].pages) /\ pre' = [pre EXCEPT ![m] = Idle]
        /\ UNCHANGED pending_map_ops
    BY <1>3 DEF PreallocCheck, GiveBack
  <2>2. TypeInv'
    BY <1>1, <1>2, <2>1, FieldTypes DEF TypeInv, Calls, Add, At, Idle
  <2>3. /\ free'[m] = free[m] \union pre[m].pages
        /\ pre'[m].pc = "idle" /\ pre'[m].pages = {}
    BY <1>2, <2>1 DEF TypeInv, Add, At, Idle
  <2>4. Cover(free'[m], reserved[m], allocated[m], sched[m].pages, pre'[m].pages)
    BY <1>2, <2>3 DEF ModelInv, Cover
  <2>5. ModelInv(m)'
    BY <1>1, <1>2, <2>1, <2>3, <2>4 DEF ModelInv, Taking, Pending
  <2>6. ASSUME NEW q \in Models, q # m PROVE ModelInv(q)'
    BY <1>1, <1>2, <2>1, <2>6, KeptBooksInv DEF KeptBooks, IInv, TypeInv, Add
  <2> QED BY <2>2, <2>5, <2>6 DEF IInv
<1>4. CASE ~is_sleeping[m]
  <2>1. /\ pending_map_ops' = [pending_map_ops EXCEPT ![m] = @ + 1]
        /\ pre' = [pre EXCEPT ![m].pc = "map"] /\ UNCHANGED free
    BY <1>4 DEF PreallocCheck, Pend
  <2>2. TypeInv'
    <3>1. pre' \in [Models -> Calls]
      BY <1>2, <2>1, CallSteps DEF TypeInv
    <3>2. pending_map_ops' \in [Models -> Int]
      BY <1>2, <2>1 DEF TypeInv
    <3> QED BY <1>1, <1>2, <2>1, <3>1, <3>2 DEF TypeInv
  <2>3. /\ pre'[m].pc = "map" /\ pre'[m].pages = pre[m].pages
        /\ pending_map_ops'[m] = pending_map_ops[m] + 1
    BY <1>2, <2>1 DEF TypeInv, Calls
  <2>4. ModelInv(m)'
    BY <1>1, <1>2, <1>4, <2>1, <2>3 DEF ModelInv, Taking, Pending
  <2>5. ASSUME NEW q \in Models, q # m PROVE ModelInv(q)'
    BY <1>1, <1>2, <2>1, <2>5, KeptBooksInv DEF KeptBooks, IInv, TypeInv
  <2> QED BY <2>2, <2>4, <2>5 DEF IInv
<1> QED BY <1>3, <1>4

\* The branch that drops the pages of a sleeping model is never taken.
LEMMA PreallocMapIInv ==
  ASSUME IInv, NEW m \in Models, NEW ok \in BOOLEAN, PreallocMap(m, ok), faults' \in Nat
  PROVE  IInv'
<1>1. /\ pre[m].pc = "map" /\ pre' = [pre EXCEPT ![m] = Idle]
      /\ pending_map_ops' = [pending_map_ops EXCEPT ![m] = @ - 1]
      /\ UNCHANGED <<allocated, num_free, is_sleeping, sched, admin, loaded>>
  BY DEF PreallocMap, Pend
<1>2. TypeInv /\ ModelInv(m) /\ ~is_sleeping[m]
  BY <1>1 DEF IInv, ModelInv
<1>3. mapped' \in [Models -> SUBSET VirtPages]
  BY <1>2, FieldTypes DEF PreallocMap, AfterMap, Add, TypeInv
<1>4. \/ free' = Add(free, m, pre[m].pages) /\ UNCHANGED reserved
      \/ reserved' = Add(reserved, m, pre[m].pages) /\ UNCHANGED free
  BY <1>2 DEF PreallocMap, GiveBack
<1>5. TypeInv'
  <2>1. free' \in [Models -> SUBSET VirtPages] /\ reserved' \in [Models -> SUBSET VirtPages]
    BY <1>2, <1>4, FieldTypes DEF TypeInv, Add
  <2>2. pre' \in [Models -> Calls]
    BY <1>1, <1>2, CallSteps DEF TypeInv
  <2>3. pending_map_ops' \in [Models -> Int]
    BY <1>1, <1>2 DEF TypeInv
  <2> QED BY <1>1, <1>2, <1>3, <2>1, <2>2, <2>3 DEF TypeInv
<1>6. ModelInv(m)'
  <2>1. /\ pre'[m].pc = "idle" /\ pre'[m].pages = {}
        /\ pending_map_ops'[m] = pending_map_ops[m] - 1
        /\ \/ free'[m] = free[m] \union pre[m].pages /\ reserved'[m] = reserved[m]
           \/ free'[m] = free[m] /\ reserved'[m] = reserved[m] \union pre[m].pages
    BY <1>1, <1>2, <1>4 DEF TypeInv, Calls, Add, At, Idle
  <2>2. Cover(free'[m], reserved'[m], allocated[m], sched[m].pages, pre'[m].pages)
    BY <2>1, <1>2 DEF ModelInv, Cover
  <2> QED BY <1>1, <1>2, <2>1, <2>2 DEF ModelInv, Taking, Pending
<1>7. ASSUME NEW q \in Models, q # m PROVE ModelInv(q)'
  BY <1>1, <1>2, <1>4, <1>7, KeptBooksInv DEF KeptBooks, IInv, TypeInv, Add
<1> QED BY <1>5, <1>6, <1>7 DEF IInv

-----------------------------------------------------------------------------
(* Sleep and wake-up.                                                      *)

LEMMA SleepBeginIInv ==
  ASSUME IInv, NEW m \in Models, SleepBegin(m) \/ SleepAtInit(m), UNCHANGED faults
  PROVE  IInv'
<1>1. /\ pending_map_ops[m] = 0 /\ is_sleeping' = [is_sleeping EXCEPT ![m] = TRUE]
      /\ \/ admin' = [admin EXCEPT ![m] = At("sleep", Mine(m))]
         \/ admin' = [admin EXCEPT ![m] = At("unmap", Mine(m))]
      /\ UNCHANGED <<free, reserved, allocated, num_free, pending_map_ops, sched, pre,
                     mapped, loaded>>
  BY DEF SleepBegin, SleepAtInit, NothingPending, lists
<1>2. TypeInv /\ ModelInv(m)
  BY DEF IInv
<1>3. TypeInv'
  <2>1. At("sleep", Mine(m)) \in Calls /\ At("unmap", Mine(m)) \in Calls
    BY <1>2, FieldTypes DEF TypeInv, Calls, At, Mine
  <2>2. admin' \in [Models -> Calls] /\ is_sleeping' \in [Models -> BOOLEAN]
    BY <1>1, <1>2, <2>1 DEF TypeInv
  <2> QED BY <1>1, <1>2, <2>2 DEF TypeInv
<1>4. pre[m].pc # "map"
  BY <1>1, <1>2 DEF ModelInv, Pending
<1>5. ModelInv(m)'
  BY <1>1, <1>2, <1>4 DEF ModelInv, Taking, Pending
<1>6. ASSUME NEW q \in Models, q # m PROVE ModelInv(q)'
  BY <1>1, <1>2, <1>6, KeptBooksInv DEF KeptBooks, IInv, TypeInv
<1> QED BY <1>3, <1>5, <1>6 DEF IInv

LEMMA SleepEndsIInv ==
  ASSUME IInv, NEW m \in Models, NEW ok \in BOOLEAN,
         SleepWeights(m, ok) \/ SleepUnmap(m, ok), faults' \in Nat
  PROVE  IInv'
<1>1. UNCHANGED <<free, reserved, allocated, num_free, is_sleeping, pending_map_ops,
                  sched, pre>>
  BY DEF SleepWeights, SleepUnmap, lists
<1>2. TypeInv
  BY DEF IInv
<1>3. loaded' \subseteq loaded /\ admin' \in [Models -> Calls]
  <2>1. \/ admin' = [admin EXCEPT ![m] = Idle]
        \/ admin' = [admin EXCEPT ![m].pc = "unmap"]
    BY DEF SleepWeights, SleepUnmap
  <2>2. loaded' \subseteq loaded
    BY DEF SleepWeights, SleepUnmap
  <2>3. admin \in [Models -> Calls]
    BY <1>2 DEF TypeInv
  <2> QED BY <2>1, <2>2, <2>3, CallSteps
<1>4. mapped' \in [Models -> SUBSET VirtPages]
  BY <1>2 DEF SleepWeights, SleepUnmap, AfterUnmap, Del, TypeInv
<1>5. TypeInv'
  BY <1>1, <1>2, <1>3, <1>4 DEF TypeInv
<1>6. ASSUME NEW q \in Models PROVE ModelInv(q)'
  BY <1>1, KeptBooksInv DEF KeptBooks, IInv
<1> QED BY <1>5, <1>6 DEF IInv

LEMMA WakeBeginIInv ==
  ASSUME IInv, NEW m \in Models, WakeBegin(m), UNCHANGED faults
  PROVE  IInv'
<1>1. /\ admin' = [admin EXCEPT ![m] = At("wake", Mine(m))]
      /\ UNCHANGED <<free, reserved, allocated, num_free, is_sleeping, pending_map_ops,
                     sched, pre, mapped, loaded>>
  BY DEF WakeBegin, lists
<1>2. TypeInv'
  BY <1>1, FieldTypes DEF IInv, TypeInv, Calls, At, Mine
<1>3. ASSUME NEW q \in Models PROVE ModelInv(q)'
  BY <1>1, KeptBooksInv DEF KeptBooks, IInv
<1> QED BY <1>2, <1>3 DEF IInv

LEMMA WakeMapIInv ==
  ASSUME IInv, NEW m \in Models, NEW ok \in BOOLEAN, WakeMap(m, ok), faults' \in Nat
  PROVE  IInv'
<1>1. /\ admin' = [admin EXCEPT ![m] = Idle]
      /\ is_sleeping' \in {is_sleeping, [is_sleeping EXCEPT ![m] = FALSE]}
      /\ loaded' \subseteq loaded \union {m}
      /\ UNCHANGED <<free, reserved, allocated, num_free, pending_map_ops, sched, pre>>
  BY DEF WakeMap, lists
<1>2. TypeInv /\ ModelInv(m)
  BY DEF IInv
<1>3. mapped' \in [Models -> SUBSET VirtPages]
  BY <1>2, FieldTypes DEF WakeMap, AfterMap, Add, TypeInv
<1>4. TypeInv'
  BY <1>1, <1>2, <1>3 DEF TypeInv, Calls, At, Idle
<1>5. ModelInv(m)'
  BY <1>1, <1>2 DEF ModelInv, Taking, Pending, TypeInv
<1>6. ASSUME NEW q \in Models, q # m PROVE ModelInv(q)'
  BY <1>1, <1>2, <1>6, KeptBooksInv DEF KeptBooks, IInv, TypeInv
<1> QED BY <1>4, <1>5, <1>6 DEF IInv

LEMMA NextIInv ==
  ASSUME IInv, [Next]_vars
  PROVE  IInv'
<1>1. CASE Locked /\ UNCHANGED faults
  BY <1>1, PreallocTakeIInv, LoadWeightsIInv, AllocFastIInv, AllocTakeIInv,
     AllocInsertIInv, FreePagesIInv, TrimPagesIInv, PreallocCheckIInv, SleepBeginIInv,
     WakeBeginIInv DEF Locked
<1>2. CASE \E m \in Models, ok \in Outcomes :
             Broadcast(m, ok) /\ faults' = IF ok THEN faults ELSE faults + 1
  <2>1. PICK m \in Models, ok \in BOOLEAN :
          Broadcast(m, ok) /\ faults' = IF ok THEN faults ELSE faults + 1
    BY <1>2 DEF Outcomes
  <2>2. faults' \in Nat
    BY <2>1 DEF IInv, TypeInv
  <2> QED
    BY <2>1, <2>2, LoadMapIInv, AllocMapIInv, UnmapDoneIInv, PreallocMapIInv, SleepEndsIInv, WakeMapIInv
       DEF Broadcast
<1>3. CASE UNCHANGED vars
  BY <1>3, KeptBooksInv DEF IInv, TypeInv, KeptBooks, vars, lists
<1> QED BY <1>1, <1>2, <1>3 DEF Next

\* No virtual page of any model is ever lost or in two places, and
\* num_free_virt_pages counts what can be had, whatever allocations, frees,
\* trims, preallocation, sleeps, wake-ups and failed broadcasts interleave
\* (alloc_kv_cache_page, prealloc_worker, sleep_model, wakeup_model).
THEOREM NoPageIsLost == Spec => []PagesAccounted
<1>1. Init => IInv
  BY InitIInv
<1>2. IInv /\ [Next]_vars => IInv'
  BY NextIInv
<1>3. IInv => PagesAccounted
  BY Accounted
<1> QED BY <1>1, <1>2, <1>3, PTL DEF Spec

-----------------------------------------------------------------------------
(* What is mapped, when the block manager rests while its model sleeps.    *)

JInv == IInv /\ \A m \in Models : MapInv(m)

KeptMap(q) ==
  /\ reserved'[q] = reserved[q] /\ allocated'[q] = allocated[q]
  /\ is_sleeping'[q] = is_sleeping[q] /\ sched'[q] = sched[q] /\ admin'[q] = admin[q]
  /\ mapped'[q] = mapped[q] /\ (q \in loaded' <=> q \in loaded)
  /\ faults' = 0 => faults = 0

LEMMA KeptMapInv ==
  ASSUME NEW q, MapInv(q), KeptMap(q)
  PROVE  MapInv(q)'
BY DEF MapInv, KeptMap, Mine

\* A call in progress or about to begin means the model is awake.
LEMMA Awake ==
  ASSUME JInv, IdleAsleep, NEW m \in Models, faults = 0, CanCall(m) \/ sched[m].pc # "idle"
  PROVE  ~is_sleeping[m] /\ admin[m].pc = "idle" /\ m \in loaded
BY DEF JInv, MapInv, CanCall

\* The block manager's calls: what it takes is mapped, what it gives is not.
LEMMA CallsMapInv ==
  ASSUME JInv, IdleAsleep, NEW m \in Models, UNCHANGED faults, NEW pages,
         AllocFast(m) \/ AllocTake(m) \/ AllocInsert(m) \/ FreePages(m, pages) \/ TrimPages(m),
         NEW q \in Models
  PROVE  MapInv(q)'
<1>1. TypeInv /\ ModelInv(m) /\ MapInv(q) /\ MapInv(m)
  BY DEF JInv, IInv
<1>2. CASE q # m
  <2>1. KeptMap(q)
    BY <1>1, <1>2 DEF KeptMap, AllocFast, AllocTake, AllocInsert, FreePages, TrimPages,
                      TypeInv, Add, Del
  <2> QED BY <1>1, <2>1, KeptMapInv
<1>3. CASE q = m
  <2> SUFFICES ASSUME faults' = 0 PROVE MapInv(m)'
    BY <1>3 DEF MapInv
  <2>1. /\ faults = 0 /\ ~is_sleeping[m] /\ admin[m].pc = "idle" /\ m \in loaded
        /\ is_sleeping' = is_sleeping /\ admin' = admin /\ mapped' = mapped
        /\ loaded' = loaded
    BY Awake DEF AllocFast, AllocTake, AllocInsert, FreePages, TrimPages
  <2>2. mapped[m] = Mine(m) \union
                    (IF sched[m].pc \in {"insert", "unmap"} THEN sched[m].pages ELSE {})
    BY <1>1, <2>1 DEF MapInv
  <2>3. SUFFICES Mine(m)' \union
                 (IF sched'[m].pc \in {"insert", "unmap"} THEN sched'[m].pages ELSE {})
                 = mapped[m]
    BY <2>1 DEF MapInv
  <2>4. CASE AllocFast(m)
    <3>1. PICK v \in reserved[m] : /\ reserved'[m] = reserved[m] \ {v}
                                   /\ allocated'[m] = allocated[m] \union {v}
      BY <2>4, <1>1 DEF AllocFast, TypeInv, Add, Del
    <3> QED BY <2>2, <2>4, <3>1 DEF AllocFast, Mine, CanCall
  <2>5. CASE AllocTake(m)
    <3>1. sched'[m].pc = "map" /\ sched[m].pc = "idle"
      BY <2>5, <1>1 DEF AllocTake, CanCall, TypeInv, At
    <3> QED BY <2>2, <2>5, <3>1 DEF AllocTake, Mine
  <2>6. CASE AllocInsert(m)
    <3>1. /\ sched'[m].pc = "idle" /\ sched[m].pc = "insert" /\ reserved' = reserved
          /\ allocated'[m] = allocated[m] \union sched[m].pages
      BY <2>6, <1>1 DEF AllocInsert, TypeInv, Idle, At, Add
    <3> QED BY <2>2, <3>1 DEF Mine
  <2>7. CASE FreePages(m, pages)
    <3>1. PICK keep \in SUBSET pages :
            /\ reserved'[m] = reserved[m] \union keep
            /\ sched'[m] = IF keep = pages THEN Idle ELSE At("unmap", pages \ keep)
      BY <2>7, <1>1 DEF FreePages, TypeInv, Add
    <3>2. /\ sched[m].pc = "idle" /\ allocated'[m] = allocated[m] \ pages
          /\ pages \subseteq allocated[m]
      BY <2>7, <1>1 DEF FreePages, CanCall, TypeInv, Del
    <3> QED BY <2>2, <3>1, <3>2 DEF Mine, Idle, At
  <2>8. CASE TrimPages(m)
    <3>1. /\ sched'[m].pc = "unmap" /\ sched'[m].pages = reserved[m] /\ sched[m].pc = "idle"
          /\ reserved'[m] = {} /\ allocated' = allocated
      BY <2>8, <1>1 DEF TrimPages, CanCall, TypeInv, At
    <3> QED BY <2>2, <3>1 DEF Mine
  <2> QED BY <2>4, <2>5, <2>6, <2>7, <2>8
<1> QED BY <1>2, <1>3

\* A mapping or unmapping that succeeds.
LEMMA MapsMapInv ==
  ASSUME JInv, IdleAsleep, NEW m \in Models, UNCHANGED faults,
         AllocMap(m, TRUE) \/ UnmapDone(m, TRUE) \/ PreallocMap(m, TRUE),
         NEW q \in Models
  PROVE  MapInv(q)'
<1>1. TypeInv /\ ModelInv(m) /\ MapInv(q) /\ MapInv(m)
  BY DEF JInv, IInv
<1>2. CASE q # m
  <2>1. KeptMap(q)
    BY <1>1, <1>2 DEF KeptMap, AllocMap, UnmapDone, PreallocMap, AfterMap, AfterUnmap,
                      TypeInv, Add, Del
  <2> QED BY <1>1, <2>1, KeptMapInv
<1>3. CASE q = m
  <2> SUFFICES ASSUME faults' = 0 PROVE MapInv(m)'
    BY <1>3 DEF MapInv
  <2>1. faults = 0 /\ is_sleeping' = is_sleeping /\ admin' = admin /\ loaded' = loaded
    BY DEF AllocMap, UnmapDone, PreallocMap
  <2>2. /\ ~is_sleeping[m] /\ admin[m].pc \in {"idle", "load"}
        /\ admin[m].pc = "load" => m \notin loaded
        /\ m \notin loaded => sched'[m].pc = "idle"
    <3>1. CASE PreallocMap(m, TRUE)
      BY <3>1, <1>1, <2>1 DEF PreallocMap, ModelInv, MapInv
    <3>2. CASE AllocMap(m, TRUE) \/ UnmapDone(m, TRUE)
      BY <3>2, <2>1, Awake DEF AllocMap, UnmapDone
    <3> QED BY <3>1, <3>2
  <2>3. mapped[m] = Mine(m) \union
                    (IF sched[m].pc \in {"insert", "unmap"} THEN sched[m].pages ELSE {})
    BY <1>1, <2>1, <2>2 DEF MapInv
  <2>4. SUFFICES Mine(m)' \union
                 (IF sched'[m].pc \in {"insert", "unmap"} THEN sched'[m].pages ELSE {})
                 = mapped'[m]
    BY <2>1, <2>2 DEF MapInv
  <2>5. CASE AllocMap(m, TRUE)
    <3>1. /\ sched[m].pc = "map" /\ sched'[m].pc = "insert"
          /\ sched'[m].pages = sched[m].pages /\ reserved' = reserved /\ allocated' = allocated
          /\ mapped'[m] = mapped[m] \union sched[m].pages
      BY <2>5, <1>1 DEF AllocMap, AfterMap, TypeInv, Calls, Add
    <3> QED BY <2>3, <3>1 DEF Mine
  <2>6. CASE UnmapDone(m, TRUE)
    <3>1. /\ sched[m].pc = "unmap" /\ sched'[m].pc = "idle"
          /\ reserved' = reserved /\ allocated' = allocated
          /\ mapped'[m] = mapped[m] \ sched[m].pages
      BY <2>6, <1>1 DEF UnmapDone, AfterUnmap, GiveBack, TypeInv, Idle, At, Del
    <3>2. Mine(m) \intersect sched[m].pages = {}
      BY <1>1, FieldTypes DEF ModelInv, Cover, Mine
    <3> QED BY <2>3, <3>1, <3>2 DEF Mine
  <2>7. CASE PreallocMap(m, TRUE)
    <3>1. /\ sched' = sched /\ allocated' = allocated
          /\ reserved'[m] = reserved[m] \union pre[m].pages
          /\ mapped'[m] = mapped[m] \union pre[m].pages
      BY <2>7, <1>1, <2>2 DEF PreallocMap, AfterMap, TypeInv, Add
    <3> QED BY <2>3, <3>1 DEF Mine
  <2> QED BY <2>5, <2>6, <2>7
<1> QED BY <1>2, <1>3

\* Steps that touch neither the lists in use nor a mapping.
LEMMA OthersMapInv ==
  ASSUME JInv, UNCHANGED faults,
         PreallocTake \/ \E m \in Models : PreallocCheck(m),
         NEW q \in Models
  PROVE  MapInv(q)'
<1>1. KeptMap(q)
  BY DEF KeptMap, PreallocTake, PreallocCheck
<1> QED BY <1>1, KeptMapInv DEF JInv

\* The weights of a model that is awake and has no call yet.
LEMMA LoadsMapInv ==
  ASSUME JInv, NEW m \in Models, UNCHANGED faults, LoadWeights(m) \/ LoadMap(m, TRUE),
         NEW q \in Models
  PROVE  MapInv(q)'
<1>1. TypeInv /\ MapInv(q) /\ MapInv(m)
  BY DEF JInv, IInv
<1>2. UNCHANGED <<reserved, allocated, is_sleeping, sched, mapped>>
  BY DEF LoadWeights, LoadMap, lists
<1>3. CASE q # m
  <2>1. admin'[q] = admin[q] /\ (q \in loaded' <=> q \in loaded)
    BY <1>1, <1>3 DEF LoadWeights, LoadMap, TypeInv
  <2>2. KeptMap(q)
    BY <1>2, <2>1 DEF KeptMap
  <2> QED BY <1>1, <2>2, KeptMapInv
<1>4. CASE q = m
  <2> SUFFICES ASSUME faults' = 0 PROVE MapInv(m)'
    BY <1>4 DEF MapInv
  <2>1. CASE LoadWeights(m)
    <3>1. /\ admin'[m].pc = "load" /\ m \notin loaded' /\ m \notin loaded /\ ~is_sleeping[m]
      BY <2>1, <1>1 DEF LoadWeights, TypeInv, At
    <3> QED BY <1>1, <1>2, <3>1 DEF MapInv, Mine
  <2>2. CASE LoadMap(m, TRUE)
    <3>1. admin[m].pc = "load" /\ admin'[m].pc = "idle" /\ m \in loaded'
      BY <2>2, <1>1 DEF LoadMap, TypeInv, Idle, At
    <3>2. ~is_sleeping[m]
      BY <1>1, <3>1 DEF MapInv
    <3> QED BY <1>1, <1>2, <3>1, <3>2 DEF MapInv, Mine
  <2> QED BY <2>1, <2>2
<1> QED BY <1>3, <1>4

\* Sleep and wake-up when no broadcast fails.
LEMMA SleepsMapInv ==
  ASSUME JInv, PausedAtSleep, NEW m \in Models, UNCHANGED faults,
         \/ SleepBegin(m) \/ SleepAtInit(m) \/ SleepWeights(m, TRUE)
         \/ SleepUnmap(m, TRUE) \/ WakeBegin(m) \/ WakeMap(m, TRUE),
         NEW q \in Models
  PROVE  MapInv(q)'
<1>1. TypeInv /\ MapInv(q) /\ MapInv(m)
  BY DEF JInv, IInv
<1>2. CASE q # m
  <2>1. KeptMap(q)
    BY <1>1, <1>2 DEF KeptMap, SleepBegin, SleepAtInit, SleepWeights, SleepUnmap, WakeBegin, WakeMap,
                      AfterMap, AfterUnmap, TypeInv, Add, Del, lists
  <2> QED BY <1>1, <2>1, KeptMapInv
<1>3. CASE q = m
  <2> SUFFICES ASSUME faults' = 0 PROVE MapInv(m)'
    BY <1>3 DEF MapInv
  <2>1. /\ faults = 0 /\ reserved' = reserved /\ allocated' = allocated /\ sched' = sched
        /\ Mine(m)' = Mine(m)
    BY DEF SleepBegin, SleepAtInit, SleepWeights, SleepUnmap, WakeBegin, WakeMap, lists, Mine
  <2>2. CASE SleepBegin(m)
    <3>1. /\ is_sleeping'[m] = TRUE /\ admin'[m].pc = "sleep" /\ admin'[m].pages = Mine(m)
          /\ sched[m].pc = "idle" /\ ~is_sleeping[m] /\ mapped' = mapped
      BY <2>2, <1>1 DEF SleepBegin, TypeInv, At
    <3> QED BY <1>1, <2>1, <3>1 DEF MapInv
  <2>7. CASE SleepAtInit(m)
    <3>1. /\ is_sleeping'[m] = TRUE /\ admin'[m].pc = "unmap" /\ admin'[m].pages = Mine(m)
          /\ ~is_sleeping[m] /\ m \notin loaded /\ loaded' = loaded /\ mapped' = mapped
      BY <2>7, <1>1 DEF SleepAtInit, TypeInv, At
    <3>2. sched[m].pc = "idle" /\ mapped[m] = Mine(m)
      BY <1>1, <2>1, <3>1 DEF MapInv
    <3> QED BY <2>1, <3>1, <3>2 DEF MapInv
  <2>3. CASE SleepWeights(m, TRUE)
    <3>1. /\ admin[m].pc = "sleep" /\ admin'[m].pc = "unmap" /\ admin'[m].pages = admin[m].pages
          /\ loaded' = loaded \ {m} /\ is_sleeping' = is_sleeping /\ mapped' = mapped
      BY <2>3, <1>1 DEF SleepWeights, TypeInv, Calls
    <3> QED BY <1>1, <2>1, <3>1 DEF MapInv
  <2>4. CASE SleepUnmap(m, TRUE)
    <3>1. /\ admin[m].pc = "unmap" /\ admin'[m].pc = "idle"
          /\ loaded' = loaded /\ is_sleeping' = is_sleeping
          /\ mapped'[m] = mapped[m] \ admin[m].pages
      BY <2>4, <1>1 DEF SleepUnmap, AfterUnmap, TypeInv, Del, Idle, At
    <3> QED BY <1>1, <2>1, <3>1 DEF MapInv
  <2>5. CASE WakeBegin(m)
    <3>1. /\ admin[m].pc = "idle" /\ admin'[m].pc = "wake" /\ admin'[m].pages = Mine(m)
          /\ is_sleeping[m] /\ loaded' = loaded /\ is_sleeping' = is_sleeping /\ mapped' = mapped
      BY <2>5, <1>1 DEF WakeBegin, TypeInv, At
    <3> QED BY <1>1, <2>1, <3>1 DEF MapInv
  <2>6. CASE WakeMap(m, TRUE)
    <3>1. /\ admin[m].pc = "wake" /\ admin'[m].pc = "idle" /\ is_sleeping'[m] = FALSE
          /\ m \in loaded' /\ mapped'[m] = mapped[m] \union admin[m].pages
      BY <2>6, <1>1 DEF WakeMap, AfterMap, TypeInv, Add, Idle, At
    <3>2. is_sleeping[m] /\ sched[m].pc = "idle" /\ mapped[m] = {} /\ admin[m].pages = Mine(m)
      BY <1>1, <2>1, <3>1 DEF MapInv
    <3> QED BY <2>1, <3>1, <3>2 DEF MapInv
  <2> QED BY <2>2, <2>3, <2>4, <2>5, <2>6, <2>7
<1> QED BY <1>2, <1>3

LEMMA NextJInv ==
  ASSUME JInv, PausedAtSleep, IdleAsleep, [Next]_vars
  PROVE  JInv'
<1>1. IInv'
  BY NextIInv DEF JInv
<1> SUFFICES ASSUME NEW q \in Models PROVE MapInv(q)'
  BY <1>1 DEF JInv
<1>2. CASE Locked /\ UNCHANGED faults
  BY <1>2, CallsMapInv, OthersMapInv, LoadsMapInv, SleepsMapInv DEF Locked
<1>3. CASE \E m \in Models, ok \in Outcomes :
             Broadcast(m, ok) /\ faults' = IF ok THEN faults ELSE faults + 1
  <2>1. PICK m \in Models, ok \in BOOLEAN :
          Broadcast(m, ok) /\ faults' = IF ok THEN faults ELSE faults + 1
    BY <1>3 DEF Outcomes
  <2>2. CASE ok = TRUE
    BY <2>1, <2>2, MapsMapInv, LoadsMapInv, SleepsMapInv DEF Broadcast
  <2>3. CASE ok = FALSE
    BY <2>1, <2>3 DEF JInv, IInv, TypeInv, MapInv
  <2> QED BY <2>2, <2>3
<1>4. CASE UNCHANGED vars
  BY <1>4, KeptMapInv DEF JInv, KeptMap, vars, lists
<1> QED BY <1>2, <1>3, <1>4 DEF Next

LEMMA InitJInv == Init => JInv
<1> SUFFICES ASSUME Init PROVE JInv
  OBVIOUS
<1>1. ASSUME NEW m \in Models PROVE MapInv(m)
  BY DEF Init, MapInv, Mine, Idle, At
<1> QED BY <1>1, InitIInv DEF JInv

\* As long as no broadcast fails and a sleeping model's block manager rests, a
\* page in the hands of a model that is awake is mapped, however allocation,
\* trimming and preallocation interleave with sleep and wake-up (sleep_model,
\* wakeup_model).
THEOREM PagesInUseAreMapped ==
  ASSUME PausedAtSleep, IdleAsleep
  PROVE  Spec => []HandedOutIsMapped
<1>1. Init => JInv
  BY InitJInv
<1>2. JInv /\ [Next]_vars => JInv'
  BY NextJInv
<1>3. JInv => HandedOutIsMapped
  BY DEF JInv, MapInv, HandedOutIsMapped, Mine
<1> QED BY <1>1, <1>2, <1>3, PTL DEF Spec

\* Under the same conditions nothing of a model is mapped once sleep_model has
\* returned, and until wake-up maps it again.
THEOREM SleepingModelHoldsNothing ==
  ASSUME PausedAtSleep, IdleAsleep
  PROVE  Spec => []AsleepHoldsNothing
<1>1. Init => JInv
  BY InitJInv
<1>2. JInv /\ [Next]_vars => JInv'
  BY NextJInv
<1>3. JInv => AsleepHoldsNothing
  BY DEF JInv, MapInv, AsleepHoldsNothing
<1> QED BY <1>1, <1>2, <1>3, PTL DEF Spec

-----------------------------------------------------------------------------
(* What is charged: everything that is mapped or about to be.              *)

\* The pages of m that worker_pages_used_ counts, and the models whose weights
\* it counts.
Charged(m) == mapped[m] \union sched[m].pages \union pre[m].pages \union
              (IF admin[m].pc = "wake" THEN admin[m].pages ELSE {})

ChargedPages   == [m \in Models |-> Charged(m)]
ChargedWeights == {m \in Models : m \in loaded \/ admin[m].pc \in {"load", "wake"}}

NumCharged == Cardinality(PagesOf(ChargedPages)) + WeightPages * Cardinality(ChargedWeights)

\* As long as no broadcast failed.
ChargeInv ==
  faults = 0 => /\ used = NumCharged
                /\ \A m \in Models : admin[m].pc = "sleep" => m \in loaded

UsedInv == used \in Nat /\ used <= TotalPhy

KInv == JInv /\ UsedInv /\ ChargeInv

LEMMA PairsFinite ==
  ASSUME NEW f
  PROVE  IsFiniteSet(PagesOf(f)) /\ Cardinality(PagesOf(f)) \in Nat
<1>1. IsFiniteSet(Models \X VirtPages)
  BY PageAssumption, FS_Product
<1>2. PagesOf(f) \in SUBSET (Models \X VirtPages)
  BY DEF PagesOf
<1> QED BY <1>1, <1>2, FS_Subset, FS_CardinalityType

\* Pages that come to one model are counted.
LEMMA PairsMore ==
  ASSUME NEW f \in [Models -> SUBSET VirtPages], NEW g \in [Models -> SUBSET VirtPages],
         NEW m \in Models, NEW X \in SUBSET VirtPages, X \intersect f[m] = {},
         g[m] = f[m] \union X, \A q \in Models \ {m} : g[q] = f[q]
  PROVE  Cardinality(PagesOf(g)) = Cardinality(PagesOf(f)) + Cardinality(X)
<1>1. PagesOf(g) = PagesOf(f) \union ({m} \X X)
  BY DEF PagesOf
<1>2. PagesOf(f) \intersect ({m} \X X) = {}
  BY DEF PagesOf
<1>3. /\ IsFiniteSet({m} \X X) /\ Cardinality({m} \X X) = Cardinality(X)
      /\ Cardinality(X) \in Nat
  <2>1. IsFiniteSet({m}) /\ Cardinality({m}) = 1
    BY FS_Singleton
  <2>2. IsFiniteSet(X) /\ Cardinality(X) \in Nat
    BY PagesFinite
  <2>3. IsFiniteSet({m} \X X) /\ Cardinality({m} \X X) = Cardinality({m}) * Cardinality(X)
    BY <2>1, <2>2, FS_Product
  <2> QED BY <2>1, <2>2, <2>3
<1>4. Cardinality(PagesOf(f) \intersect ({m} \X X)) = 0
  BY <1>2, FS_EmptySet
<1>5. Cardinality(PagesOf(f) \union ({m} \X X))
      = Cardinality(PagesOf(f)) + Cardinality({m} \X X)
        - Cardinality(PagesOf(f) \intersect ({m} \X X))
  BY <1>3, PairsFinite, FS_Union
<1>6. Cardinality(PagesOf(f)) \in Nat
  BY PairsFinite
<1> QED BY <1>1, <1>3, <1>4, <1>5, <1>6

LEMMA WeightsFinite ==
  /\ IsFiniteSet(ChargedWeights) /\ Cardinality(ChargedWeights) \in Nat
  /\ \A c \in Nat : /\ WeightPages * c \in Nat
                    /\ WeightPages * (c + 1) = WeightPages * c + WeightPages
<1>1. ChargedWeights \in SUBSET Models
  BY DEF ChargedWeights
<1>2. IsFiniteSet(ChargedWeights) /\ Cardinality(ChargedWeights) \in Nat
  BY <1>1, PageAssumption, FS_Subset, FS_CardinalityType
<1>3. WeightPages \in Nat
  BY PageAssumption
<1>4. \A c \in Nat : /\ WeightPages * c \in Nat
                     /\ WeightPages * (c + 1) = WeightPages * c + WeightPages
  BY <1>3
<1> QED BY <1>2, <1>4

LEMMA ChargedTypes ==
  ASSUME TypeInv
  PROVE  /\ ChargedPages \in [Models -> SUBSET VirtPages]
         /\ \A m \in Models : ChargedPages[m] = Charged(m) /\ Charged(m) \subseteq VirtPages
<1>1. ASSUME NEW m \in Models PROVE Charged(m) \subseteq VirtPages
  BY FieldTypes DEF Charged
<1> QED BY <1>1 DEF ChargedPages

LEMMA ChargedTypesNext ==
  ASSUME TypeInv'
  PROVE  /\ ChargedPages' \in [Models -> SUBSET VirtPages]
         /\ \A m \in Models : ChargedPages'[m] = Charged(m)'
<1>1. ASSUME NEW m \in Models PROVE Charged(m)' \subseteq VirtPages
  BY DEF TypeInv, Calls, Charged
<1> QED BY <1>1 DEF ChargedPages

\* The used count never exceeds the pages there are, failures or not.
LEMMA NextUsed ==
  ASSUME IInv, UsedInv, [Next]_vars
  PROVE  UsedInv'
<1>1. TypeInv /\ TotalPhy \in Nat /\ WeightPages \in Nat
  BY PageAssumption DEF IInv
<1>2. ASSUME NEW S \in SUBSET VirtPages
      PROVE  Released(Cardinality(S)) \in Nat /\ Released(Cardinality(S)) <= used
  BY PagesFinite DEF Released, UsedInv
<1>3. ASSUME NEW m \in Models PROVE
        /\ sched[m].pages \in SUBSET VirtPages /\ pre[m].pages \in SUBSET VirtPages
        /\ admin[m].pages \in SUBSET VirtPages
        /\ Mine(m) \in SUBSET VirtPages
  BY <1>1, FieldTypes DEF Mine
<1>4. Released(WeightPages) \in Nat /\ Released(WeightPages) <= used
  BY <1>1 DEF Released, UsedInv
<1>5. CASE Locked /\ UNCHANGED faults
  <2>1. CASE PreallocTake
    <3>1. PICK n \in Nat : has_enough_phy_pages(n) /\ used' = used + n
      BY <2>1, PairsFinite DEF PreallocTake
    <3> QED BY <1>1, <3>1 DEF UsedInv, has_enough_phy_pages
  <2>2. ASSUME NEW m \in Models, LoadWeights(m) \/ AllocTake(m) \/ WakeBegin(m)
        PROVE  UsedInv'
    <3>1. Cardinality(Mine(m)) \in Nat
      BY <1>3, PagesFinite
    <3> QED BY <1>1, <2>2, <3>1
            DEF LoadWeights, AllocTake, WakeBegin, WakeNeed, UsedInv, has_enough_phy_pages
  <2>3. ASSUME NEW m \in Models, PreallocCheck(m) PROVE UsedInv'
    BY <1>1, <1>2, <1>3, <2>3 DEF PreallocCheck, GiveBack, UsedInv
  <2>4. ASSUME NEW m \in Models,
               \/ AllocFast(m) \/ AllocInsert(m) \/ TrimPages(m)
               \/ SleepBegin(m) \/ SleepAtInit(m)
               \/ \E pages \in SUBSET allocated[m] : FreePages(m, pages)
        PROVE  UsedInv'
    BY <2>4 DEF AllocFast, AllocInsert, TrimPages, SleepBegin, SleepAtInit, FreePages,
                UsedInv
  <2> QED BY <1>5, <2>1, <2>2, <2>3, <2>4 DEF Locked
<1>6. ASSUME NEW m \in Models, NEW ok \in BOOLEAN, Broadcast(m, ok) PROVE UsedInv'
  <2>1. \/ used' = used \/ used' = Released(WeightPages)
        \/ \E S \in SUBSET VirtPages : used' = Released(Cardinality(S))
    <3>1. CASE AllocMap(m, ok)
      BY <1>3, <3>1 DEF AllocMap, GiveBack
    <3>2. CASE UnmapDone(m, ok)
      BY <1>3, <3>2 DEF UnmapDone, GiveBack
    <3>3. CASE PreallocMap(m, ok)
      BY <1>3, <3>3 DEF PreallocMap, GiveBack
    <3>4. CASE LoadMap(m, ok) \/ SleepWeights(m, ok) \/ SleepUnmap(m, ok) \/ WakeMap(m, ok)
      BY <1>3, <3>4 DEF LoadMap, SleepWeights, SleepUnmap, WakeMap
    <3> QED BY <1>6, <3>1, <3>2, <3>3, <3>4 DEF Broadcast
  <2> QED BY <1>1, <1>2, <1>4, <2>1 DEF UsedInv
<1>7. CASE UNCHANGED vars
  BY <1>7 DEF vars, UsedInv
<1> QED BY <1>5, <1>6, <1>7 DEF Next, Outcomes

KeptCharge(q) ==
  /\ mapped'[q] = mapped[q] /\ sched'[q] = sched[q] /\ pre'[q] = pre[q]
  /\ admin'[q] = admin[q]

LEMMA KeptCharged ==
  ASSUME NEW q, KeptCharge(q)
  PROVE  Charged(q)' = Charged(q)
BY DEF KeptCharge, Charged

\* A step that leaves the charge of every model as it is.
LEMMA SameCharge ==
  ASSUME TypeInv, TypeInv', faults = 0, ChargeInv, NEW m \in Models,
         used' = used, Charged(m)' = Charged(m),
         \A q \in Models \ {m} : KeptCharge(q),
         ChargedWeights' = ChargedWeights,
         \A q \in Models : admin'[q].pc = "sleep" => q \in loaded'
  PROVE  ChargeInv'
<1>1. \A q \in Models : Charged(q)' = Charged(q)
  BY KeptCharged
<1>2. ChargedPages' = ChargedPages
  BY <1>1 DEF ChargedPages
<1>3. PagesOf(ChargedPages)' = PagesOf(ChargedPages)
  BY <1>2 DEF PagesOf
<1> QED BY <1>3 DEF ChargeInv, NumCharged

\* Pages are charged, or given back, with no weights.
LEMMA MoreCharge ==
  ASSUME TypeInv, TypeInv', NEW m \in Models, NEW X \in SUBSET VirtPages,
         X \intersect Charged(m) = {}, Charged(m)' = Charged(m) \union X,
         \A q \in Models \ {m} : KeptCharge(q)
  PROVE  Cardinality(PagesOf(ChargedPages)') = Cardinality(PagesOf(ChargedPages)) + Cardinality(X)
<1> DEFINE f == ChargedPages
           g == ChargedPages'
<1>1. f \in [Models -> SUBSET VirtPages] /\ \A q \in Models : f[q] = Charged(q)
  BY ChargedTypes
<1>2. g \in [Models -> SUBSET VirtPages] /\ \A q \in Models : g[q] = Charged(q)'
  BY ChargedTypesNext
<1>3. \A q \in Models \ {m} : Charged(q)' = Charged(q)
  BY KeptCharged
<1>4. PagesOf(ChargedPages)' = PagesOf(g)
  BY DEF PagesOf
<1> HIDE DEF f, g
<1>5. Cardinality(PagesOf(g)) = Cardinality(PagesOf(f)) + Cardinality(X)
  BY <1>1, <1>2, <1>3, PairsMore
<1> QED BY <1>4, <1>5 DEF f

LEMMA LessCharge ==
  ASSUME TypeInv, TypeInv', NEW m \in Models, NEW X \in SUBSET VirtPages,
         X \subseteq Charged(m), Charged(m)' = Charged(m) \ X,
         \A q \in Models \ {m} : KeptCharge(q)
  PROVE  Cardinality(PagesOf(ChargedPages)) = Cardinality(PagesOf(ChargedPages)') + Cardinality(X)
<1> DEFINE f == ChargedPages
           g == ChargedPages'
<1>1. f \in [Models -> SUBSET VirtPages] /\ \A q \in Models : f[q] = Charged(q)
  BY ChargedTypes
<1>2. g \in [Models -> SUBSET VirtPages] /\ \A q \in Models : g[q] = Charged(q)'
  BY ChargedTypesNext
<1>3. \A q \in Models \ {m} : Charged(q)' = Charged(q)
  BY KeptCharged
<1>4. PagesOf(ChargedPages)' = PagesOf(g)
  BY DEF PagesOf
<1>5. X \intersect g[m] = {} /\ f[m] = g[m] \union X
  BY <1>1, <1>2
<1> HIDE DEF f, g
<1>6. Cardinality(PagesOf(f)) = Cardinality(PagesOf(g)) + Cardinality(X)
  BY <1>1, <1>2, <1>3, <1>5, PairsMore
<1> QED BY <1>4, <1>6 DEF f

LEMMA LessUsed ==
  ASSUME TypeInv, TypeInv', faults = 0, ChargeInv, NEW m \in Models,
         NEW X \in SUBSET VirtPages,
         X \subseteq Charged(m), Charged(m)' = Charged(m) \ X,
         used' = Released(Cardinality(X)),
         \A q \in Models \ {m} : KeptCharge(q),
         ChargedWeights' = ChargedWeights,
         \A q \in Models : admin'[q].pc = "sleep" => q \in loaded'
  PROVE  ChargeInv'
<1> DEFINE P == Cardinality(PagesOf(ChargedPages))
           Q == Cardinality(PagesOf(ChargedPages)')
           W == WeightPages * Cardinality(ChargedWeights)
<1>1. P \in Nat /\ Q \in Nat /\ W \in Nat /\ Cardinality(X) \in Nat
  <2>1. Q = Cardinality(PagesOf(ChargedPages'))
    BY DEF PagesOf
  <2> QED BY <2>1, PairsFinite, WeightsFinite, PagesFinite
<1>2. P = Q + Cardinality(X)
  BY LessCharge
<1>3. used = P + W
  BY DEF ChargeInv, NumCharged
<1>4. NumCharged' = Q + W
  BY DEF NumCharged
<1> HIDE DEF P, Q, W
<1>5. used' = Q + W
  BY <1>1, <1>2, <1>3 DEF Released
<1> QED BY <1>4, <1>5 DEF ChargeInv

\* A step of the block manager, or the end of one of its calls.
LEMMA CallsCharge ==
  ASSUME KInv, JInv', IdleAsleep, NEW m \in Models, faults = 0,
         \/ AllocFast(m) \/ AllocInsert(m) \/ TrimPages(m) \/ AllocMap(m, TRUE)
         \/ \E pages \in SUBSET allocated[m] : FreePages(m, pages)
  PROVE  ChargeInv'
<1>1. TypeInv /\ TypeInv' /\ ModelInv(m) /\ MapInv(m) /\ ChargeInv
  BY DEF KInv, JInv, IInv
<1>2. /\ used' = used /\ pre' = pre /\ admin' = admin /\ loaded' = loaded
      /\ ~is_sleeping[m] /\ admin[m].pc = "idle"
  BY Awake DEF AllocFast, AllocInsert, TrimPages, AllocMap, FreePages, KInv
<1>3. mapped[m] = Mine(m) \union
                  (IF sched[m].pc \in {"insert", "unmap"} THEN sched[m].pages ELSE {})
  BY <1>1, <1>2 DEF MapInv
<1>4. \A q \in Models \ {m} : KeptCharge(q)
  BY <1>1, <1>2 DEF KeptCharge, AllocFast, AllocInsert, TrimPages, AllocMap, FreePages,
                    TypeInv, AfterMap, Add
<1>5. mapped'[m] \union sched'[m].pages = mapped[m] \union sched[m].pages
  <2>1. CASE AllocFast(m)
    BY <2>1 DEF AllocFast
  <2>2. CASE AllocInsert(m)
    <3>1. sched'[m].pages = {} /\ sched[m].pc = "insert" /\ mapped' = mapped
      BY <2>2, <1>1 DEF AllocInsert, TypeInv, Idle, At
    <3> QED BY <1>3, <3>1
  <2>3. CASE TrimPages(m)
    <3>1. sched'[m].pages = reserved[m] /\ sched[m].pc = "idle" /\ mapped' = mapped
      BY <2>3, <1>1 DEF TrimPages, CanCall, TypeInv, At
    <3> QED BY <1>1, <1>3, <3>1 DEF ModelInv, Mine
  <2>4. CASE AllocMap(m, TRUE)
    <3>1. sched'[m].pages = sched[m].pages /\ mapped'[m] = mapped[m] \union sched[m].pages
      BY <2>4, <1>1 DEF AllocMap, AfterMap, TypeInv, Calls, Add
    <3> QED BY <3>1
  <2>5. ASSUME NEW pages \in SUBSET allocated[m], FreePages(m, pages)
        PROVE  mapped'[m] \union sched'[m].pages = mapped[m] \union sched[m].pages
    <3>1. /\ sched'[m].pages \subseteq allocated[m] /\ sched[m].pc = "idle"
          /\ mapped' = mapped
      BY <2>5, <1>1 DEF FreePages, CanCall, TypeInv, At, Idle
    <3> QED BY <1>1, <1>3, <3>1 DEF ModelInv, Mine
  <2> QED BY <2>1, <2>2, <2>3, <2>4, <2>5
<1>6. Charged(m)' = Charged(m)
  BY <1>2, <1>5 DEF Charged
<1>7. ChargedWeights' = ChargedWeights
  BY <1>2 DEF ChargedWeights
<1>8. \A q \in Models : admin'[q].pc = "sleep" => q \in loaded'
  BY <1>1, <1>2 DEF ChargeInv
<1> QED BY <1>1, <1>2, <1>4, <1>6, <1>7, <1>8, SameCharge

LEMMA AllocTakeCharge ==
  ASSUME KInv, JInv', NEW m \in Models, faults = 0, AllocTake(m)
  PROVE  ChargeInv'
<1>1. TypeInv /\ TypeInv' /\ ModelInv(m) /\ MapInv(m) /\ ChargeInv
  BY DEF KInv, JInv, IInv
<1>2. PICK v \in free[m] : sched' = [sched EXCEPT ![m] = At("map", {v})]
  BY DEF AllocTake
<1>3. /\ used' = used + 1 /\ pre' = pre /\ admin' = admin /\ loaded' = loaded
      /\ mapped' = mapped /\ ~is_sleeping[m] /\ admin[m].pc = "idle"
      /\ sched[m].pc = "idle" /\ sched'[m].pages = {v}
  BY <1>1, <1>2 DEF AllocTake, CanCall, MapInv, TypeInv, At
<1>4. sched[m].pages = {} /\ mapped[m] = Mine(m) /\ v \in VirtPages
  BY <1>1, <1>3, FieldTypes DEF MapInv, ModelInv
<1>5. {v} \intersect Charged(m) = {}
  BY <1>1, <1>3, <1>4 DEF Charged, ModelInv, Cover, Mine
<1>6. Charged(m)' = Charged(m) \union {v}
  BY <1>3, <1>4 DEF Charged
<1>7. \A q \in Models \ {m} : KeptCharge(q)
  BY <1>1, <1>2, <1>3 DEF KeptCharge, TypeInv
<1>8. Cardinality(PagesOf(ChargedPages)') = Cardinality(PagesOf(ChargedPages)) + 1
  <2>1. {v} \in SUBSET VirtPages
    BY <1>4
  <2>2. Cardinality(PagesOf(ChargedPages)')
        = Cardinality(PagesOf(ChargedPages)) + Cardinality({v})
    BY <1>1, <1>5, <1>6, <1>7, <2>1, MoreCharge
  <2>3. Cardinality({v}) = 1
    BY FS_Singleton
  <2> QED BY <2>2, <2>3
<1>9. ChargedWeights' = ChargedWeights
  BY <1>3 DEF ChargedWeights
<1>10. used = NumCharged /\ \A q \in Models : admin'[q].pc = "sleep" => q \in loaded'
  BY <1>1, <1>3 DEF ChargeInv
<1>11. Cardinality(PagesOf(ChargedPages)) \in Nat /\ WeightPages * Cardinality(ChargedWeights) \in Nat
  BY PairsFinite, WeightsFinite
<1>12. used' = NumCharged'
  BY <1>3, <1>8, <1>9, <1>10, <1>11 DEF NumCharged
<1> QED BY <1>10, <1>12 DEF ChargeInv

LEMMA UnmapCharge ==
  ASSUME KInv, JInv', IdleAsleep, NEW m \in Models, faults = 0, UnmapDone(m, TRUE)
  PROVE  ChargeInv'
<1> DEFINE X == sched[m].pages
<1>1. TypeInv /\ TypeInv' /\ ModelInv(m) /\ MapInv(m) /\ ChargeInv
  BY DEF KInv, JInv, IInv
<1>2. /\ sched[m].pc = "unmap" /\ ~is_sleeping[m] /\ admin[m].pc = "idle"
      /\ pre' = pre /\ admin' = admin /\ loaded' = loaded
      /\ used' = Released(Cardinality(X))
  BY Awake DEF UnmapDone, KInv, GiveBack
<1>3. sched'[m].pages = {} /\ mapped'[m] = mapped[m] \ X
  BY <1>1 DEF UnmapDone, AfterUnmap, TypeInv, Idle, At, Del
<1>4. X \in SUBSET VirtPages /\ X \intersect pre[m].pages = {}
  BY <1>1, FieldTypes DEF ModelInv, Cover
<1>5. X \subseteq Charged(m) /\ Charged(m)' = Charged(m) \ X
  BY <1>2, <1>3, <1>4 DEF Charged
<1>6. \A q \in Models \ {m} : KeptCharge(q)
  BY <1>1, <1>2 DEF KeptCharge, TypeInv, UnmapDone, AfterUnmap, Del
<1>7. ChargedWeights' = ChargedWeights
  BY <1>2 DEF ChargedWeights
<1>8. \A q \in Models : admin'[q].pc = "sleep" => q \in loaded'
  BY <1>1, <1>2 DEF ChargeInv
<1> HIDE DEF X
<1> QED BY <1>1, <1>2, <1>4, <1>5, <1>6, <1>7, <1>8, LessUsed

\* The preallocation thread.
LEMMA PreallocTakeCharge ==
  ASSUME KInv, JInv', faults = 0, PreallocTake
  PROVE  ChargeInv'
<1>1. TypeInv /\ TypeInv' /\ ChargeInv /\ \A m \in Models : ModelInv(m) /\ MapInv(m)
  BY DEF KInv, JInv, IInv
<1>2. PICK take \in [Models -> SUBSET VirtPages] :
        /\ \A m \in Models : take[m] \subseteq free[m]
        /\ used' = used + Cardinality(PagesOf(take))
        /\ pre' = [m \in Models |-> IF take[m] = {} THEN Idle ELSE At("taken", take[m])]
  BY DEF PreallocTake
<1>3. UNCHANGED <<sched, admin, mapped, loaded>> /\ \A m \in Models : pre[m].pc = "idle"
  BY DEF PreallocTake
<1>4. ASSUME NEW m \in Models
      PROVE  Charged(m)' = Charged(m) \union take[m] /\ Charged(m) \intersect take[m] = {}
  <2>1. pre'[m].pages = take[m] /\ pre[m].pages = {}
    BY <1>1, <1>2, <1>3 DEF Idle, At, ModelInv
  <2>2. mapped[m] \subseteq Mine(m) \union sched[m].pages
    BY <1>1 DEF MapInv
  <2>3. admin[m].pc = "wake" => admin[m].pages = Mine(m)
    BY <1>1 DEF MapInv
  <2>4. (Mine(m) \union sched[m].pages) \intersect take[m] = {}
    <3>1. take[m] \subseteq VirtPages /\ take[m] \subseteq free[m]
      BY <1>2
    <3> QED BY <1>1, <3>1 DEF ModelInv, Cover, Mine
  <2> QED BY <1>3, <2>1, <2>2, <2>3, <2>4 DEF Charged
<1>5. /\ PagesOf(ChargedPages)' = PagesOf(ChargedPages) \union PagesOf(take)
      /\ PagesOf(ChargedPages) \intersect PagesOf(take) = {}
  <2>1. \A q \in Models : ChargedPages'[q] = Charged(q)' /\ ChargedPages[q] = Charged(q)
    BY DEF ChargedPages
  <2>2. PagesOf(ChargedPages)' = PagesOf(ChargedPages')
    BY DEF PagesOf
  <2>3. \A q \in Models : /\ ChargedPages'[q] = ChargedPages[q] \union take[q]
                          /\ ChargedPages[q] \intersect take[q] = {}
    BY <1>4, <2>1
  <2>4. \A x \in Models \X VirtPages : x[1] \in Models
    OBVIOUS
  <2>5. /\ PagesOf(ChargedPages') = PagesOf(ChargedPages) \union PagesOf(take)
        /\ PagesOf(ChargedPages) \intersect PagesOf(take) = {}
    BY <2>3, <2>4 DEF PagesOf
  <2> QED BY <2>2, <2>5
<1>6. /\ Cardinality(PagesOf(ChargedPages)) \in Nat /\ Cardinality(PagesOf(take)) \in Nat
      /\ WeightPages * Cardinality(ChargedWeights) \in Nat
  BY PairsFinite, WeightsFinite
<1>7. Cardinality(PagesOf(ChargedPages)')
      = Cardinality(PagesOf(ChargedPages)) + Cardinality(PagesOf(take))
  <2>1. Cardinality(PagesOf(ChargedPages) \union PagesOf(take))
        = Cardinality(PagesOf(ChargedPages)) + Cardinality(PagesOf(take))
          - Cardinality(PagesOf(ChargedPages) \intersect PagesOf(take))
    BY PairsFinite, FS_Union
  <2>2. Cardinality({}) = 0
    BY FS_EmptySet
  <2> QED BY <1>5, <1>6, <2>1, <2>2
<1>8. ChargedWeights' = ChargedWeights
  BY <1>3 DEF ChargedWeights
<1>9. used = NumCharged /\ \A q \in Models : admin'[q].pc = "sleep" => q \in loaded'
  BY <1>1, <1>3 DEF ChargeInv
<1>10. used' = NumCharged'
  BY <1>2, <1>6, <1>7, <1>8, <1>9 DEF NumCharged
<1> QED BY <1>9, <1>10 DEF ChargeInv

LEMMA PreallocCharge ==
  ASSUME KInv, JInv', NEW m \in Models, faults = 0,
         PreallocCheck(m) \/ PreallocMap(m, TRUE)
  PROVE  ChargeInv'
<1> DEFINE X == pre[m].pages
<1>1. TypeInv /\ TypeInv' /\ ModelInv(m) /\ MapInv(m) /\ ChargeInv
  BY DEF KInv, JInv, IInv
<1>2. UNCHANGED <<sched, admin, loaded>>
  BY DEF PreallocCheck, PreallocMap
<1>3. \A q \in Models \ {m} : KeptCharge(q)
  BY <1>1, <1>2 DEF KeptCharge, TypeInv, PreallocCheck, PreallocMap, AfterMap, Add
<1>4. ChargedWeights' = ChargedWeights
  BY <1>2 DEF ChargedWeights
<1>5. \A q \in Models : admin'[q].pc = "sleep" => q \in loaded'
  BY <1>1, <1>2 DEF ChargeInv
<1>6. CASE PreallocMap(m, TRUE)
  <2>1. /\ ~is_sleeping[m] /\ used' = used
        /\ mapped'[m] = mapped[m] \union X /\ pre'[m].pages = {}
    BY <1>1, <1>6 DEF PreallocMap, ModelInv, AfterMap, TypeInv, Add, Idle, At
  <2>2. Charged(m)' = Charged(m)
    BY <1>2, <2>1 DEF Charged
  <2> QED BY <1>1, <1>3, <1>4, <1>5, <2>1, <2>2, SameCharge
<1>7. CASE PreallocCheck(m) /\ ~is_sleeping[m]
  <2>1. used' = used /\ mapped' = mapped /\ pre'[m].pages = X
    BY <1>1, <1>7 DEF PreallocCheck, TypeInv, Calls
  <2>2. Charged(m)' = Charged(m)
    BY <1>2, <2>1 DEF Charged
  <2> QED BY <1>1, <1>3, <1>4, <1>5, <2>1, <2>2, SameCharge
<1>8. CASE PreallocCheck(m) /\ is_sleeping[m]
  <2>1. used' = Released(Cardinality(X)) /\ mapped' = mapped /\ pre'[m].pages = {}
    BY <1>1, <1>8 DEF PreallocCheck, GiveBack, TypeInv, Idle, At
  <2>2. X \in SUBSET VirtPages /\ X \intersect (Mine(m) \union sched[m].pages) = {}
    BY <1>1, FieldTypes DEF ModelInv, Cover, Mine
  <2>3. mapped[m] \subseteq Mine(m) /\ (admin[m].pc = "wake" => admin[m].pages = Mine(m))
    BY <1>1, <1>8 DEF MapInv
  <2>4. X \subseteq Charged(m) /\ Charged(m)' = Charged(m) \ X
    BY <1>2, <2>1, <2>2, <2>3 DEF Charged
  <2> HIDE DEF X
  <2> QED BY <1>1, <1>3, <1>4, <1>5, <2>1, <2>2, <2>4, LessUsed
<1> QED BY <1>6, <1>7, <1>8

\* Weights, sleep and wake-up.
LEMMA LoadCharge ==
  ASSUME KInv, JInv', NEW m \in Models, faults = 0, LoadWeights(m)
  PROVE  ChargeInv'
<1>1. TypeInv /\ TypeInv' /\ MapInv(m) /\ ChargeInv
  BY DEF KInv, JInv, IInv
<1>2. /\ UNCHANGED <<mapped, sched, pre, loaded>> /\ used' = used + WeightPages
      /\ m \notin loaded /\ admin[m].pc = "idle" /\ admin'[m].pc = "load"
      /\ \A q \in Models \ {m} : admin'[q] = admin[q]
  BY <1>1 DEF LoadWeights, TypeInv, At
<1>3. PagesOf(ChargedPages)' = PagesOf(ChargedPages)
  <2>1. ASSUME NEW q \in Models PROVE Charged(q)' = Charged(q)
    BY <1>2 DEF Charged
  <2>2. ChargedPages' = ChargedPages
    BY <2>1 DEF ChargedPages
  <2> QED BY <2>2 DEF PagesOf
<1>4. ChargedWeights' = ChargedWeights \union {m} /\ m \notin ChargedWeights
  BY <1>2 DEF ChargedWeights
<1>5. Cardinality(ChargedWeights') = Cardinality(ChargedWeights) + 1
  BY <1>4, WeightsFinite, FS_AddElement
<1>6. /\ Cardinality(PagesOf(ChargedPages)) \in Nat
      /\ WeightPages * Cardinality(ChargedWeights) \in Nat
      /\ WeightPages * Cardinality(ChargedWeights') =
           WeightPages * Cardinality(ChargedWeights) + WeightPages
  BY <1>5, PairsFinite, WeightsFinite
<1>7. used = NumCharged /\ \A q \in Models : admin'[q].pc = "sleep" => q \in loaded'
  BY <1>1, <1>2 DEF ChargeInv
<1>8. used' = NumCharged'
  BY <1>2, <1>3, <1>6, <1>7, PageAssumption DEF NumCharged
<1> QED BY <1>7, <1>8 DEF ChargeInv

LEMMA SleepCharge ==
  ASSUME KInv, JInv', NEW m \in Models, faults = 0,
         \/ LoadMap(m, TRUE) \/ SleepBegin(m) \/ SleepAtInit(m)
         \/ SleepUnmap(m, TRUE) \/ WakeMap(m, TRUE)
  PROVE  ChargeInv'
<1>1. TypeInv /\ TypeInv' /\ ModelInv(m) /\ MapInv(m) /\ ChargeInv
  BY DEF KInv, JInv, IInv
<1>2. UNCHANGED <<sched, pre>>
  BY DEF LoadMap, SleepBegin, SleepAtInit, SleepUnmap, WakeMap
<1>3. \A q \in Models \ {m} : KeptCharge(q)
  BY <1>1, <1>2 DEF KeptCharge, TypeInv, LoadMap, SleepBegin, SleepAtInit, SleepUnmap,
                    WakeMap, AfterMap, AfterUnmap, Add, Del
<1>4. CASE SleepBegin(m)
  <2>1. /\ used' = used /\ mapped' = mapped /\ loaded' = loaded
        /\ m \in loaded /\ admin' = [admin EXCEPT ![m] = At("sleep", Mine(m))]
        /\ admin[m].pc = "idle"
    BY <1>4 DEF SleepBegin
  <2>2. admin'[m].pc = "sleep" /\ \A q \in Models \ {m} : admin'[q] = admin[q]
    BY <1>1, <2>1 DEF TypeInv, At
  <2>3. Charged(m)' = Charged(m)
    BY <1>2, <2>1, <2>2 DEF Charged
  <2>4. ChargedWeights' = ChargedWeights
    BY <2>1, <2>2 DEF ChargedWeights
  <2>5. \A q \in Models : admin'[q].pc = "sleep" => q \in loaded'
    BY <1>1, <2>1, <2>2 DEF ChargeInv
  <2> QED BY <1>1, <1>3, <2>1, <2>3, <2>4, <2>5, SameCharge
<1>7. CASE SleepAtInit(m)
  <2>1. /\ used' = used /\ mapped' = mapped /\ loaded' = loaded /\ admin[m].pc = "idle"
        /\ admin'[m].pc = "unmap" /\ \A q \in Models \ {m} : admin'[q] = admin[q]
    BY <1>1, <1>7 DEF SleepAtInit, TypeInv, At
  <2>2. Charged(m)' = Charged(m)
    BY <1>2, <2>1 DEF Charged
  <2>3. ChargedWeights' = ChargedWeights
    BY <2>1 DEF ChargedWeights
  <2>4. \A q \in Models : admin'[q].pc = "sleep" => q \in loaded'
    BY <1>1, <2>1 DEF ChargeInv
  <2> QED BY <1>1, <1>3, <2>1, <2>2, <2>3, <2>4, SameCharge
<1>8. CASE LoadMap(m, TRUE)
  <2>1. /\ used' = used /\ mapped' = mapped /\ loaded' = loaded \union {m}
        /\ admin[m].pc = "load" /\ admin'[m].pc = "idle"
        /\ \A q \in Models \ {m} : admin'[q] = admin[q]
    BY <1>1, <1>8 DEF LoadMap, TypeInv, Idle, At
  <2>2. Charged(m)' = Charged(m)
    BY <1>2, <2>1 DEF Charged
  <2>3. ChargedWeights' = ChargedWeights
    BY <2>1 DEF ChargedWeights
  <2>4. \A q \in Models : admin'[q].pc = "sleep" => q \in loaded'
    BY <1>1, <2>1 DEF ChargeInv
  <2> QED BY <1>1, <1>3, <2>1, <2>2, <2>3, <2>4, SameCharge
<1>5. CASE SleepUnmap(m, TRUE)
  <2> DEFINE X == admin[m].pages
  <2>1. /\ used' = Released(Cardinality(X)) /\ mapped'[m] = mapped[m] \ X
        /\ loaded' = loaded /\ admin' = [admin EXCEPT ![m] = Idle]
        /\ admin[m].pc = "unmap"
    BY <1>1, <1>5 DEF SleepUnmap, AfterUnmap, TypeInv, Del
  <2>2. admin'[m].pc = "idle" /\ \A q \in Models \ {m} : admin'[q] = admin[q]
    BY <1>1, <2>1 DEF TypeInv, Idle, At
  <2>3. /\ is_sleeping[m] /\ sched[m].pc = "idle" /\ m \notin loaded
        /\ mapped[m] = X /\ X = Mine(m)
    BY <1>1, <2>1 DEF MapInv
  <2>4. sched[m].pages = {} /\ X \in SUBSET VirtPages /\ X \intersect pre[m].pages = {}
    BY <1>1, <2>3, FieldTypes DEF ModelInv, Cover, Mine
  <2>5. X \subseteq Charged(m) /\ Charged(m)' = Charged(m) \ X
    BY <1>2, <2>1, <2>2, <2>3, <2>4 DEF Charged
  <2>6. ChargedWeights' = ChargedWeights
    BY <2>1, <2>2 DEF ChargedWeights
  <2>7. \A q \in Models : admin'[q].pc = "sleep" => q \in loaded'
    BY <1>1, <2>1, <2>2 DEF ChargeInv
  <2> HIDE DEF X
  <2> QED BY <1>1, <1>3, <2>1, <2>4, <2>5, <2>6, <2>7, LessUsed
<1>6. CASE WakeMap(m, TRUE)
  <2>1. /\ used' = used /\ mapped'[m] = mapped[m] \union admin[m].pages
        /\ loaded' = loaded \union {m} /\ admin' = [admin EXCEPT ![m] = Idle]
        /\ admin[m].pc = "wake"
    BY <1>1, <1>6 DEF WakeMap, AfterMap, TypeInv, Add
  <2>2. admin'[m].pc = "idle" /\ \A q \in Models \ {m} : admin'[q] = admin[q]
    BY <1>1, <2>1 DEF TypeInv, Idle, At
  <2>3. Charged(m)' = Charged(m)
    BY <1>2, <2>1, <2>2 DEF Charged
  <2>4. ChargedWeights' = ChargedWeights
    BY <2>1, <2>2 DEF ChargedWeights
  <2>5. \A q \in Models : admin'[q].pc = "sleep" => q \in loaded'
    BY <1>1, <2>1, <2>2 DEF ChargeInv
  <2> QED BY <1>1, <1>3, <2>1, <2>3, <2>4, <2>5, SameCharge
<1> QED BY <1>4, <1>5, <1>6, <1>7, <1>8

LEMMA SleepWeightsCharge ==
  ASSUME KInv, JInv', NEW m \in Models, faults = 0, SleepWeights(m, TRUE)
  PROVE  ChargeInv'
<1>1. TypeInv /\ TypeInv' /\ MapInv(m) /\ ChargeInv
  BY DEF KInv, JInv, IInv
<1>2. /\ UNCHANGED <<mapped, sched, pre>> /\ used' = Released(WeightPages)
      /\ loaded' = loaded \ {m} /\ admin[m].pc = "sleep"
      /\ admin'[m].pc = "unmap" /\ \A q \in Models \ {m} : admin'[q] = admin[q]
  BY <1>1 DEF SleepWeights, TypeInv, Calls
<1>3. PagesOf(ChargedPages)' = PagesOf(ChargedPages)
  <2>1. ASSUME NEW q \in Models PROVE Charged(q)' = Charged(q)
    BY <1>2 DEF Charged
  <2>2. ChargedPages' = ChargedPages
    BY <2>1 DEF ChargedPages
  <2> QED BY <2>2 DEF PagesOf
<1>4. ChargedWeights' = ChargedWeights \ {m} /\ m \in ChargedWeights
  BY <1>1, <1>2 DEF ChargedWeights, ChargeInv
<1>5. /\ Cardinality(ChargedWeights') \in Nat
      /\ Cardinality(ChargedWeights) = Cardinality(ChargedWeights') + 1
  <2>1. /\ IsFiniteSet(ChargedWeights) /\ Cardinality(ChargedWeights) \in Nat
    BY WeightsFinite
  <2>2. Cardinality(ChargedWeights') = Cardinality(ChargedWeights) - 1
    BY <1>4, <2>1, FS_RemoveElement
  <2>3. Cardinality(ChargedWeights') \in Nat
    BY <1>4, <2>1, FS_RemoveElement, FS_CardinalityType
  <2> QED BY <2>1, <2>2, <2>3
<1>6. /\ Cardinality(PagesOf(ChargedPages)) \in Nat
      /\ WeightPages * Cardinality(ChargedWeights') \in Nat
      /\ WeightPages * Cardinality(ChargedWeights) =
           WeightPages * Cardinality(ChargedWeights') + WeightPages
  BY <1>5, PairsFinite, WeightsFinite
<1>7. used = NumCharged /\ \A q \in Models : admin'[q].pc = "sleep" => q \in loaded'
  BY <1>1, <1>2 DEF ChargeInv
<1> DEFINE P == Cardinality(PagesOf(ChargedPages))
           V == WeightPages * Cardinality(ChargedWeights')
<1>8. /\ used = P + (V + WeightPages) /\ NumCharged' = P + V
      /\ P \in Nat /\ V \in Nat /\ WeightPages \in Nat
  BY <1>3, <1>6, <1>7, PageAssumption DEF NumCharged
<1> HIDE DEF P, V
<1>9. used' = NumCharged'
  BY <1>2, <1>8 DEF Released
<1> QED BY <1>7, <1>9 DEF ChargeInv

LEMMA WakeCharge ==
  ASSUME KInv, JInv', NEW m \in Models, faults = 0, WakeBegin(m)
  PROVE  ChargeInv'
<1> DEFINE X == Mine(m)
<1>1. TypeInv /\ TypeInv' /\ ModelInv(m) /\ MapInv(m) /\ ChargeInv
  BY DEF KInv, JInv, IInv
<1>2. /\ UNCHANGED <<mapped, sched, pre, loaded>>
      /\ used' = used + (Cardinality(X) + WeightPages)
      /\ admin[m].pc = "idle" /\ is_sleeping[m]
      /\ admin'[m].pc = "wake" /\ admin'[m].pages = X
      /\ \A q \in Models \ {m} : admin'[q] = admin[q]
  BY <1>1 DEF WakeBegin, WakeNeed, TypeInv, At
<1>3. sched[m].pc = "idle" /\ m \notin loaded /\ mapped[m] = {}
  BY <1>1, <1>2 DEF MapInv
<1>4. X \in SUBSET VirtPages /\ sched[m].pages = {} /\ X \intersect pre[m].pages = {}
  BY <1>1, <1>3, FieldTypes DEF ModelInv, Cover, Mine
<1>5. X \intersect Charged(m) = {} /\ Charged(m)' = Charged(m) \union X
  BY <1>2, <1>3, <1>4 DEF Charged
<1>6. \A q \in Models \ {m} : KeptCharge(q)
  BY <1>2 DEF KeptCharge
<1>7. Cardinality(PagesOf(ChargedPages)') = Cardinality(PagesOf(ChargedPages)) + Cardinality(X)
  BY <1>1, <1>4, <1>5, <1>6, MoreCharge
<1>8. ChargedWeights' = ChargedWeights \union {m} /\ m \notin ChargedWeights
  BY <1>2, <1>3 DEF ChargedWeights
<1>9. Cardinality(ChargedWeights') = Cardinality(ChargedWeights) + 1
  BY <1>8, WeightsFinite, FS_AddElement
<1>10. /\ Cardinality(PagesOf(ChargedPages)) \in Nat /\ Cardinality(X) \in Nat
       /\ WeightPages * Cardinality(ChargedWeights) \in Nat
       /\ WeightPages * Cardinality(ChargedWeights') =
            WeightPages * Cardinality(ChargedWeights) + WeightPages
  BY <1>4, <1>9, PairsFinite, WeightsFinite, PagesFinite
<1>11. used = NumCharged /\ \A q \in Models : admin'[q].pc = "sleep" => q \in loaded'
  BY <1>1, <1>2 DEF ChargeInv
<1> DEFINE P == Cardinality(PagesOf(ChargedPages))
           V == WeightPages * Cardinality(ChargedWeights)
<1>12. /\ used = P + V /\ NumCharged' = (P + Cardinality(X)) + (V + WeightPages)
       /\ P \in Nat /\ V \in Nat /\ WeightPages \in Nat /\ Cardinality(X) \in Nat
  BY <1>7, <1>10, <1>11, PageAssumption DEF NumCharged
<1> HIDE DEF P, V, X
<1>13. used' = NumCharged'
  BY <1>2, <1>12
<1> QED BY <1>11, <1>13 DEF ChargeInv

LEMMA NextKInv ==
  ASSUME KInv, PausedAtSleep, IdleAsleep, [Next]_vars
  PROVE  KInv'
<1>1. JInv'
  BY NextJInv DEF KInv
<1>2. UsedInv'
  BY NextUsed DEF KInv, JInv
<1>3. faults \in Nat /\ faults' \in Nat
  BY <1>1 DEF KInv, JInv, IInv, TypeInv
<1>4. CASE faults' # 0
  BY <1>1, <1>2, <1>4 DEF KInv, ChargeInv
<1>5. CASE Locked /\ faults' = 0 /\ faults = 0
  <2>1. ChargeInv'
    BY <1>1, <1>5, PreallocTakeCharge, LoadCharge, CallsCharge, AllocTakeCharge,
       PreallocCharge, SleepCharge, WakeCharge DEF Locked
  <2> QED BY <1>1, <1>2, <2>1 DEF KInv
<1>6. ASSUME NEW m \in Models, NEW ok \in Outcomes, Broadcast(m, ok),
             faults' = (IF ok THEN faults ELSE faults + 1), faults' = 0
      PROVE  KInv'
  <2>1. ok = TRUE /\ faults = 0
    BY <1>3, <1>6 DEF Outcomes
  <2>2. ChargeInv'
    BY <1>1, <1>6, <2>1, CallsCharge, UnmapCharge, PreallocCharge, SleepWeightsCharge,
       SleepCharge DEF Broadcast
  <2> QED BY <1>1, <1>2, <2>2 DEF KInv
<1>7. CASE UNCHANGED vars
  <2>1. ChargeInv'
    BY <1>7 DEF vars, KInv, ChargeInv, NumCharged, ChargedPages, Charged, ChargedWeights,
                PagesOf
  <2> QED BY <1>1, <1>2, <2>1 DEF KInv
<1> QED BY <1>4, <1>5, <1>6, <1>7 DEF Next

LEMMA InitKInv == Init => KInv
<1> SUFFICES ASSUME Init PROVE KInv
  OBVIOUS
<1>1. JInv
  BY InitJInv
<1>2. UsedInv
  BY PageAssumption DEF Init, UsedInv
<1>3. PagesOf(ChargedPages) = {} /\ ChargedWeights = {}
  <2>1. \A m \in Models : Charged(m) = {}
    BY DEF Init, Charged, Idle, At
  <2>2. \A m \in Models : ChargedPages[m] = {}
    BY <2>1 DEF ChargedPages
  <2>3. \A x \in Models \X VirtPages : x[1] \in Models
    OBVIOUS
  <2>4. PagesOf(ChargedPages) = {}
    BY <2>2, <2>3 DEF PagesOf
  <2>5. ChargedWeights = {}
    BY DEF Init, ChargedWeights, Idle, At
  <2> QED BY <2>4, <2>5
<1>4. NumCharged = 0
  BY <1>3, FS_EmptySet, PageAssumption DEF NumCharged
<1>5. ChargeInv
  BY <1>4 DEF ChargeInv, Init, Idle, At
<1> QED BY <1>1, <1>2, <1>5 DEF KInv

\* worker_pages_used_ is exactly what is mapped whenever no operation is in
\* progress, for any models and pages, as long as no broadcast fails and a
\* sleeping model's block manager rests: no charge is lost or made twice, and
\* the cut-off of release_phy_pages_for_dp never hides one.
THEOREM UsedCountExact ==
  ASSUME PausedAtSleep, IdleAsleep
  PROVE  Spec => []UsedIsExact
<1>1. Init => KInv
  BY InitKInv
<1>2. KInv /\ [Next]_vars => KInv'
  BY NextKInv
<1>3. KInv => UsedIsExact
  <2> SUFFICES ASSUME KInv, Quiet, faults = 0 PROVE used = NumMapped
    BY DEF UsedIsExact
  <2>1. \A m \in Models : Charged(m) = mapped[m]
    BY DEF KInv, JInv, IInv, ModelInv, Quiet, Charged
  <2>2. ChargedPages = mapped
    BY <2>1 DEF ChargedPages, KInv, JInv, IInv, TypeInv
  <2>3. ChargedWeights = loaded
    BY DEF ChargedWeights, Quiet, KInv, JInv, IInv, TypeInv
  <2> QED BY <2>2, <2>3 DEF KInv, ChargeInv, NumCharged, NumMapped
<1> QED BY <1>1, <1>2, <1>3, PTL DEF Spec

\* The worker never maps more pages than it has, whatever operations of
\* whatever models interleave, under the same conditions.
THEOREM DeviceNeverOvercommitted ==
  ASSUME PausedAtSleep, IdleAsleep
  PROVE  Spec => []NeverOvercommitted
<1>1. Init => KInv
  BY InitKInv
<1>2. KInv /\ [Next]_vars => KInv'
  BY NextKInv
<1>3. KInv => NeverOvercommitted
  <2> SUFFICES ASSUME KInv, faults = 0 PROVE NumMapped <= TotalPhy
    BY DEF NeverOvercommitted
  <2>1. PagesOf(mapped) \in SUBSET PagesOf(ChargedPages)
    <3>1. \A m \in Models : mapped[m] \subseteq ChargedPages[m]
      BY DEF ChargedPages, Charged
    <3>2. \A x \in Models \X VirtPages : x[1] \in Models
      OBVIOUS
    <3> QED BY <3>1, <3>2 DEF PagesOf
  <2>2. loaded \in SUBSET ChargedWeights
    BY DEF ChargedWeights, KInv, JInv, IInv, TypeInv
  <2>3. /\ Cardinality(PagesOf(mapped)) <= Cardinality(PagesOf(ChargedPages))
        /\ Cardinality(PagesOf(mapped)) \in Nat /\ Cardinality(PagesOf(ChargedPages)) \in Nat
    BY <2>1, PairsFinite, FS_Subset
  <2>4. /\ Cardinality(loaded) <= Cardinality(ChargedWeights)
        /\ Cardinality(loaded) \in Nat /\ Cardinality(ChargedWeights) \in Nat
    BY <2>2, WeightsFinite, FS_Subset, FS_CardinalityType
  <2>5. \A a, b, c \in Nat : a <= b => c * a <= c * b /\ c * a \in Nat /\ c * b \in Nat
    OBVIOUS
  <2> DEFINE A == WeightPages * Cardinality(loaded)
             B == WeightPages * Cardinality(ChargedWeights)
  <2>6. A <= B /\ A \in Nat /\ B \in Nat
    BY <2>4, <2>5, PageAssumption
  <2>7. used = Cardinality(PagesOf(ChargedPages)) + B /\ used <= TotalPhy
    BY DEF KInv, ChargeInv, UsedInv, NumCharged
  <2>8. NumMapped = Cardinality(PagesOf(mapped)) + A
    BY DEF NumMapped
  <2> HIDE DEF A, B
  <2> QED BY <2>3, <2>6, <2>7, <2>8, PageAssumption
<1> QED BY <1>1, <1>2, <1>3, PTL DEF Spec
=============================================================================
