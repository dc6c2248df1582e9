--------------------------- MODULE PageAllocator ---------------------------
(***************************************************************************)
(* The XTensor page allocator (page_allocator.cpp): models share the       *)
(* physical pages of a worker; each has its own virtual KV pages, which    *)
(* the block manager of the model allocates, frees and trims               *)
(* (xtensor_block_manager_impl.cpp), a background thread maps ahead of     *)
(* demand, and sleep and wake-up unmap and map again.  Every operation     *)
(* takes the allocator's mutex for short sections and maps or unmaps       *)
(* between them.                                                           *)
(*                                                                         *)
(* One worker and one DP group per model; one virtual page costs one       *)
(* physical page; a deque of pages is a set, taken from in any order.      *)
(***************************************************************************)
EXTENDS Integers, FiniteSets, FiniteSetsExt

CONSTANTS Models,
          VirtPages,        \* virtual pages of a model
          TotalPhy,         \* num_total_phy_pages_
          WeightPages,      \* physical pages of a model's weights
          MinReserved, MaxReserved,
          MaxFaults,        \* bound: broadcasts that fail
          PausedAtSleep,    \* the block manager is between calls at sleep
          IdleAsleep,       \* ... and makes none until wake-up
          MaxSleeps         \* bound: sleeps of a behaviour

ASSUME PageAssumption ==
  /\ IsFiniteSet(Models) /\ IsFiniteSet(VirtPages)
  /\ TotalPhy \in Nat /\ WeightPages \in Nat /\ MaxSleeps \in Nat
  /\ MinReserved \in Nat /\ MaxReserved \in Nat
  /\ MaxFaults \in Nat
  /\ PausedAtSleep \in BOOLEAN /\ IdleAsleep \in BOOLEAN

VARIABLES
  \* --- ModelState and DpGroupPages, guarded by mtx_
  free, reserved, allocated,   \* *_virt_page_list
  num_free,                    \* num_free_virt_pages
  is_sleeping, pending_map_ops,
  used,                        \* worker_pages_used_
  prealloc_needed,
  \* --- threads between two critical sections: [pc, pages]
  sched,                       \* the block manager of a model
  pre,                         \* the prealloc thread's share of a model
  admin,                       \* sleep_model or wakeup_model of a model
  sleeps,
  \* --- the worker: pages really mapped, models whose weights are mapped,
  \* broadcasts that failed
  mapped, loaded, faults

lists == <<free, reserved, allocated, num_free>>
vars  == <<lists, is_sleeping, pending_map_ops, used, prealloc_needed,
           sched, pre, admin, sleeps, mapped, loaded, faults>>

At(pc, pages) == [pc |-> pc, pages |-> pages]
Idle == At("idle", {})

Init ==
  /\ free = [m \in Models |-> VirtPages]
  /\ reserved = [m \in Models |-> {}] /\ allocated = reserved
  /\ num_free = [m \in Models |-> Cardinality(VirtPages)]
  /\ is_sleeping = [m \in Models |-> FALSE]
  /\ pending_map_ops = [m \in Models |-> 0]
  /\ used = 0 /\ prealloc_needed = TRUE
  /\ sched = [m \in Models |-> Idle] /\ pre = sched /\ admin = sched
  /\ sleeps = 0
  /\ mapped = [m \in Models |-> {}] /\ loaded = {} /\ faults = 0

\* Mutant: the check lets the last page be taken once too often.
HasPhy_OffByOne(n) == TotalPhy - used + 1 >= n

has_enough_phy_pages(n) == TotalPhy - used >= n

\* release_phy_pages_for_dp: a count that would go below zero is cut off.
Released(n) == IF used >= n THEN used - n ELSE 0

Add(f, m, s) == [f EXCEPT ![m] = @ \union s]
Del(f, m, s) == [f EXCEPT ![m] = @ \ s]
Pend(m, k)   == pending_map_ops' = [pending_map_ops EXCEPT ![m] = @ + k]
CountFree(m, k) == num_free' = [num_free EXCEPT ![m] = @ + k]
Outcomes == IF faults < MaxFaults THEN BOOLEAN ELSE {TRUE}

GiveBack(m, pages) ==
  used' = Released(Cardinality(pages)) /\ free' = Add(free, m, pages)

\* A broadcast that fails may have reached some of the tensors of a page.
AfterMap(m, s, ok) ==
  \E done \in IF ok THEN {s} ELSE {s, {}} : mapped' = Add(mapped, m, done)

AfterUnmap(m, s, ok) ==
  \E done \in IF ok THEN {s} ELSE {s, {}} : mapped' = Del(mapped, m, done)

\* alloc_weight_pages, when the model is loaded: charge the weights ...
LoadWeights(m) ==
  /\ admin[m].pc = "idle" /\ m \notin loaded /\ ~is_sleeping[m]
  /\ has_enough_phy_pages(WeightPages)
  /\ used' = used + WeightPages
  /\ admin' = [admin EXCEPT ![m] = At("load", {})]
  /\ UNCHANGED <<lists, is_sleeping, pending_map_ops, prealloc_needed,
                 sched, pre, sleeps, mapped, loaded>>

\* ... and map them outside the mutex; after a failure they stay charged ("no
\* rollback") and the engine gives the model up.
LoadMap(m, ok) ==
  /\ admin[m].pc = "load"
  /\ loaded' \in {loaded \union {m}} \union (IF ok THEN {} ELSE {loaded})
  /\ admin' = [admin EXCEPT ![m] = IF ok THEN Idle ELSE At("failed", {})]
  /\ UNCHANGED <<lists, is_sleeping, pending_map_ops, used, prealloc_needed,
                 sched, pre, sleeps, mapped>>

----------------------------------------------------------------------------
(* The block manager: one call at a time, under its own mutex *)

CanCall(m) ==
  /\ sched[m].pc = "idle" /\ admin[m].pc # "failed"
  /\ m \in loaded \/ is_sleeping[m]
  /\ is_sleeping[m] => ~IdleAsleep

\* alloc_kv_cache_page, a page that is mapped already.
AllocFast(m) ==
  /\ CanCall(m) /\ ~is_sleeping[m]
  /\ \E v \in reserved[m] :
       /\ reserved' = Del(reserved, m, {v})
       /\ allocated' = Add(allocated, m, {v})
  /\ CountFree(m, -1)
  /\ prealloc_needed' = (prealloc_needed \/ Cardinality(reserved'[m]) < MinReserved)
  /\ UNCHANGED <<free, is_sleeping, pending_map_ops, used, sched, pre, admin,
                 sleeps, mapped, loaded>>

\* alloc_kv_cache_page, a page that must be mapped: take and charge it.
AllocTake(m) ==
  /\ CanCall(m) /\ ~is_sleeping[m] /\ reserved[m] = {}
  /\ has_enough_phy_pages(1)
  /\ \E v \in free[m] : /\ free' = Del(free, m, {v})
                        /\ sched' = [sched EXCEPT ![m] = At("map", {v})]
  /\ CountFree(m, -1) /\ used' = used + 1 /\ Pend(m, 1)
  /\ UNCHANGED <<reserved, allocated, is_sleeping, prealloc_needed, pre, admin,
                 sleeps, mapped, loaded>>

\* ... map it outside the mutex, then end the pending operation.
AllocMap(m, ok) ==
  /\ sched[m].pc = "map"
  /\ AfterMap(m, sched[m].pages, ok)
  /\ Pend(m, -1)
  /\ IF ok
     THEN /\ sched' = [sched EXCEPT ![m].pc = "insert"]
          /\ UNCHANGED <<free, num_free, used>>
     ELSE /\ GiveBack(m, sched[m].pages) /\ CountFree(m, 1)
          /\ sched' = [sched EXCEPT ![m] = Idle]
  /\ UNCHANGED <<reserved, allocated, is_sleeping, prealloc_needed, pre, admin,
                 sleeps, loaded>>

\* ... and enter it in the allocated list in a third section.
AllocInsert(m) ==
  /\ sched[m].pc = "insert"
  /\ allocated' = Add(allocated, m, sched[m].pages)
  /\ prealloc_needed' = TRUE
  /\ sched' = [sched EXCEPT ![m] = Idle]
  /\ UNCHANGED <<free, reserved, num_free, is_sleeping, pending_map_ops, used,
                 pre, admin, sleeps, mapped, loaded>>

\* max_reserved_pages_ - reserved.size() is unsigned: past the limit, after a
\* failed unmap, everything is reserved.
Room(m) == IF Cardinality(reserved[m]) > MaxReserved THEN Cardinality(VirtPages)
           ELSE MaxReserved - Cardinality(reserved[m])

\* free_kv_cache_pages: keep up to the limit mapped, unmap the rest; a
\* sleeping model keeps none.
FreePages(m, pages) ==
  /\ CanCall(m)
  /\ pages # {} /\ pages \subseteq allocated[m]
  /\ \E keep \in SUBSET pages :
       /\ Cardinality(keep) = IF is_sleeping[m] THEN 0
                              ELSE Min({Room(m), Cardinality(pages)})
       /\ reserved' = Add(reserved, m, keep)
       /\ sched' = [sched EXCEPT ![m] =
                      IF keep = pages THEN Idle ELSE At("unmap", pages \ keep)]
  /\ allocated' = Del(allocated, m, pages)
  /\ CountFree(m, Cardinality(pages))
  /\ UNCHANGED <<free, is_sleeping, pending_map_ops, used, prealloc_needed, pre,
                 admin, sleeps, mapped, loaded>>

\* trim_kv_cache: give back what is mapped and not in use.
TrimPages(m) ==
  /\ CanCall(m) /\ reserved[m] # {}
  /\ sched' = [sched EXCEPT ![m] = At("unmap", reserved[m])]
  /\ reserved' = [reserved EXCEPT ![m] = {}]
  /\ UNCHANGED <<free, allocated, num_free, is_sleeping, pending_map_ops, used,
                 prealloc_needed, pre, admin, sleeps, mapped, loaded>>

\* The common end of both: unmap outside the mutex, then uncharge; pages that
\* could not be unmapped go back to the reserved list.
UnmapDone(m, ok) ==
  /\ sched[m].pc = "unmap"
  /\ LET pages == sched[m].pages
     IN /\ AfterUnmap(m, pages, ok)
        /\ IF ok
           THEN GiveBack(m, pages) /\ UNCHANGED reserved
           ELSE /\ reserved' = Add(reserved, m, pages)
                /\ UNCHANGED <<free, used>>
  /\ sched' = [sched EXCEPT ![m] = Idle]
  /\ UNCHANGED <<allocated, num_free, is_sleeping, pending_map_ops,
                 prealloc_needed, pre, admin, sleeps, loaded>>

----------------------------------------------------------------------------
(* The preallocation thread *)

Wanted(m) ==
  IF is_sleeping[m] \/ Cardinality(reserved[m]) >= MinReserved THEN 0
  ELSE Min({MinReserved - Cardinality(reserved[m]), Cardinality(free[m])})

\* The pages of all models in f, which gives a set of pages to each.
PagesOf(f) == {x \in Models \X VirtPages : x[2] \in f[x[1]]}

\* prealloc_worker, one section over all models: take and charge the pages,
\* model by model until the physical pages run out.
PreallocTake ==
  /\ prealloc_needed /\ \A m \in Models : pre[m].pc = "idle"
  /\ \E take \in [Models -> SUBSET VirtPages] :
       LET n == Cardinality(PagesOf(take))
       IN /\ \A m \in Models : /\ take[m] \subseteq free[m]
                               /\ Cardinality(take[m]) <= Wanted(m)
          /\ has_enough_phy_pages(n)
          /\ \/ \A m \in Models : Cardinality(take[m]) = Wanted(m)
             \/ n = TotalPhy - used
          /\ Cardinality({m \in Models : Cardinality(take[m]) \in 1 .. Wanted(m) - 1}) <= 1
          /\ free' = [m \in Models |-> free[m] \ take[m]]
          /\ used' = used + n
          /\ pre' = [m \in Models |-> IF take[m] = {} THEN Idle
                                      ELSE At("taken", take[m])]
  /\ prealloc_needed' = FALSE
  /\ UNCHANGED <<reserved, allocated, num_free, is_sleeping, pending_map_ops,
                 sched, admin, sleeps, mapped, loaded>>

\* Before mapping: give the pages back if the model went to sleep.
PreallocCheck(m) ==
  /\ pre[m].pc = "taken"
  /\ IF is_sleeping[m]
     THEN /\ GiveBack(m, pre[m].pages)
          /\ pre' = [pre EXCEPT ![m] = Idle]
          /\ UNCHANGED pending_map_ops
     ELSE /\ Pend(m, 1)
          /\ pre' = [pre EXCEPT ![m].pc = "map"]
          /\ UNCHANGED <<free, used>>
  /\ UNCHANGED <<reserved, allocated, num_free, is_sleeping, prealloc_needed,
                 sched, admin, sleeps, mapped, loaded>>

\* Map, end the pending operation and publish; the pages of a model found
\* asleep here are dropped from every list.
PreallocMap(m, ok) ==
  /\ pre[m].pc = "map"
  /\ AfterMap(m, pre[m].pages, ok)
  /\ Pend(m, -1)
  /\ CASE ~ok -> GiveBack(m, pre[m].pages) /\ UNCHANGED reserved
       [] ok /\ ~is_sleeping[m] -> /\ reserved' = Add(reserved, m, pre[m].pages)
                                   /\ UNCHANGED <<free, used>>
       [] OTHER -> /\ used' = Released(Cardinality(pre[m].pages))
                   /\ UNCHANGED <<free, reserved>>
  /\ pre' = [pre EXCEPT ![m] = Idle]
  /\ UNCHANGED <<allocated, num_free, is_sleeping, prealloc_needed, sched, admin,
                 sleeps, loaded>>

----------------------------------------------------------------------------
(* Sleep and wake-up, called one at a time per model *)

\* Mutant: sleep does not wait for operations that are mapping.
NothingPending_Ignored(m) == TRUE

NothingPending(m) == pending_map_ops[m] = 0

\* Mutant: pages the block manager holds are not collected.
Mine_ReservedOnly(m) == reserved[m]

Mine(m) == reserved[m] \union allocated[m]

\* sleep_model's first section: collect what is mapped.
SleepBegin(m) ==
  /\ sleeps < MaxSleeps                                            \* bound
  /\ admin[m].pc = "idle" /\ ~is_sleeping[m] /\ m \in loaded
  /\ NothingPending(m)
  /\ PausedAtSleep => sched[m].pc = "idle"
  /\ is_sleeping' = [is_sleeping EXCEPT ![m] = TRUE]
  /\ admin' = [admin EXCEPT ![m] = At("sleep", Mine(m))]
  /\ sleeps' = sleeps + 1
  /\ UNCHANGED <<lists, pending_map_ops, used, prealloc_needed, sched, pre,
                 mapped, loaded>>

\* A model that starts asleep: LLMEngine::init has allocated no weights for it
\* and skips their release.  The padding page its block manager already has is
\* taken to be among the reserved ones.
SleepAtInit(m) ==
  /\ admin[m].pc = "idle" /\ ~is_sleeping[m] /\ m \notin loaded
  /\ NothingPending(m)
  /\ is_sleeping' = [is_sleeping EXCEPT ![m] = TRUE]
  /\ admin' = [admin EXCEPT ![m] = At("unmap", Mine(m))]
  /\ UNCHANGED <<lists, pending_map_ops, used, prealloc_needed, sched, pre,
                 sleeps, mapped, loaded>>

\* Weights first, then the collected KV pages, unmapped outside the mutex and
\* uncharged afterwards; the lists stay as they are for wake-up.  A broadcast
\* that fails ends sleep_model there, asleep and still charged.
SleepWeights(m, ok) ==
  /\ admin[m].pc = "sleep"
  /\ IF ok
     THEN /\ loaded' = loaded \ {m}
          /\ used' = Released(WeightPages)
          /\ admin' = [admin EXCEPT ![m].pc = "unmap"]
     ELSE /\ loaded' \in {loaded, loaded \ {m}}
          /\ admin' = [admin EXCEPT ![m] = Idle]
          /\ UNCHANGED used
  /\ UNCHANGED <<lists, is_sleeping, pending_map_ops, prealloc_needed, sched,
                 pre, sleeps, mapped>>

SleepUnmap(m, ok) ==
  /\ admin[m].pc = "unmap"
  /\ AfterUnmap(m, admin[m].pages, ok)
  /\ used' = IF ok THEN Released(Cardinality(admin[m].pages)) ELSE used
  /\ admin' = [admin EXCEPT ![m] = Idle]
  /\ UNCHANGED <<lists, is_sleeping, pending_map_ops, prealloc_needed, sched,
                 pre, sleeps, loaded>>

\* Mutant: only the pages in use are charged at wake-up.
WakeNeed_Allocated(m) == Cardinality(allocated[m]) + WeightPages

WakeNeed(m) == Cardinality(Mine(m)) + WeightPages

\* Mutant: awake as soon as the pages are charged.
WakeBegin_AwakeEarly(m) ==
  /\ admin[m].pc = "idle" /\ is_sleeping[m]
  /\ has_enough_phy_pages(WakeNeed(m))
  /\ used' = used + WakeNeed(m)
  /\ is_sleeping' = [is_sleeping EXCEPT ![m] = FALSE]
  /\ admin' = [admin EXCEPT ![m] = At("wake", Mine(m))]
  /\ UNCHANGED <<lists, pending_map_ops, prealloc_needed, sched, pre, sleeps,
                 mapped, loaded>>

\* wakeup_model: charge KV and weights together or give up ...
WakeBegin(m) ==
  /\ admin[m].pc = "idle" /\ is_sleeping[m]
  /\ has_enough_phy_pages(WakeNeed(m))
  /\ used' = used + WakeNeed(m)
  /\ admin' = [admin EXCEPT ![m] = At("wake", Mine(m))]
  /\ UNCHANGED <<lists, is_sleeping, pending_map_ops, prealloc_needed, sched,
                 pre, sleeps, mapped, loaded>>

\* ... map them outside the mutex, and only then be awake; after a failure
\* the model stays asleep and charged ("no rollback").
WakeMap(m, ok) ==
  /\ admin[m].pc = "wake"
  /\ AfterMap(m, admin[m].pages, ok)
  /\ IF ok
     THEN /\ loaded' = loaded \union {m}
          /\ is_sleeping' = [is_sleeping EXCEPT ![m] = FALSE]
          /\ prealloc_needed' = TRUE
     ELSE /\ loaded' \in {loaded, loaded \union {m}}
          /\ UNCHANGED <<is_sleeping, prealloc_needed>>
  /\ admin' = [admin EXCEPT ![m] = Idle]
  /\ UNCHANGED <<lists, pending_map_ops, used, sched, pre, sleeps>>

----------------------------------------------------------------------------
\* A step that ends a broadcast to the workers.
Broadcast(m, ok) ==
  \/ LoadMap(m, ok)
  \/ AllocMap(m, ok) \/ UnmapDone(m, ok) \/ PreallocMap(m, ok)
  \/ SleepWeights(m, ok) \/ SleepUnmap(m, ok) \/ WakeMap(m, ok)

\* A step under the mutex.
Locked ==
  \/ PreallocTake
  \/ \E m \in Models :
       \/ LoadWeights(m)
       \/ AllocFast(m) \/ AllocTake(m) \/ AllocInsert(m)
       \/ \E pages \in SUBSET allocated[m] : FreePages(m, pages)
       \/ TrimPages(m) \/ PreallocCheck(m)
       \/ SleepBegin(m) \/ SleepAtInit(m) \/ WakeBegin(m)

Next ==
  \/ Locked /\ UNCHANGED faults
  \/ \E m \in Models, ok \in Outcomes :
       Broadcast(m, ok) /\ faults' = IF ok THEN faults ELSE faults + 1

Spec == Init /\ [][Next]_vars

----------------------------------------------------------------------------
(* Properties *)

\* Every virtual page of a model is in exactly one place: a list, the block
\* manager's call in progress or the preallocation in progress; and the free
\* count is what is neither allocated nor being allocated.  None is lost when
\* a mapping fails or a model falls asleep in between.
PagesAccounted ==
  \A m \in Models :
    LET parts   == <<free[m], reserved[m], allocated[m], sched[m].pages, pre[m].pages>>
        taking  == IF sched[m].pc = "unmap" THEN {} ELSE sched[m].pages
    IN /\ UNION {parts[i] : i \in 1 .. 5} = VirtPages
       /\ \A i, j \in 1 .. 5 : i # j => parts[i] \intersect parts[j] = {}
       /\ num_free[m] = Cardinality(VirtPages \ (allocated[m] \union taking))

\* The physical pages of the worker that are in use, by KV pages and weights.
NumMapped == Cardinality(PagesOf(mapped)) + WeightPages * Cardinality(loaded)

Quiet ==
  \A m \in Models :
    sched[m].pc = "idle" /\ pre[m].pc = "idle" /\ admin[m].pc = "idle"

\* "worker_pages_used_[i] = total pages used by worker i (weight + KV cache)"
\* (page_allocator.h): when no operation is in progress and no broadcast has
\* failed, the count is exactly what is mapped.
UsedIsExact == Quiet /\ faults = 0 => used = NumMapped

\* The worker is never asked to map more pages than it has, at any moment of
\* any interleaving without failed broadcasts: pages are charged before they
\* are mapped and uncharged after they are unmapped.
NeverOvercommitted == faults = 0 => NumMapped <= TotalPhy

\* A page in the hands of the block manager of a model that is awake is
\* mapped: the forward pass may write to it.
HandedOutIsMapped ==
  \A m \in Models : faults = 0 /\ ~is_sleeping[m] => reserved[m] \union allocated[m] \subseteq mapped[m]

\* "Put a model to sleep: ... Unmap all mapped KV cache virtual pages"
\* (page_allocator.h): once sleep_model has returned, the model holds no page
\* of the shared pool.
AsleepHoldsNothing ==
  \A m \in Models :
    faults = 0 /\ is_sleeping[m] /\ admin[m].pc = "idle" => mapped[m] = {} /\ m \notin loaded
=============================================================================
