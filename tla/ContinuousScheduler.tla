------------------------ MODULE ContinuousScheduler ------------------------
(***************************************************************************)
(* The scheduler loop (continuous_scheduler.cpp) with its prefill-first    *)
(* and unified policies: admission of a request through the prefetch, the  *)
(* queues, batches with preemption, the overlap pipeline (one batch in     *)
(* flight while the next is scheduled), cancellation, and pause / resume.  *)
(*                                                                         *)
(* Four kinds of threads: callers of add_request, prefetch callbacks,      *)
(* callers of pause() and resume(), and the one loop thread that calls     *)
(* step(), whose rounds over the queues are actions of their own.          *)
(*                                                                         *)
(* A block holds one token; a request has one sequence.  Token and latency *)
(* budgets never bind; chunked prefill, the decode restore queue, prefix   *)
(* cache and PD roles are off.                                             *)
(***************************************************************************)
EXTENDS Integers, FiniteSets, FiniteSetsExt, Sequences, SequencesExt

CONSTANTS Requests,       \* in the order of created_time
          Capacity,       \* of request_queue_
          Blocks,         \* KV blocks of the device
          PrefillLimit,   \* prefill_scheduling_memory_usage_threshold
          Prompt,         \* prompt tokens of each request
          MaxGen,         \* bound: tokens a request generates
          MaxSeqs,        \* max_seqs_per_batch
          Overlap,        \* enable_schedule_overlap
          Unified,        \* UnifiedPolicy, else PrefillFirstPolicy with fcfs
          Leavers,        \* requests whose client may disconnect
          Modes,          \* pause modes in use
          MaxPauses       \* bound: calls of pause()

PauseModes == {"KEEP", "ABORT", "WAIT"}

ASSUME SchedulerAssumption ==
  /\ Requests \subseteq Nat /\ IsFiniteSet(Requests)
  /\ Capacity \in Nat \ {0} /\ Blocks \in Nat /\ PrefillLimit \in 1 .. Blocks
  /\ Prompt \in [Requests -> Nat \ {0}]
  /\ MaxGen \in Nat \ {0} /\ MaxSeqs \in Nat \ {0} /\ MaxPauses \in Nat
  /\ {Overlap, Unified} \subseteq BOOLEAN
  /\ Leavers \subseteq Requests /\ Modes \subseteq PauseModes

VARIABLES
  \* --- add_request and the prefetch callback
  stage,                  \* "new", "reserved", "prefetch", "wrote", "in", "rejected"
  seen,                   \* pending_before_reservation
  prefetching,            \* prefetching_requests_
  request_queue,
  \* --- the loop thread
  prefill_queue,          \* sorted by created_time whenever it is read
  decode_queue,
  unified_queue,          \* sorted by urgency before it is read: any order
  preempted,              \* preempted_request_vec
  running, last_step_prefill,
  last_batch,             \* the batch in flight (overlap)
  held,                   \* KV blocks of each request
  spinning,               \* inside schedule_request, no batch found
  \* --- the requests
  gen, finished, cancelled, cancel_queue,
  ans,                    \* what the client was told
  \* --- pause
  pause_state, pause_mode,
  loop,                   \* where the loop thread is
  loop_mode,              \* the mode this step read, "none" if not pausing
  pauses

admission == <<stage, seen, prefetching>>
queues    == <<prefill_queue, decode_queue, unified_queue, preempted>>
batch     == <<running, last_step_prefill, last_batch, held, spinning>>
requests  == <<gen, finished, cancelled, ans>>
pausing   == <<pause_state, pause_mode, pauses>>
looping   == <<loop, loop_mode>>
vars == <<admission, request_queue, queues, batch, requests, cancel_queue,
          pausing, looping>>

Init ==
  /\ stage = [r \in Requests |-> "new"] /\ seen = [r \in Requests |-> 0]
  /\ prefetching = 0 /\ request_queue = <<>>
  /\ prefill_queue = {} /\ decode_queue = <<>> /\ unified_queue = <<>>
  /\ preempted = <<>>
  /\ running = <<>> /\ last_step_prefill = FALSE /\ last_batch = {}
  /\ held = [r \in Requests |-> 0] /\ spinning = FALSE
  /\ gen = [r \in Requests |-> 0]
  /\ finished = {} /\ cancelled = {} /\ cancel_queue = {}
  /\ ans = [r \in Requests |-> "none"]
  /\ pause_state = "RUNNING" /\ pause_mode = "KEEP" /\ pauses = 0
  /\ loop = "top" /\ loop_mode = "none"

-----------------------------------------------------------------------------
(* Admission: add_request on its callers' threads, the prefetch callback.  *)

\* Counts itself among the pending prefetches; the count before is kept.
Reserve(r) ==
  /\ stage[r] = "new"
  /\ stage' = [stage EXCEPT ![r] = "reserved"]
  /\ seen' = [seen EXCEPT ![r] = prefetching]
  /\ prefetching' = prefetching + 1
  /\ UNCHANGED <<request_queue, queues, batch, requests, cancel_queue, pausing, looping>>

\* Mutant: the queue may take one more than its capacity.
NoRoom_Late(r) == Len(request_queue) + seen[r] > Capacity

\* request_queue_.size() is read later than the counter.
NoRoom(r) == Len(request_queue) + seen[r] >= Capacity

Admit(r) ==
  /\ stage[r] = "reserved"
  /\ IF NoRoom(r)
     THEN /\ stage' = [stage EXCEPT ![r] = "rejected"]
          /\ prefetching' = prefetching - 1
     ELSE /\ stage' = [stage EXCEPT ![r] = "prefetch"]
          /\ UNCHANGED prefetching
  /\ UNCHANGED <<seen, request_queue, queues, batch, requests, cancel_queue, pausing, looping>>

\* The prefetch ended: enqueue_ready_request, a blockingWrite.  (A client seen
\* to be gone before is one of StorePrefetch's cases.)
PrefetchDone(r) ==
  /\ stage[r] = "prefetch"
  /\ Len(request_queue) < Capacity
  /\ request_queue' = Append(request_queue, r)
  /\ stage' = [stage EXCEPT ![r] = "wrote"]
  /\ UNCHANGED <<seen, prefetching, queues, batch, requests, cancel_queue, pausing, looping>>

PrefetchRelease(r) ==
  /\ stage[r] = "wrote"
  /\ stage' = [stage EXCEPT ![r] = "in"]
  /\ prefetching' = prefetching - 1
  /\ UNCHANGED <<seen, request_queue, queues, batch, requests, cancel_queue, pausing, looping>>

\* The response processor finds the stream's client gone, or a running
\* request's connection is down.
Disconnect(r) ==
  /\ r \in Leavers \ cancel_queue /\ r \notin cancelled
  /\ gen[r] > 0 \/ r \in ToSet(running)
  /\ cancel_queue' = cancel_queue \union {r}
  /\ UNCHANGED <<admission, request_queue, queues, batch, requests, pausing, looping>>

-----------------------------------------------------------------------------
(* schedule_request and prepare_batch: the loop thread.                    *)

\* Tokens of a request; the batch in flight has put a placeholder for the one
\* it will return.
Tokens(r) == Prompt[r] + gen[r] + (IF r \in last_batch THEN 1 ELSE 0)

\* The blocks in use: a request holds the first held[r] entries of its table.
UsedBlocks == Cardinality(UNION {{r} \X (1 .. held[r]) : r \in Requests})

\* Mutant: one block too many is given out.
CanAllocate_Over(r) == Tokens(r) - held[r] <= Blocks - UsedBlocks + 1

CanAllocate(r) == Tokens(r) - held[r] <= Blocks - UsedBlocks

Over(r) == r \in finished \/ r \in cancelled

\* running_sequences_: a sequence that finished is not put into a batch.
Sequenced == ToSet(running) \ finished

Full == Cardinality(Sequenced) >= MaxSeqs

\* deallocate, and the answer to the client.
Answer(r, a) ==
  /\ ans' = [ans EXCEPT ![r] = IF @ = "none" THEN a ELSE @]
  /\ held' = [held EXCEPT ![r] = 0]

Run(r) ==
  /\ running' = Append(running, r)
  /\ held' = [held EXCEPT ![r] = Tokens(r)]
  /\ UNCHANGED ans

\* WAIT mode: something still runs or is in flight.
Draining == running # <<>> \/ last_batch # {}

\* try_complete_pause returned false and the scheduler is not paused.
\* schedule_request itself does not look at the pause state.
Scheduling ==
  \/ spinning
  \/ pause_state = "RUNNING"
  \/ pause_state = "PAUSING" /\ pause_mode = "WAIT" /\ Draining

\* apply_cancel_requests, drain_request_queue and collect_finished, which
\* leaves a hole in running_requests_ for every request it takes.
Collect ==
  /\ loop = "top" /\ Scheduling
  /\ LET gone == cancelled \union {r \in cancel_queue : ans[r] = "none"}
         over == ToSet(running) \intersect (finished \union gone)
     IN /\ cancelled' = gone
        /\ ans' = [r \in Requests |->
                     IF r \in over /\ ans[r] = "none" THEN "done" ELSE ans[r]]
        /\ held' = [r \in Requests |-> IF r \in over THEN 0 ELSE held[r]]
  /\ cancel_queue' = {} /\ request_queue' = <<>>
  /\ IF Unified
     THEN unified_queue' = unified_queue \o request_queue /\ UNCHANGED prefill_queue
     ELSE prefill_queue' = prefill_queue \union ToSet(request_queue)
          /\ UNCHANGED unified_queue
  /\ loop' = "requeue"
  /\ loop_mode' = IF spinning THEN loop_mode
                  ELSE IF pause_state = "PAUSING" THEN pause_mode ELSE "none"
  /\ UNCHANGED <<admission, preempted, decode_queue, running, last_step_prefill,
                 last_batch, spinning, gen, finished, pausing>>

\* The direction in which the running list is put back.
Forward == last_step_prefill

\* The requeue of a policy's schedule(): PrefillFirstPolicy puts the batch
\* behind the waiting decodes after a prefill, in front of them after a decode.
RequeueOne ==
  /\ loop = "requeue" /\ running # <<>>
  /\ LET r == IF Forward THEN Head(running) ELSE Last(running)
     IN IF Over(r) THEN UNCHANGED <<decode_queue, unified_queue>>
        ELSE IF Unified
        THEN unified_queue' = Append(unified_queue, r) /\ UNCHANGED decode_queue
        ELSE /\ decode_queue' = IF Forward THEN Append(decode_queue, r)
                                ELSE <<r>> \o decode_queue
             /\ UNCHANGED unified_queue
  /\ running' = IF Forward THEN Tail(running) ELSE Front(running)
  /\ UNCHANGED <<admission, request_queue, prefill_queue, preempted,
                 last_step_prefill, last_batch, held, spinning, requests,
                 cancel_queue, pausing, looping>>

\* reset_batch_state; the unified queue is sorted by urgency.
RequeueStop ==
  /\ loop = "requeue" /\ running = <<>>
  /\ last_step_prefill' = FALSE
  /\ IF Unified
     THEN unified_queue' \in SetToSeqs(ToSet(unified_queue)) /\ loop' = "unified"
     ELSE loop' = "prefill" /\ UNCHANGED unified_queue
  /\ UNCHANGED <<admission, request_queue, prefill_queue, decode_queue, preempted,
                 running, last_batch, held, spinning, requests, cancel_queue,
                 pausing, loop_mode>>

\* The memory threshold is looked at first.
PrefillMore ==
  /\ loop = "prefill" /\ prefill_queue # {}
  /\ ~Full /\ UsedBlocks < PrefillLimit

\* schedule_prefill_from_queue, the request at the head of the queue.
PrefillOne ==
  /\ PrefillMore
  /\ LET r == Min(prefill_queue)
     IN /\ \/ Over(r) /\ Answer(r, "done") /\ UNCHANGED running
           \/ ~Over(r) /\ CanAllocate(r) /\ Run(r)
        /\ prefill_queue' = prefill_queue \ {r}
  /\ UNCHANGED <<admission, request_queue, preempted, decode_queue, unified_queue,
                 last_step_prefill, last_batch, spinning, gen, finished, cancelled,
                 cancel_queue, pausing, looping>>

\* Mutant: fails the head although running requests may yet free blocks.
NothingFrees_Ignored == Sequenced = {}

\* Mutant: a request that can never fit stays at the head of the queue.
NothingFrees_Never == FALSE

\* Nothing was scheduled, and nothing waits for a decode.
NothingFrees == Sequenced = {} /\ decode_queue = <<>>

\* The end of schedule_prefill_from_queue with handle_unschedulable_head;
\* decode is tried only when no prefill was scheduled.
PrefillStop ==
  /\ loop = "prefill"
  /\ PrefillMore => LET r == Min(prefill_queue) IN ~Over(r) /\ ~CanAllocate(r)
  /\ IF NothingFrees /\ prefill_queue # {}
     THEN /\ Answer(Min(prefill_queue), "failed")
          /\ prefill_queue' = prefill_queue \ {Min(prefill_queue)}
     ELSE UNCHANGED <<prefill_queue, ans, held>>
  /\ last_step_prefill' = (Sequenced # {})
  /\ loop' = IF Sequenced # {} THEN "dispatch" ELSE "decode"
  /\ UNCHANGED <<admission, request_queue, preempted, decode_queue, unified_queue,
                 running, last_batch, spinning, gen, finished, cancelled,
                 cancel_queue, pausing, loop_mode>>

RequeuePreempted(r) == prefill_queue' = prefill_queue \union {r}

\* schedule_decode_from_queue, the request at the head of the queue: it runs,
\* or the request at the back is preempted for it.  A finished request joins
\* the running list without a sequence.
DecodeOne ==
  /\ loop = "decode" /\ decode_queue # <<>> /\ ~Full
  /\ LET r == Head(decode_queue)
     IN \/ /\ r \in finished
           /\ running' = Append(running, r) /\ decode_queue' = Tail(decode_queue)
           /\ UNCHANGED <<prefill_queue, held, ans>>
        \/ /\ r \notin finished /\ CanAllocate(r)
           /\ Run(r) /\ decode_queue' = Tail(decode_queue)
           /\ UNCHANGED prefill_queue
        \/ /\ r \notin finished /\ ~CanAllocate(r) /\ Len(decode_queue) > 1
           /\ held' = [held EXCEPT ![Last(decode_queue)] = 0]
           /\ RequeuePreempted(Last(decode_queue))
           /\ decode_queue' = Front(decode_queue)
           /\ UNCHANGED <<running, ans>>
  /\ UNCHANGED <<admission, request_queue, preempted, unified_queue,
                 last_step_prefill, last_batch, spinning, gen, finished, cancelled,
                 cancel_queue, pausing, looping>>

\* The end of schedule_decode_from_queue: no more to do, or the last request
\* cannot be given blocks (handle_abnormal_decode_request).
DecodeStop ==
  /\ loop = "decode"
  /\ \/ /\ decode_queue = <<>> \/ Full
        /\ UNCHANGED <<decode_queue, held, ans>>
     \/ /\ Len(decode_queue) = 1 /\ ~Full
        /\ LET r == Head(decode_queue)
           IN /\ r \notin finished /\ ~CanAllocate(r)
              /\ IF Sequenced = {}
                 THEN Answer(r, "failed") /\ decode_queue' = <<>>
                 ELSE UNCHANGED <<decode_queue, held, ans>>
  /\ loop' = "dispatch"
  /\ UNCHANGED <<admission, request_queue, preempted, prefill_queue, unified_queue,
                 running, last_step_prefill, last_batch, spinning, gen, finished,
                 cancelled, cancel_queue, pausing, loop_mode>>

\* Requests behind the head of the unified queue that have KV to give up.
Victims == {i \in 2 .. Len(unified_queue) : held[unified_queue[i]] > 0}

\* schedule_from_unified_queue, the request at the head of the queue.
UnifiedOne ==
  /\ loop = "unified" /\ unified_queue # <<>> /\ ~Full
  /\ LET r == Head(unified_queue)
     IN \/ /\ Over(r) /\ Answer(r, "done")
           /\ unified_queue' = Tail(unified_queue)
           /\ UNCHANGED <<running, preempted>>
        \/ /\ ~Over(r) /\ CanAllocate(r) /\ Run(r)
           /\ unified_queue' = Tail(unified_queue)
           /\ UNCHANGED preempted
        \/ /\ ~Over(r) /\ ~CanAllocate(r) /\ Victims # {}
           /\ LET v == Max(Victims)
              IN /\ unified_queue' = RemoveAt(unified_queue, v)
                 /\ preempted' = Append(preempted, unified_queue[v])
                 /\ held' = [held EXCEPT ![unified_queue[v]] = 0]
           /\ UNCHANGED <<running, ans>>
  /\ UNCHANGED <<admission, request_queue, prefill_queue, decode_queue,
                 last_step_prefill, last_batch, spinning, gen, finished, cancelled,
                 cancel_queue, pausing, looping>>

\* Mutant: what was preempted is not put back.
PutBack_Forget(q) == q

PutBack(q) == q \o preempted

\* The end of schedule_from_unified_queue; the preempted requests go back.
UnifiedStop ==
  /\ loop = "unified"
  /\ \/ /\ unified_queue = <<>> \/ Full
        /\ unified_queue' = PutBack(unified_queue)
        /\ UNCHANGED <<held, ans>>
     \/ /\ unified_queue # <<>> /\ ~Full
        /\ LET r == Head(unified_queue)
           IN /\ ~Over(r) /\ ~CanAllocate(r) /\ Victims = {}
              /\ IF Sequenced = {}
                 THEN /\ Answer(r, "failed")
                      /\ unified_queue' = PutBack(Tail(unified_queue))
                 ELSE /\ unified_queue' = PutBack(unified_queue)
                      /\ UNCHANGED <<held, ans>>
  /\ preempted' = <<>>
  /\ loop' = "dispatch"
  /\ UNCHANGED <<admission, request_queue, prefill_queue, decode_queue, running,
                 last_step_prefill, last_batch, spinning, gen, finished, cancelled,
                 cancel_queue, pausing, loop_mode>>

\* The workers return a token for every unfinished request of batch b, which
\* may end the request and does at MaxGen.
Results(b) ==
  LET live == b \ finished
  IN \E ended \in SUBSET live :
       /\ {r \in live : gen[r] + 1 = MaxGen} \subseteq ended
       /\ gen' = [r \in Requests |-> IF r \in live THEN gen[r] + 1 ELSE gen[r]]
       /\ finished' = finished \union ended

\* schedule_request found no batch and nothing is in flight, but a queue is
\* not empty: it tries again without leaving step().
Spins ==
  /\ Sequenced = {} /\ last_batch = {}
  /\ prefill_queue # {} \/ decode_queue # <<>> \/ unified_queue # <<>>

\* The rest of step(): without overlap the results of this batch, with
\* overlap those of the batch before it.
Dispatch ==
  /\ loop = "dispatch"
  /\ spinning' = Spins
  /\ Results(IF Overlap THEN last_batch ELSE Sequenced)
  /\ last_batch' = IF Overlap THEN Sequenced ELSE {}
  /\ loop' = "top"
  /\ UNCHANGED <<admission, request_queue, preempted, prefill_queue, decode_queue,
                 unified_queue, running, last_step_prefill, held, cancelled, ans,
                 cancel_queue, pausing, loop_mode>>

-----------------------------------------------------------------------------
(* pause(), resume() and try_complete_pause.                               *)

\* The mode is stored before the state is tried, so a pause() that comes too
\* late to be accepted still leaves its mode.
Pause(m) ==
  /\ pauses < MaxPauses
  /\ pause_mode' = m /\ pauses' = pauses + 1
  /\ pause_state' = IF pause_state = "RUNNING" THEN "PAUSING" ELSE pause_state
  /\ UNCHANGED <<admission, request_queue, queues, batch, requests, cancel_queue, looping>>

\* From PAUSED, or before the loop thread has got that far.
Resume ==
  /\ pause_state # "RUNNING"
  /\ pause_state' = "RUNNING"
  /\ UNCHANGED <<admission, request_queue, queues, batch, requests, cancel_queue,
                 pause_mode, pauses, looping>>

\* try_complete_pause reads the state and the mode.
PauseBegin ==
  /\ loop = "top" /\ ~spinning /\ pause_state = "PAUSING"
  /\ pause_mode = "WAIT" => ~Draining
  /\ loop' = "pausing" /\ loop_mode' = pause_mode
  /\ UNCHANGED <<admission, request_queue, queues, batch, requests, cancel_queue, pausing>>

\* Mutant: requests waiting for a decode are not preempted.
ToPreempt_Running == ToSet(running)

\* What preempt_all_running_requests and abort_all_running_requests go over.
ToPreempt == ToSet(running) \union ToSet(decode_queue)

\* The rest of try_complete_pause: the batch in flight is collected, what is
\* not finished is preempted or aborted, and the state is PAUSED whatever it
\* was.  A finished request is skipped; running_requests_.clear() and
\* decode_queue_->clear() then destroy it, and its blocks with it.
PauseEnd ==
  /\ loop = "pausing"
  /\ IF loop_mode = "WAIT"
     THEN UNCHANGED <<queues, running, last_batch, held, gen, finished, cancelled, ans>>
     ELSE /\ Results(last_batch) /\ last_batch' = {}
          /\ LET left == ToPreempt \ finished'
             IN IF loop_mode = "KEEP"
                THEN /\ prefill_queue' = prefill_queue \union left
                     /\ UNCHANGED <<cancelled, ans>>
                ELSE /\ cancelled' = cancelled \union left
                     /\ ans' = [r \in Requests |-> IF r \in left THEN "aborted" ELSE ans[r]]
                     /\ UNCHANGED prefill_queue
          /\ held' = [r \in Requests |-> IF r \in ToPreempt THEN 0 ELSE held[r]]
          /\ running' = <<>> /\ decode_queue' = <<>>
          /\ UNCHANGED <<unified_queue, preempted>>
  /\ pause_state' = "PAUSED" /\ loop' = "top"
  /\ UNCHANGED <<admission, request_queue, last_step_prefill, spinning,
                 cancel_queue, pause_mode, pauses, loop_mode>>

-----------------------------------------------------------------------------
Loop ==
  \/ Collect \/ RequeueOne \/ RequeueStop \/ PrefillOne \/ PrefillStop \/ DecodeOne \/ DecodeStop
  \/ UnifiedOne \/ UnifiedStop \/ Dispatch
  \/ PauseBegin \/ PauseEnd

Next ==
  \/ \E r \in Requests : \/ Reserve(r) \/ Admit(r) \/ PrefetchDone(r)
                         \/ PrefetchRelease(r) \/ Disconnect(r)
  \/ Loop
  \/ \E m \in Modes : Pause(m)
  \/ Resume

\* The loop thread calls step() for ever (LLMMaster::run); a caller and a
\* callback go on; who paused the scheduler resumes it once it is paused.
Fairness ==
  /\ WF_vars(Loop)
  /\ \A r \in Requests :
       WF_vars(Admit(r) \/ PrefetchDone(r) \/ PrefetchRelease(r))
  /\ WF_vars(pause_state = "PAUSED" /\ Resume)

SafeSpec == Init /\ [][Next]_vars

Spec == SafeSpec /\ Fairness

-----------------------------------------------------------------------------
\* The pending count and the queue size are read at different times, while
\* callbacks move requests from one to the other, yet no more requests are
\* let in than the queue can take: a callback never blocks in blockingWrite.
QueueNeverFull ==
  Len(request_queue) + Cardinality({r \in Requests : stage[r] = "prefetch"})
    <= Capacity

\* A request taken from request_queue_ that is neither finished nor answered
\* is in exactly one place, once: whatever preemption, requeueing and pauses
\* did, it is neither lost nor scheduled twice.
UnfinishedIsQueued ==
  \A r \in Requests :
    stage[r] \in {"wrote", "in"} /\ r \notin finished /\ ans[r] = "none" =>
      LET places == request_queue \o decode_queue \o running \o unified_queue \o preempted
      IN Cardinality({i \in DOMAIN places : places[i] = r})
         + Cardinality(prefill_queue \intersect {r}) = 1

\* "Requests have been handled per mode and it is safe to update weights"
\* (wait_until_paused): when a KEEP or ABORT pause is complete no request
\* holds KV and no batch is in flight, until the scheduler is resumed.
PausedHoldsNoKv ==
  pause_state = "PAUSED" /\ loop_mode \in {"KEEP", "ABORT"} =>
    last_batch = {} /\ \A r \in Requests : held[r] = 0

\* A request is failed for lack of memory only if it would not fit in the
\* whole device: never because others hold the blocks for now
\* (handle_unschedulable_head, handle_abnormal_decode_request).
FailsOnlyIfTooBig ==
  [][\A r \in Requests :
       ans[r] = "none" /\ ans'[r] = "failed" => Tokens(r) > Blocks]_vars

\* Every admitted request is answered: preemption does not go round in
\* circles, and no request is forgotten.
AllAnswered ==
  \A r \in Requests : stage[r] = "prefetch" ~> ans[r] # "none"

\* wait_until_paused() without a time limit returns from a KEEP or ABORT pause,
\* unless a refused pause() replaces the mode by WAIT: the step under way ends,
\* whatever requests it meets.  A WAIT pause goes on admitting, so it lasts as
\* long as requests come.
PauseSettles ==
  pause_state = "PAUSING" /\ pause_mode # "WAIT"
    ~> pause_state # "PAUSING" \/ pause_mode = "WAIT"

\* What a client and the KV cache see of a request.
Service ==
  INSTANCE RequestService WITH
    Answers <- {"done", "failed", "aborted"},
    kv <- held,
    status <- [r \in Requests |->
                 IF stage[r] \in {"new", "reserved"} THEN "offered"
                 ELSE IF stage[r] = "rejected" THEN "rejected"
                 ELSE IF ans[r] = "none" THEN "accepted" ELSE ans[r]]

\* The scheduler implements RequestService: one answer for good, no KV for a
\* request that has it, and never more blocks than the device has, whatever
\* the queues, the overlap pipeline and the pauses do.
ImplementsService == Service!Spec
=============================================================================
