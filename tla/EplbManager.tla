---------------------------- MODULE EplbManager ----------------------------
(***************************************************************************)
(* Expert-parallel load balancing: the manager in the engine process       *)
(* (eplb_manager.cpp: engine hot path, rebalance thread, manager thread),  *)
(* the policy it consults (eplb_policy.cpp), the engine's bookkeeping of   *)
(* activation tokens under schedule overlap (llm_engine.cpp) and, on every *)
(* EP rank, the executor and the staged weights of each MoE layer          *)
(* (eplb_executor.cpp, fused_moe.cpp).                                     *)
(*                                                                         *)
(* A plan (where the experts of one layer live) is an element of Plans;    *)
(* plan 0 is the identity placement of the constructor.  Load numbers are  *)
(* abstracted to whether the current placement generation was sampled.     *)
(***************************************************************************)
EXTENDS Integers, Sequences, FiniteSets, FiniteSetsExt

CONSTANTS Devices,    \* EP ranks, one worker each
          LayerNum,   \* MoE layers
          PlanNum,    \* plans the policy can compute for a layer
          Overlap,    \* enable_schedule_overlap
          Warmups,    \* graph warm-up steps before serving
          MaxToken    \* bound: prepare attempts of a behaviour

ASSUME EplbAssumption ==
  /\ Devices # {} /\ IsFiniteSet(Devices)
  /\ LayerNum \in Nat \ {0} /\ PlanNum \in Nat \ {0}
  /\ Overlap \in BOOLEAN /\ Warmups \in Nat /\ MaxToken \in Nat

Layers == 0 .. LayerNum - 1
Plans  == 0 .. PlanNum - 1
None   == -1                        \* the code's "no layer" and "no token"
NoPlan == [plan |-> None, base |-> None]

\* What one step carries to every worker (eplb_info.h, EplbInfo).
NoCommand == [prepare |-> None, token |-> None, plan |-> None,
              update |-> None, activation |-> None]

VARIABLES
  \* --- EplbManager::state_, guarded by one mutex
  active_layer_id, layer_states, enable_update_vec,
  prepared_tokens, active_prepare_token, next_prepare_token,
  pending,              \* [layer, token]: pending_activation_*
  awaiting,             \* [layer, token]: activation_awaiting_*
  expert_distribution, active_expert_distribution,
  generation, load_sampled,
  queue,                \* generations of the samples in expert_load_queue
  \* --- the policy and the rebalance thread's locals
  assignment, rollback, reb,
  \* --- the engine
  flight,               \* steps dispatched and not collected, oldest first
  tokens,               \* pending_eplb_activation_tokens_
  collecting,           \* process_eplb_data between its two manager calls
  warmups,
  \* --- every worker
  chan, fwd, tasks, running, ready, staged, live, out

mgr  == <<active_layer_id, layer_states, enable_update_vec, prepared_tokens,
          active_prepare_token, next_prepare_token, pending, awaiting,
          expert_distribution, active_expert_distribution, generation,
          load_sampled, queue>>
pol  == <<assignment, rollback, reb>>
eng  == <<flight, tokens, collecting, warmups>>
dev  == <<chan, fwd, tasks, running, ready, staged, live, out>>
vars == <<mgr, pol, eng, dev>>

Idle == [pc |-> "idle", update |-> None, deferred |-> <<>>]

Init ==
  /\ active_layer_id = None /\ layer_states = [l \in Layers |-> "IDLE"]
  /\ enable_update_vec = {} /\ prepared_tokens = [d \in Devices |-> None]
  /\ active_prepare_token = None /\ next_prepare_token = 1
  /\ pending = [layer |-> None, token |-> None] /\ awaiting = pending
  /\ expert_distribution = [l \in Layers |-> 0]
  /\ active_expert_distribution = expert_distribution
  /\ generation = 0 /\ load_sampled = FALSE /\ queue = {}
  /\ assignment = expert_distribution
  /\ rollback = [l \in Layers |-> None]
  /\ reb = [pc |-> "wait", busy |-> FALSE, gen |-> 0, sampled |-> FALSE,
            deadline |-> FALSE, deadline_generation |-> None]
  /\ flight = <<>> /\ tokens = <<>> /\ warmups = Warmups
  /\ collecting = [pc |-> "no", token |-> None]
  /\ chan = [d \in Devices |-> <<>>] /\ fwd = [d \in Devices |-> Idle]
  /\ tasks = [d \in Devices |-> <<>>] /\ running = [d \in Devices |-> <<>>]
  /\ ready = [d \in Devices |-> None]
  /\ staged = [d \in Devices |-> [l \in Layers |-> NoPlan]]
  /\ live = [d \in Devices |-> expert_distribution]
  /\ out = [d \in Devices |-> <<>>]

----------------------------------------------------------------------------
(* The manager's threads *)

find_next_true(vec, start) ==
  LET s == {l \in vec : l >= start} IN IF s = {} THEN None ELSE Min(s)

round_in_progress ==
  active_layer_id # None \/ pending.layer # None \/ awaiting.layer # None

\* Phases 1 and 2 of rebalance_experts_loop: drain the queue, snapshot the
\* state, and keep only the samples of the current generation.
RebalanceSnapshot ==
  /\ reb.pc = "wait"
  /\ queue # {} \/ reb.deadline
  /\ LET sampled == load_sampled \/ generation \in queue
         armed   == reb.deadline /\ reb.deadline_generation = generation
     IN reb' = [pc |-> "compute", busy |-> round_in_progress, gen |-> generation,
                sampled |-> sampled, deadline |-> armed \/ sampled,
                deadline_generation |-> generation]
  /\ queue' = {}
  /\ UNCHANGED <<active_layer_id, layer_states, enable_update_vec,
                 prepared_tokens, active_prepare_token, next_prepare_token,
                 pending, awaiting, expert_distribution,
                 active_expert_distribution, generation, load_sampled,
                 assignment, rollback, eng, dev>>

\* Phase 4 for the loads: they are stored if no activation committed since.
PublishLoad ==
  load_sampled' = IF generation = reb.gen THEN reb.sampled ELSE load_sampled

\* Phase 3 and 4 when no round starts: the interval has not elapsed, a round
\* is in progress or nothing was sampled.
RebalanceSkip ==
  /\ reb.pc = "compute"
  /\ \E elapsed \in {FALSE, reb.deadline} :
       /\ elapsed => reb.busy \/ ~reb.sampled
       /\ reb' = [reb EXCEPT !.pc = "wait", !.deadline = @ /\ ~elapsed]
  /\ PublishLoad
  /\ UNCHANGED <<active_layer_id, layer_states, enable_update_vec,
                 prepared_tokens, active_prepare_token, next_prepare_token,
                 pending, awaiting, expert_distribution,
                 active_expert_distribution, generation, queue,
                 assignment, rollback, eng, dev>>

\* Phases 3 and 4 when the policy runs (rebalance_experts, without the mutex)
\* and its round is published: the layers in `changed` get plan p.
RebalanceRound(changed, p) ==
  /\ reb.pc = "compute" /\ ~reb.busy /\ reb.sampled /\ reb.deadline
  /\ \A l \in changed : assignment[l] # p
  /\ next_prepare_token + Cardinality(changed) <= MaxToken + 1   \* bound
  /\ rollback' = [l \in Layers |->
                    IF l \in changed THEN assignment[l] ELSE rollback[l]]
  /\ assignment' = [l \in Layers |->
                      IF l \in changed THEN p ELSE assignment[l]]
  /\ expert_distribution' =
       [l \in Layers |-> IF l \in changed THEN p ELSE expert_distribution[l]]
  /\ enable_update_vec' = changed
  /\ layer_states' = [l \in Layers |-> "IDLE"]
  /\ pending' = [pending EXCEPT !.layer = None]
  /\ active_layer_id' = find_next_true(changed, 0)
  /\ reb' = [reb EXCEPT !.pc = "wait", !.deadline = FALSE]
  /\ PublishLoad
  /\ UNCHANGED <<prepared_tokens, active_prepare_token, next_prepare_token,
                 awaiting, active_expert_distribution, generation, queue,
                 eng, dev>>

\* Mutant: one device's report is enough.
AllPrepared_Any == \E d \in Devices : prepared_tokens[d] = active_prepare_token

all_prepared == \A d \in Devices : prepared_tokens[d] = active_prepare_token

\* eplb_manager_loop: every device reported the attempt, the layer is READY.
ManagerReady ==
  /\ active_layer_id # None /\ active_prepare_token # None
  /\ all_prepared
  /\ layer_states' = [layer_states EXCEPT ![active_layer_id] = "READY"]
  /\ pending' = [layer |-> active_layer_id, token |-> active_prepare_token]
  /\ active_prepare_token' = None
  /\ active_layer_id' = find_next_true(enable_update_vec, active_layer_id + 1)
  /\ UNCHANGED <<enable_update_vec, prepared_tokens, next_prepare_token,
                 awaiting, expert_distribution, active_expert_distribution,
                 generation, load_sampled, queue, pol, eng, dev>>

\* Mutant: the assignment keeps the plan that was given up.
AbortLayer_KeepsPlan(l) ==
  /\ assignment' = assignment
  /\ rollback' = [rollback EXCEPT ![l] = None]

\* EplbPolicyBase::abort_layer.
abort_layer(l) ==
  /\ assignment' = IF rollback[l] = None THEN assignment
                   ELSE [assignment EXCEPT ![l] = rollback[l]]
  /\ rollback' = [rollback EXCEPT ![l] = None]

\* abort_active_prepare, on either timeout.  The clock is read after a wait
\* that gives up the mutex, so the attempt may even be complete by then.
ManagerTimeout ==
  /\ active_layer_id # None /\ active_prepare_token # None
  /\ abort_layer(active_layer_id)
  /\ enable_update_vec' = enable_update_vec \ {active_layer_id}
  /\ layer_states' = [layer_states EXCEPT ![active_layer_id] = "IDLE"]
  /\ active_prepare_token' = None
  /\ prepared_tokens' = [d \in Devices |-> None]
  /\ active_layer_id' = find_next_true(enable_update_vec', active_layer_id + 1)
  /\ UNCHANGED <<next_prepare_token, pending, awaiting, expert_distribution,
                 active_expert_distribution, generation, load_sampled, queue,
                 reb, eng, dev>>

----------------------------------------------------------------------------
(* The engine thread *)

Activates == awaiting.layer = None /\ pending.layer # None

MustPrepare ==
  active_layer_id # None /\ layer_states[active_layer_id] = "IDLE"

\* get_eplb_info with commands allowed.
GetEplbInfo ==
  [prepare    |-> IF MustPrepare THEN active_layer_id ELSE None,
   token      |-> IF MustPrepare THEN next_prepare_token ELSE None,
   plan       |-> IF MustPrepare THEN expert_distribution[active_layer_id]
                  ELSE None,
   update     |-> IF Activates THEN pending.layer ELSE None,
   activation |-> IF Activates THEN pending.token ELSE None]

Depth == IF Overlap THEN 2 ELSE 1

\* LLMEngine::step up to the RPCs: the same command goes to every worker.
Send(info, warm) ==
  /\ chan' = [d \in Devices |-> Append(chan[d], info)]
  /\ flight' = Append(flight, [warm |-> warm, activation |-> info.activation])
  /\ tokens' = IF Overlap THEN Append(tokens, info.activation) ELSE tokens
  /\ UNCHANGED <<collecting, fwd, tasks, running, ready, staged, live, out>>

CanSend == collecting.pc = "no" /\ Len(flight) < Depth

\* A decode step: prepare_inputs asks the manager for a command.
DispatchDecode ==
  /\ CanSend /\ warmups = 0
  /\ \A i \in DOMAIN flight : ~flight[i].warm
  /\ LET info == GetEplbInfo
     IN /\ Send(info, FALSE)
        /\ IF info.update # None
           THEN /\ awaiting' = [layer |-> info.update, token |-> info.activation]
                /\ pending' = [layer |-> None, token |-> None]
           ELSE UNCHANGED <<awaiting, pending>>
        /\ IF info.prepare # None
           THEN /\ next_prepare_token' = next_prepare_token + 1
                /\ active_prepare_token' = info.token
                /\ layer_states' = [layer_states EXCEPT
                                      ![info.prepare] = "PREPARING"]
           ELSE UNCHANGED <<next_prepare_token, active_prepare_token,
                            layer_states>>
  /\ UNCHANGED <<active_layer_id, enable_update_vec, prepared_tokens,
                 expert_distribution, active_expert_distribution, generation,
                 load_sampled, queue, pol, warmups>>

\* A prefill, mixed or empty step carries no EPLB command.
DispatchOther ==
  /\ CanSend /\ warmups = 0
  /\ \A i \in DOMAIN flight : ~flight[i].warm
  /\ Send(NoCommand, FALSE)
  /\ UNCHANGED <<mgr, pol, warmups>>

\* A graph warm-up step at start-up; its result is collected before anything
\* else is dispatched (profile_manager.cpp run_request).
DispatchWarmup ==
  /\ CanSend /\ warmups > 0 /\ flight = <<>>
  /\ Send(NoCommand, TRUE)
  /\ warmups' = warmups - 1
  /\ UNCHANGED <<mgr, pol>>

\* The token that update_last_step_result (or step, without overlap) hands to
\* the manager with the outputs of the oldest step in flight.
CompletedToken ==
  IF Overlap
  THEN IF Head(flight).warm THEN None ELSE Head(tokens)
  ELSE Head(flight).activation

\* Mutant: a report counts whatever attempt it is for.
TokenMatches_Unchecked(t) == t # None

TokenMatches(t) == t = active_prepare_token

\* Every worker's output of the oldest step has arrived: process_eplb_data
\* begins with set_prepared_tokens.  Without overlap the outputs of a warm-up
\* step are not looked at.
CollectPrepared ==
  /\ collecting.pc = "no" /\ flight # <<>>
  /\ \A d \in Devices : out[d] # <<>>
  /\ LET skip == ~Overlap /\ Head(flight).warm
     IN /\ collecting' = IF skip THEN collecting
                         ELSE [pc |-> "load", token |-> CompletedToken]
        /\ prepared_tokens' =
             [d \in Devices |-> IF ~skip /\ TokenMatches(Head(out[d]))
                                THEN active_prepare_token
                                ELSE prepared_tokens[d]]
  /\ flight' = Tail(flight)
  /\ tokens' = IF Overlap /\ ~Head(flight).warm THEN Tail(tokens) ELSE tokens
  /\ out' = [d \in Devices |-> Tail(out[d])]
  /\ UNCHANGED <<active_layer_id, layer_states, enable_update_vec,
                 active_prepare_token, next_prepare_token, pending, awaiting,
                 expert_distribution, active_expert_distribution, generation,
                 load_sampled, queue, pol, warmups,
                 chan, fwd, tasks, running, ready, staged, live>>

\* Mutant: any collected step acknowledges the activation.
Acknowledged_AnyStep == awaiting.layer # None

\* Mutant: the acknowledgement must come with a later step's token.
Acknowledged_Late == awaiting.layer # None /\ collecting.token > awaiting.token

Acknowledged == awaiting.layer # None /\ collecting.token = awaiting.token

\* process_eplb_data ends with update_expert_load: the sample is queued under
\* the generation before the commit, then the activation is committed.
CollectLoad ==
  /\ collecting.pc = "load"
  /\ queue' = queue \union {generation}
  /\ IF Acknowledged
     THEN /\ rollback' = [rollback EXCEPT ![awaiting.layer] = None]
          /\ active_expert_distribution' =
               [active_expert_distribution EXCEPT
                  ![awaiting.layer] = expert_distribution[awaiting.layer]]
          /\ generation' = generation + 1
          /\ load_sampled' = FALSE
          /\ awaiting' = [layer |-> None, token |-> None]
     ELSE UNCHANGED <<rollback, active_expert_distribution, generation,
                      load_sampled, awaiting>>
  /\ collecting' = [pc |-> "no", token |-> None]
  /\ UNCHANGED <<active_layer_id, layer_states, enable_update_vec,
                 prepared_tokens, active_prepare_token, next_prepare_token,
                 pending, expert_distribution, assignment, reb,
                 flight, tokens, warmups, dev>>

----------------------------------------------------------------------------
(* The workers *)

Task(info) == [layer |-> info.prepare, token |-> info.token, plan |-> info.plan]

\* EplbExecutor::start_eplb_step, before the forward.
StartStep(d) ==
  /\ fwd[d].pc = "idle" /\ chan[d] # <<>>
  /\ LET info  == Head(chan[d])
         fresh == IF info.prepare = None THEN <<>> ELSE <<Task(info)>>
         defer == info.update # None
     IN /\ fwd' = [fwd EXCEPT ![d] =
                     [pc |-> "forward", update |-> info.update,
                      deferred |-> IF defer THEN fresh ELSE <<>>]]
        /\ tasks' = [tasks EXCEPT ![d] = @ \o IF defer THEN <<>> ELSE fresh]
  /\ chan' = [chan EXCEPT ![d] = Tail(@)]
  /\ UNCHANGED <<mgr, pol, eng, running, ready, staged, live, out>>

\* EplbExecutor::finish_eplb_step after the forward; update_expert_weight
\* does nothing when no plan is staged.
FinishStep(d) ==
  /\ fwd[d].pc = "forward"
  /\ LET l == fwd[d].update
     IN IF l # None /\ staged[d][l] # NoPlan
        THEN /\ live' = [live EXCEPT ![d][l] = staged[d][l].plan]
             /\ staged' = [staged EXCEPT ![d][l] = NoPlan]
        ELSE UNCHANGED <<live, staged>>
  /\ tasks' = [tasks EXCEPT ![d] = @ \o fwd[d].deferred]
  /\ fwd' = [fwd EXCEPT ![d] = [Idle EXCEPT !.pc = "finished"]]
  /\ UNCHANGED <<mgr, pol, eng, chan, running, ready, out>>

\* The output takes the ready token with it (consume_ready_prepare_token).
RecordOutput(d) ==
  /\ fwd[d].pc = "finished"
  /\ out' = [out EXCEPT ![d] = Append(@, ready[d])]
  /\ ready' = [ready EXCEPT ![d] = None]
  /\ fwd' = [fwd EXCEPT ![d] = Idle]
  /\ UNCHANGED <<mgr, pol, eng, chan, tasks, running, staged, live>>

\* eplb_worker_loop takes a task; prepare_expert_weight overwrites the staged
\* plan of the layer piece by piece, starting from the layer's live placement.
BeginPrepare(d) ==
  /\ running[d] = <<>> /\ tasks[d] # <<>>
  /\ LET t == Head(tasks[d])
     IN /\ running' = [running EXCEPT ![d] =
                         <<[task |-> t, base |-> live[d][t.layer]]>>]
        /\ staged' = [staged EXCEPT ![d][t.layer] = NoPlan]
  /\ tasks' = [tasks EXCEPT ![d] = Tail(@)]
  /\ UNCHANGED <<mgr, pol, eng, chan, fwd, ready, live, out>>

\* The prepare ends, well or not; only success reports the attempt's token.
EndPrepare(d, ok) ==
  /\ running[d] # <<>>
  /\ LET r == Head(running[d])
     IN IF ok
        THEN /\ staged' = [staged EXCEPT ![d][r.task.layer] =
                             [plan |-> r.task.plan, base |-> r.base]]
             /\ ready' = [ready EXCEPT ![d] = r.task.token]
        ELSE UNCHANGED <<staged, ready>>
  /\ running' = [running EXCEPT ![d] = <<>>]
  /\ UNCHANGED <<mgr, pol, eng, chan, fwd, tasks, live, out>>

----------------------------------------------------------------------------
Rebalance == \E changed \in SUBSET Layers, p \in Plans : RebalanceRound(changed, p)

Next ==
  \/ RebalanceSnapshot \/ RebalanceSkip \/ Rebalance
  \/ ManagerReady \/ ManagerTimeout
  \/ DispatchDecode \/ DispatchOther \/ DispatchWarmup
  \/ CollectPrepared \/ CollectLoad
  \/ \E d \in Devices :
       \/ StartStep(d) \/ FinishStep(d) \/ RecordOutput(d)
       \/ BeginPrepare(d) \/ \E ok \in BOOLEAN : EndPrepare(d, ok)

Spec == Init /\ [][Next]_vars

\* The engine loop and the worker threads run; the manager thread wakes up
\* at least at the timeout; decode steps keep coming.  A prepare may hang.
Fairness ==
  /\ WF_vars(ManagerReady \/ ManagerTimeout)
  /\ WF_vars(CollectPrepared) /\ WF_vars(CollectLoad)
  /\ WF_vars(DispatchWarmup) /\ SF_vars(DispatchDecode)
  /\ \A d \in Devices : /\ WF_vars(StartStep(d))
                        /\ WF_vars(FinishStep(d))
                        /\ WF_vars(RecordOutput(d))

FairSpec == Spec /\ Fairness

----------------------------------------------------------------------------
(* Properties *)

LayerOrNone == Layers \union {None}
TokenOrNone == (1 .. MaxToken) \union {None}

StepsLeft(d) == Len(chan[d]) + IF fwd[d].pc = "forward" THEN 1 ELSE 0

\* The ranks of an EP group route tokens with one placement: two workers that
\* have completed the same steps have the same live placement of every layer,
\* although prepares run, fail and time out on each of them on its own
\* (finish_eplb_step, update_expert_weight).
SameStepSamePlacement ==
  \A d, e \in Devices : StepsLeft(d) = StepsLeft(e) => live[d] = live[e]

\* When a worker starts the transfer of a layer, what is staged is the whole
\* plan that the manager last proposed, computed against the placement that
\* is still live there, and no prepare is rewriting it: the P2P exchange
\* replays the same plan on every rank (start_expert_weight_transfer).
TransfersProposedPlan ==
  \A d \in Devices :
    LET l == fwd[d].update
    IN fwd[d].pc = "forward" /\ l # None =>
         staged[d][l] = [plan |-> expert_distribution[l], base |-> live[d][l]]

\* The manager labels load samples with the placement it believes live.  It
\* is right whenever no activation is under way (update_expert_load commits
\* neither before nor instead of the workers).
ManagerKnowsPlacement ==
  awaiting.layer = None =>
    \A d \in Devices : live[d] = active_expert_distribution

\* The policy object is used without the mutex while the rebalance thread
\* computes.  When it will run, no commit or abort can be under way, the
\* loads are of the active generation, and the assignment it plans from is the
\* active placement (rebalance_experts_loop, Phase 3).
PolicyAlone ==
  reb.pc = "compute" /\ ~reb.busy =>
    /\ active_layer_id = None /\ awaiting.layer = None
    /\ reb.gen = generation
    /\ assignment = active_expert_distribution

\* A plan the policy booked as adopted is on its way until it is committed or
\* aborted: its layer still waits in this round, is pending activation, or is
\* being acknowledged.  None is dropped (pending_activation_layer_id is a
\* single slot).
NoPlanLost ==
  \A l \in Layers :
    rollback[l] # None =>
      \/ active_layer_id # None /\ l \in enable_update_vec /\ l >= active_layer_id
      \/ pending.layer = l
      \/ awaiting.layer = l

\* The engine retains an activation's token until the output of the step that
\* carried it is collected, and no longer: an activation that the manager still
\* awaits is in flight, or is being acknowledged right now (step,
\* update_last_step_result, pending_eplb_activation_tokens_).
AckedWithItsStep ==
  awaiting.layer # None =>
    \/ \E j \in DOMAIN flight : flight[j].activation # None
    \/ collecting.token = awaiting.token

\* A round of updates ends: whatever prepare hangs or fails, every layer of
\* the round is activated or given up, and the next round can start.
RoundEnds == round_in_progress ~> ~round_in_progress
=============================================================================
