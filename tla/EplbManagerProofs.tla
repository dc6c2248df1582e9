------------------------ MODULE EplbManagerProofs ------------------------
(***************************************************************************)
(* Theorems about EplbManager, for any number of EP ranks, layers, plans,  *)
(* prepare attempts and warm-up steps, with and without schedule overlap.  *)
(*                                                                         *)
(* The inductive invariant IInv says where everything is.  The steps in    *)
(* flight are, on each worker, the outputs sent, the step that runs and    *)
(* the commands not taken, in order (StepInv); at most one of them carries *)
(* an activation (FlightInv), and a worker has switched the awaited layer  *)
(* exactly when it has finished that step (LiveInv, Done).  What a worker  *)
(* has staged for a layer on its way to activation stays whole because the *)
(* tasks of the workers are for other layers (TaskInv) and because the     *)
(* current attempt is always the last task of a worker (LastInv): when it  *)
(* is reported, nothing behind it can rewrite the plan.                    *)
(*                                                                         *)
(* That no plan is lost and that the policy computes alone needs more, and *)
(* only holds when the engine hands over each step's own token: without    *)
(* warm-up steps under overlap (NoSkew).  Then the current attempt travels *)
(* behind the activation in flight (BehindInv), so a layer becomes ready   *)
(* only when the layer before it is being acknowledged (PairInv).          *)
(***************************************************************************)
EXTENDS EplbManager, FiniteSetTheorems, SequenceTheorems, WellFoundedInduction, TLAPS

Token == Nat \union {None}
PlanOrNone == Plans \union {None}
TaskSet == [layer : Layers, token : Nat, plan : Plans]
Infos == [prepare : LayerOrNone, token : Token, plan : PlanOrNone,
          update : LayerOrNone, activation : Token]
RunSet == [task : TaskSet, base : Plans]
StagedSet == {NoPlan} \union [plan : Plans, base : Plans]
FwdSet == [pc : {"idle", "forward", "finished"},
           update : LayerOrNone, deferred : Seq(TaskSet)]
Slots == [layer : LayerOrNone, token : Token]

MgrType ==
  /\ active_layer_id \in LayerOrNone
  /\ layer_states \in [Layers -> {"IDLE", "PREPARING", "READY"}]
  /\ enable_update_vec \subseteq Layers
  /\ prepared_tokens \in [Devices -> Token]
  /\ active_prepare_token \in Token /\ next_prepare_token \in Nat
  /\ pending \in Slots /\ awaiting \in Slots
  /\ expert_distribution \in [Layers -> Plans]
  /\ active_expert_distribution \in [Layers -> Plans]
  /\ generation \in Nat /\ load_sampled \in BOOLEAN /\ queue \subseteq Nat

PolType ==
  /\ assignment \in [Layers -> Plans]
  /\ rollback \in [Layers -> PlanOrNone]
  /\ reb \in [pc : {"wait", "compute"}, busy : BOOLEAN, gen : Nat,
              sampled : BOOLEAN, deadline : BOOLEAN,
              deadline_generation : Nat \union {None}]

EngType ==
  /\ flight \in Seq([warm : BOOLEAN, activation : Token])
  /\ tokens \in Seq(Token)
  /\ collecting \in [pc : {"no", "load"}, token : Token]
  /\ warmups \in Nat

DevType ==
  /\ chan \in [Devices -> Seq(Infos)]
  /\ fwd \in [Devices -> FwdSet]
  /\ tasks \in [Devices -> Seq(TaskSet)]
  /\ running \in [Devices -> Seq(RunSet)]
  /\ ready \in [Devices -> Token]
  /\ staged \in [Devices -> [Layers -> StagedSet]]
  /\ live \in [Devices -> [Layers -> Plans]]
  /\ out \in [Devices -> Seq(Token)]

\* Every variable has its type.
TypeInv == MgrType /\ PolType /\ EngType /\ DevType

----------------------------------------------------------------------------
(* The inductive invariant *)

\* The manager: an attempt is that of the active layer, a slot is whole, layers
\* go through activation in ascending order, and while the policy computes no
\* round is in progress.
MgrInv ==
  /\ active_prepare_token # None =>
       /\ active_layer_id # None
       /\ layer_states[active_layer_id] = "PREPARING"
       /\ active_prepare_token < next_prepare_token
  /\ pending.layer = None <=> pending.token = None
  /\ awaiting.layer = None <=> awaiting.token = None
  /\ active_layer_id # None =>
       pending.layer < active_layer_id /\ awaiting.layer < active_layer_id
  /\ pending.layer # None => awaiting.layer < pending.layer
  /\ reb.pc = "compute" /\ ~reb.busy =>
       /\ active_layer_id = None /\ pending.layer = None /\ awaiting.layer = None
       /\ reb.gen = generation

\* The engine: at most one activation is in flight, the awaited one; its token is
\* handed to the manager no earlier than with the step that carried it.
FlightInv ==
  /\ \A j \in DOMAIN flight :
       /\ flight[j].activation \in {None, awaiting.token}
       /\ flight[j].warm => flight[j].activation = None
  /\ \A i, j \in DOMAIN flight :
       flight[i].activation # None /\ flight[j].activation # None => i = j
  /\ \A i \in DOMAIN tokens : tokens[i] \in {None, awaiting.token}
  /\ \A i, j \in DOMAIN tokens : tokens[i] # None /\ tokens[j] # None => i = j
  /\ ~Overlap => tokens = <<>>
  /\ Overlap =>
       /\ Len(flight) <= Len(tokens)
       /\ \A j \in DOMAIN flight :
            tokens[j + (Len(tokens) - Len(flight))] = flight[j].activation
  /\ collecting.pc = "no" => collecting.token = None
  /\ collecting.token # None =>
       /\ collecting.token = awaiting.token
       /\ \A j \in DOMAIN flight : flight[j].activation = None
       /\ \A i \in DOMAIN tokens : tokens[i] = None

Busy(d) == IF fwd[d].pc = "idle" THEN 0 ELSE 1
UpdateOf(a) == IF a = None THEN None ELSE awaiting.layer

\* Where worker d stands: the outputs it has sent, the step it runs and the
\* commands it has not taken are the steps in flight, in their order.
StepInv(d) ==
  /\ Len(flight) = Len(chan[d]) + Busy(d) + Len(out[d])
  /\ \A m \in DOMAIN chan[d] :
       /\ chan[d][m].activation = flight[Len(flight) - Len(chan[d]) + m].activation
       /\ chan[d][m].update = UpdateOf(chan[d][m].activation)
  /\ fwd[d].pc = "forward" =>
       fwd[d].update = UpdateOf(flight[Len(flight) - Len(chan[d])].activation)
  /\ fwd[d].pc # "forward" => fwd[d].update = None /\ fwd[d].deferred = <<>>

\* The tasks that may be on their way through a worker: not for a layer that is
\* being activated, and the current attempt is for the active layer's plan.
OkTasks ==
  {k \in TaskSet :
     /\ k.token < next_prepare_token
     /\ k.layer # pending.layer /\ k.layer # awaiting.layer
     /\ k.token = active_prepare_token =>
          k.layer = active_layer_id /\ k.plan = expert_distribution[active_layer_id]}

TaskInv(d) ==
  /\ \A m \in DOMAIN chan[d] :
       IF chan[d][m].prepare = None THEN chan[d][m].token = None
       ELSE Task(chan[d][m]) \in OkTasks
  /\ fwd[d].deferred \in Seq(OkTasks) /\ tasks[d] \in Seq(OkTasks)
  /\ \A i \in DOMAIN running[d] :
       /\ running[d][i].task \in OkTasks
       /\ running[d][i].task.token = active_prepare_token =>
            running[d][i].base = live[d][active_layer_id]
  /\ ready[d] < next_prepare_token /\ prepared_tokens[d] < next_prepare_token
  /\ \A i \in DOMAIN out[d] : out[d][i] < next_prepare_token

\* No command that worker d has not taken carries a prepare.
NoPrep(d) == \A m \in DOMAIN chan[d] : chan[d][m].prepare = None

Reported(d) ==
  \/ ready[d] = active_prepare_token \/ prepared_tokens[d] = active_prepare_token
  \/ \E i \in DOMAIN out[d] : out[d][i] = active_prepare_token

Proposed(d, l) == [plan |-> expert_distribution[l], base |-> live[d][l]]

\* The current attempt is the last task of worker d: once it is reported,
\* nothing is left that could rewrite what it has staged.
LastInv(d) ==
  /\ Len(fwd[d].deferred) <= 1 /\ Len(running[d]) <= 1
  /\ active_prepare_token # None =>
       /\ \A m, n \in DOMAIN chan[d] :
            chan[d][m].token = active_prepare_token /\ m < n => chan[d][n].prepare = None
       /\ (\E i \in DOMAIN fwd[d].deferred :
             fwd[d].deferred[i].token = active_prepare_token) => NoPrep(d)
       /\ \A i \in DOMAIN tasks[d] :
            tasks[d][i].token = active_prepare_token =>
              i = Len(tasks[d]) /\ fwd[d].deferred = <<>> /\ NoPrep(d)
       /\ (\E i \in DOMAIN running[d] :
             running[d][i].task.token = active_prepare_token) =>
            tasks[d] = <<>> /\ fwd[d].deferred = <<>> /\ NoPrep(d)
       /\ Reported(d) =>
            /\ running[d] = <<>> /\ tasks[d] = <<>> /\ fwd[d].deferred = <<>>
            /\ NoPrep(d)
            /\ staged[d][active_layer_id] = Proposed(d, active_layer_id)

\* Worker d has finished the step that carries the activation in flight.
Done(d) ==
  \A j \in DOMAIN flight :
    flight[j].activation # None => j + StepsLeft(d) <= Len(flight)

\* Worker d's placement is the active one, except that of the awaited layer once
\* it has been switched; until then its plan is staged and whole.
LiveInv(d) ==
  /\ \A l \in Layers :
       live[d][l] = IF l = awaiting.layer /\ Done(d) THEN expert_distribution[l]
                    ELSE active_expert_distribution[l]
  /\ pending.layer # None => staged[d][pending.layer] = Proposed(d, pending.layer)
  /\ awaiting.layer # None /\ ~Done(d) =>
       staged[d][awaiting.layer] = Proposed(d, awaiting.layer)

DevInv(d) == StepInv(d) /\ TaskInv(d) /\ LastInv(d) /\ LiveInv(d)

IInv == TypeInv /\ MgrInv /\ FlightInv /\ \A d \in Devices : DevInv(d)

----------------------------------------------------------------------------
(* Without warm-up steps under overlap *)

NoSkew == ~Overlap \/ Warmups = 0

\* The steps in flight that carry an activation, and whether none is after step i.
Acts == {j \in DOMAIN flight : flight[j].activation # None}
Upto(S, i) == \A j \in S : j <= i

\* The engine hands over a step's own token, and an activation is acknowledged
\* before the next layer can be ready.
PairInv ==
  /\ Overlap =>
       /\ warmups = 0 /\ Len(tokens) = Len(flight)
       /\ \A j \in DOMAIN flight : ~flight[j].warm
  /\ active_prepare_token # None => pending.layer = None
  /\ pending.layer # None /\ awaiting.layer # None => collecting.token = awaiting.token
  /\ awaiting.layer # None =>
       \/ collecting.token = awaiting.token
       \/ \E j \in DOMAIN flight : flight[j].activation # None

\* The current attempt is on its way through worker d, or waits to be reported.
Held(d) ==
  \/ \E i \in DOMAIN fwd[d].deferred : fwd[d].deferred[i].token = active_prepare_token
  \/ \E i \in DOMAIN tasks[d] : tasks[d][i].token = active_prepare_token
  \/ \E i \in DOMAIN running[d] : running[d][i].task.token = active_prepare_token
  \/ ready[d] = active_prepare_token

\* The current attempt travels behind the activation in flight.
BehindInv(d) ==
  active_prepare_token # None =>
    /\ \A m \in DOMAIN chan[d] :
         chan[d][m].token = active_prepare_token =>
           Upto(Acts, Len(flight) - Len(chan[d]) + m)
    /\ Held(d) => Upto(Acts, Len(flight) - Len(chan[d]))
    /\ \A i \in DOMAIN out[d] : out[d][i] = active_prepare_token => Upto(Acts, i)
    /\ prepared_tokens[d] = active_prepare_token => Upto(Acts, 0)

InRound(l) ==
  \/ active_layer_id # None /\ l \in enable_update_vec /\ l >= active_layer_id
  \/ pending.layer = l \/ awaiting.layer = l

\* The policy's books: what a round has changed can be rolled back to what is
\* active, and nothing else can.
PolicyInv ==
  /\ active_layer_id # None => active_layer_id \in enable_update_vec
  /\ \A l \in Layers :
       /\ rollback[l] # None <=> InRound(l)
       /\ rollback[l] \in {None, active_expert_distribution[l]}
       /\ assignment[l] = IF rollback[l] = None THEN active_expert_distribution[l]
                          ELSE expert_distribution[l]

JInv == IInv /\ PairInv /\ PolicyInv /\ \A d \in Devices : BehindInv(d)

----------------------------------------------------------------------------
(* Facts about the operators *)

LEMMA MinOfLayers ==
  ASSUME NEW S \in SUBSET Layers, S # {}
  PROVE  Min(S) \in S /\ \A y \in S : Min(S) <= y
<1> DEFINE R == {ss \in Nat \X Nat : ss[1] < ss[2]}
<1>0. S \subseteq Nat
  BY EplbAssumption DEF Layers
<1>1. \E x \in S : \A y \in S : ~(<<y, x>> \in R)
  <2>1. IsWellFoundedOn(R, Nat)
    BY NatLessThanWellFounded DEF OpToRel
  <2> HIDE DEF R
  <2> QED BY <2>1, <1>0, WFMin
<1>2. \E x \in S : \A y \in S : x =< y
  <2>1. PICK x \in S : \A y \in S : ~(<<y, x>> \in R)
    BY <1>1
  <2>2. ASSUME NEW y \in S PROVE x =< y
    <3>1. ~(y < x)
      BY <2>1, <1>0
    <3> QED BY <3>1, <1>0
  <2> QED BY <2>2
<1> QED BY <1>2 DEF Min

\* find_next_true returns the first layer of the round from `start` on.
LEMMA NextLayer ==
  ASSUME NEW vec \in SUBSET Layers, NEW start \in Nat
  PROVE  LET n == find_next_true(vec, start)
         IN /\ n \in LayerOrNone
            /\ n = None => \A l \in vec : l < start
            /\ n # None => /\ n \in vec /\ n >= start
                           /\ \A l \in vec : l >= start => l >= n
<1> DEFINE s == {l \in vec : l >= start}
<1>1. s = {} => find_next_true(vec, start) = None /\ \A l \in vec : l < start
  BY EplbAssumption DEF find_next_true, Layers
<1>2. s # {} => find_next_true(vec, start) = Min(s)
  BY DEF find_next_true
<1>3. s # {} => Min(s) \in s /\ \A l \in s : Min(s) <= l
  BY MinOfLayers
<1>4. None \notin Layers
  BY EplbAssumption DEF None, Layers
<1> QED BY <1>1, <1>2, <1>3, <1>4, EplbAssumption DEF LayerOrNone

LEMMA Consts ==
  /\ None \notin Layers /\ None \notin Plans /\ None \notin Nat
  /\ Layers \subseteq Nat /\ Plans \subseteq Nat /\ 0 \in Plans /\ 0 \in Layers
  /\ None \in Int /\ LayerOrNone \subseteq Int /\ Token \subseteq Int
  /\ \A n \in Nat : None < n
BY EplbAssumption DEF None, Layers, Plans, LayerOrNone, Token

\* One entry of a table of tables changes.
LEMMA ExceptExcept ==
  ASSUME NEW D, NEW L, NEW V, NEW f \in [D -> [L -> V]], NEW d \in D, NEW l \in L,
         NEW v \in V, NEW g, g = [f EXCEPT ![d][l] = v]
  PROVE  /\ g \in [D -> [L -> V]]
         /\ \A e \in D, k \in L : g[e][k] = IF e = d /\ k = l THEN v ELSE f[e][k]
<1>1. [f[d] EXCEPT ![l] = v] \in [L -> V]
  OBVIOUS
<1>2. g = [f EXCEPT ![d] = [f[d] EXCEPT ![l] = v]]
  OBVIOUS
<1>3. g \in [D -> [L -> V]]
  BY <1>1, <1>2
<1> QED BY <1>2, <1>3

----------------------------------------------------------------------------
(* Types *)

LEMMA InitType == Init => TypeInv
<1> SUFFICES ASSUME Init PROVE TypeInv
  OBVIOUS
<1> USE Consts DEF Init
<1>1. MgrType
  BY DEF MgrType, LayerOrNone, Token, Slots
<1>2. PolType
  BY DEF PolType, PlanOrNone
<1>3. EngType
  BY EplbAssumption DEF EngType, Token
<1>4. DevType
  BY DEF DevType, Idle, LayerOrNone, Token, StagedSet, FwdSet
<1> QED BY <1>1, <1>2, <1>3, <1>4 DEF TypeInv

LEMMA RebalanceType ==
  ASSUME TypeInv, RebalanceSnapshot \/ RebalanceSkip
  PROVE  TypeInv'
<1> USE DEF eng, dev, pol
<1>1. CASE RebalanceSnapshot
  <2>1. MgrType'
    BY <1>1 DEF TypeInv, MgrType, RebalanceSnapshot
  <2>2. PolType'
    BY <1>1 DEF TypeInv, MgrType, PolType, RebalanceSnapshot, round_in_progress
  <2>3. EngType' /\ DevType'
    BY <1>1 DEF TypeInv, EngType, DevType, RebalanceSnapshot
  <2> QED BY <2>1, <2>2, <2>3 DEF TypeInv
<1>2. CASE RebalanceSkip
  <2>1. MgrType'
    BY <1>2 DEF TypeInv, MgrType, PolType, RebalanceSkip, PublishLoad
  <2>2. PolType'
    BY <1>2 DEF TypeInv, PolType, RebalanceSkip
  <2>3. EngType' /\ DevType'
    BY <1>2 DEF TypeInv, EngType, DevType, RebalanceSkip
  <2> QED BY <2>1, <2>2, <2>3 DEF TypeInv
<1> QED BY <1>1, <1>2

LEMMA RoundType ==
  ASSUME TypeInv, NEW changed \in SUBSET Layers, NEW p \in Plans,
         RebalanceRound(changed, p)
  PROVE  TypeInv'
<1> USE DEF eng, dev
<1>1. find_next_true(changed, 0) \in LayerOrNone
  BY NextLayer
<1>2. pending' \in Slots
  BY Consts DEF RebalanceRound, TypeInv, MgrType, Slots, LayerOrNone
<1>3. load_sampled' \in BOOLEAN
  BY DEF RebalanceRound, TypeInv, MgrType, PolType, PublishLoad
<1>4. MgrType'
  BY <1>1, <1>2, <1>3 DEF RebalanceRound, TypeInv, MgrType
<1>5. PolType'
  BY DEF RebalanceRound, TypeInv, MgrType, PolType, PlanOrNone
<1>6. EngType' /\ DevType'
  BY DEF RebalanceRound, TypeInv, EngType, DevType
<1> QED BY <1>4, <1>5, <1>6 DEF TypeInv

LEMMA ManagerType ==
  ASSUME TypeInv, ManagerReady \/ ManagerTimeout
  PROVE  TypeInv'
<1> USE DEF eng, dev, pol
<1>0. active_layer_id \in Layers /\ active_layer_id + 1 \in Nat
  BY Consts DEF TypeInv, MgrType, ManagerReady, ManagerTimeout, LayerOrNone
<1>1. CASE ManagerReady
  <2>1. active_layer_id' \in LayerOrNone
    BY <1>0, <1>1, NextLayer DEF TypeInv, MgrType, ManagerReady
  <2>2. pending' \in Slots
    BY <1>1 DEF TypeInv, MgrType, ManagerReady, Slots
  <2>3. MgrType'
    BY <2>1, <2>2, <1>1 DEF TypeInv, MgrType, ManagerReady, Token
  <2>4. PolType' /\ EngType' /\ DevType'
    BY <1>1 DEF TypeInv, PolType, EngType, DevType, ManagerReady
  <2> QED BY <2>3, <2>4 DEF TypeInv
<1>2. CASE ManagerTimeout
  <2>0. enable_update_vec' \in SUBSET Layers
    BY <1>2 DEF TypeInv, MgrType, ManagerTimeout
  <2>1. active_layer_id' \in LayerOrNone
    BY <1>0, <1>2, <2>0, NextLayer DEF ManagerTimeout
  <2>3. MgrType'
    BY <2>0, <2>1, <1>2 DEF TypeInv, MgrType, ManagerTimeout, Token
  <2>4. PolType'
    BY <1>2, <1>0 DEF TypeInv, PolType, ManagerTimeout, abort_layer, PlanOrNone
  <2>5. EngType' /\ DevType'
    BY <1>2 DEF TypeInv, EngType, DevType, ManagerTimeout
  <2> QED BY <2>3, <2>4, <2>5 DEF TypeInv
<1> QED BY <1>1, <1>2

LEMMA InfoType ==
  ASSUME TypeInv
  PROVE  GetEplbInfo \in Infos /\ NoCommand \in Infos
<1>1. GetEplbInfo \in Infos
  BY Consts DEF TypeInv, MgrType, GetEplbInfo, MustPrepare, Activates, Infos, LayerOrNone,
         Token, PlanOrNone, Slots
<1>2. NoCommand \in Infos
  BY DEF NoCommand, Infos, LayerOrNone, Token, PlanOrNone
<1> QED BY <1>1, <1>2

LEMMA SendType ==
  ASSUME TypeInv, NEW info \in Infos, NEW warm \in BOOLEAN, Send(info, warm),
         warmups' \in Nat
  PROVE  EngType' /\ DevType'
<1>1. info.activation \in Token
  BY DEF Infos
<1>2. EngType'
  BY <1>1 DEF TypeInv, EngType, Send
<1>3. chan' \in [Devices -> Seq(Infos)]
  BY DEF TypeInv, DevType, Send
<1>4. DevType'
  BY <1>3 DEF TypeInv, DevType, Send
<1> QED BY <1>2, <1>4

LEMMA DispatchType ==
  ASSUME TypeInv, DispatchDecode \/ DispatchOther \/ DispatchWarmup
  PROVE  TypeInv'
<1>1. CASE DispatchDecode
  <2> DEFINE info == GetEplbInfo
  <2>1. info \in Infos
    BY InfoType
  <2>2. Send(info, FALSE) /\ warmups' = warmups
    BY <1>1 DEF DispatchDecode
  <2>3. EngType' /\ DevType'
    BY <2>1, <2>2, SendType DEF TypeInv, EngType
  <2>4. awaiting' \in Slots /\ pending' \in Slots
    BY <1>1, <2>1 DEF DispatchDecode, TypeInv, MgrType, Slots, Infos, LayerOrNone, Token
  <2>5. /\ next_prepare_token' \in Nat /\ active_prepare_token' \in Token
        /\ layer_states' \in [Layers -> {"IDLE", "PREPARING", "READY"}]
    BY <1>1, <2>1 DEF DispatchDecode, TypeInv, MgrType, Infos
  <2>6. MgrType' /\ PolType'
    BY <1>1, <2>4, <2>5 DEF DispatchDecode, TypeInv, MgrType, PolType, pol
  <2> QED BY <2>3, <2>6 DEF TypeInv
<1>2. CASE DispatchOther
  <2>1. EngType' /\ DevType'
    BY <1>2, InfoType, SendType DEF DispatchOther, TypeInv, EngType
  <2>2. MgrType' /\ PolType'
    BY <1>2 DEF DispatchOther, TypeInv, MgrType, PolType, mgr, pol
  <2> QED BY <2>1, <2>2 DEF TypeInv
<1>3. CASE DispatchWarmup
  <2>0. warmups' \in Nat
    BY <1>3 DEF DispatchWarmup, TypeInv, EngType
  <2>1. EngType' /\ DevType'
    BY <1>3, <2>0, InfoType, SendType DEF DispatchWarmup
  <2>2. MgrType' /\ PolType'
    BY <1>3 DEF DispatchWarmup, TypeInv, MgrType, PolType, mgr, pol
  <2> QED BY <2>1, <2>2 DEF TypeInv
<1> QED BY <1>1, <1>2, <1>3

LEMMA CollectType ==
  ASSUME TypeInv, FlightInv, CollectPrepared \/ CollectLoad
  PROVE  TypeInv'
<1> USE DEF pol, dev
<1>1. CASE CollectPrepared
  <2>1. flight' \in Seq([warm : BOOLEAN, activation : Token])
        /\ Head(flight) \in [warm : BOOLEAN, activation : Token]
    <3>1. flight \in Seq([warm : BOOLEAN, activation : Token]) /\ flight # <<>>
      BY <1>1 DEF CollectPrepared, TypeInv, EngType
    <3> QED BY <1>1, <3>1, HeadTailProperties DEF CollectPrepared
  <2>2. out' \in [Devices -> Seq(Token)]
    BY <1>1 DEF CollectPrepared, TypeInv, DevType
  <2>3. DevType' /\ PolType'
    BY <1>1, <2>2 DEF CollectPrepared, TypeInv, DevType, PolType
  <2>4. prepared_tokens' \in [Devices -> Token]
    BY <1>1 DEF CollectPrepared, TypeInv, MgrType
  <2>5. MgrType'
    BY <1>1, <2>4 DEF CollectPrepared, TypeInv, MgrType
  <2>6. Overlap => tokens # <<>>
    BY <1>1, <2>1 DEF FlightInv, CollectPrepared, TypeInv, EngType
  <2>7. tokens' \in Seq(Token) /\ CompletedToken \in Token
    <3>1. CASE ~Overlap
      BY <1>1, <2>1, <3>1 DEF CollectPrepared, TypeInv, EngType, CompletedToken
    <3>2. CASE Overlap
      BY <1>1, <2>1, <2>6, <3>2 DEF CollectPrepared, TypeInv, EngType, CompletedToken, Token
    <3> QED BY <3>1, <3>2
  <2>8. EngType'
    BY <1>1, <2>1, <2>7 DEF CollectPrepared, TypeInv, EngType
  <2> QED BY <2>3, <2>5, <2>8 DEF TypeInv
<1>2. CASE CollectLoad
  <2>1. MgrType'
    <3>1. Acknowledged => awaiting.layer \in Layers
      BY DEF TypeInv, MgrType, Acknowledged, Slots, LayerOrNone
    <3>2. active_expert_distribution' \in [Layers -> Plans]
      BY <1>2, <3>1 DEF CollectLoad, TypeInv, MgrType
    <3>3. awaiting' \in Slots
      BY <1>2 DEF CollectLoad, TypeInv, MgrType, Slots, LayerOrNone, Token
    <3>4. queue' \subseteq Nat /\ generation' \in Nat /\ load_sampled' \in BOOLEAN
      <4>1. generation' \in {generation, generation + 1} /\ queue' = queue \union {generation}
        BY <1>2 DEF CollectLoad
      <4>2. load_sampled' \in {load_sampled, FALSE}
        BY <1>2 DEF CollectLoad
      <4>3. load_sampled' \in BOOLEAN
        BY <4>2, Zenon DEF TypeInv, MgrType
      <4>4. generation' \in Nat /\ queue' \subseteq Nat
        BY <4>1 DEF TypeInv, MgrType
      <4> QED BY <4>3, <4>4
    <3> QED BY <1>2, <3>2, <3>3, <3>4 DEF CollectLoad, TypeInv, MgrType
  <2>2. PolType'
    BY <1>2, Consts DEF CollectLoad, TypeInv, MgrType, PolType, PlanOrNone
  <2>3. EngType' /\ DevType'
    BY <1>2 DEF CollectLoad, TypeInv, EngType, DevType, Token
  <2> QED BY <2>1, <2>2, <2>3 DEF TypeInv
<1> QED BY <1>1, <1>2

LEMMA DeviceType ==
  ASSUME TypeInv, NEW d \in Devices, TaskInv(d), StepInv(d), LiveInv(d),
         FlightInv, MgrInv,
         \/ StartStep(d) \/ FinishStep(d) \/ RecordOutput(d) \/ BeginPrepare(d)
         \/ \E ok \in BOOLEAN : EndPrepare(d, ok)
  PROVE  TypeInv'
<1>0. MgrType' /\ PolType' /\ EngType'
  BY DEF TypeInv, MgrType, PolType, EngType, StartStep, FinishStep, RecordOutput,
         BeginPrepare, EndPrepare, mgr, pol, eng
<1>1. CASE StartStep(d)
  <2> DEFINE info == Head(chan[d])
             fresh == IF info.prepare = None THEN <<>> ELSE <<Task(info)>>
  <2>0. /\ info \in Infos /\ info.update \in LayerOrNone /\ Tail(chan[d]) \in Seq(Infos)
        /\ info = chan[d][1] /\ 1 \in DOMAIN chan[d]
    <3>1. chan[d] \in Seq(Infos) /\ chan[d] # <<>>
      BY <1>1 DEF StartStep, TypeInv, DevType
    <3>2. info \in Infos /\ Tail(chan[d]) \in Seq(Infos)
      BY <3>1, HeadTailProperties
    <3> QED BY <3>1, <3>2 DEF Infos
  <2>1. fresh \in Seq(TaskSet)
    BY <2>0 DEF TaskInv, OkTasks
  <2>2. chan' \in [Devices -> Seq(Infos)]
    BY <1>1, <2>0 DEF StartStep, TypeInv, DevType
  <2> HIDE DEF info, fresh
  <2>3. fwd' = [fwd EXCEPT ![d] = [pc |-> "forward", update |-> info.update,
                                   deferred |-> IF info.update # None THEN fresh ELSE <<>>]]
        /\ tasks' = [tasks EXCEPT ![d] = @ \o IF info.update # None THEN <<>> ELSE fresh]
    BY <1>1 DEF StartStep, info, fresh
  <2>4. fwd' \in [Devices -> FwdSet]
    BY <2>0, <2>1, <2>3 DEF TypeInv, DevType, FwdSet
  <2>5. tasks' \in [Devices -> Seq(TaskSet)]
    BY <2>1, <2>3 DEF TypeInv, DevType
  <2> QED BY <1>0, <1>1, <2>2, <2>4, <2>5 DEF StartStep, TypeInv, DevType
<1>2. CASE FinishStep(d)
  <2>1. /\ fwd[d].update \in LayerOrNone /\ fwd[d].deferred \in Seq(TaskSet)
        /\ Idle \in FwdSet
    BY DEF TypeInv, DevType, Idle, LayerOrNone, FwdSet
  <2>2. /\ NoPlan \in StagedSet
        /\ \A l \in Layers : staged[d][l] # NoPlan => staged[d][l].plan \in Plans
    BY DEF TypeInv, DevType, StagedSet
  <2>3. staged' \in [Devices -> [Layers -> StagedSet]]
    <3>1. staged' = staged \/ \E l \in Layers : staged' = [staged EXCEPT ![d][l] = NoPlan]
      BY <1>2, <2>1 DEF FinishStep, LayerOrNone
    <3>2. staged \in [Devices -> [Layers -> StagedSet]]
      BY DEF TypeInv, DevType
    <3> QED BY <3>1, <3>2, <2>2, ExceptExcept
  <2>4. live' \in [Devices -> [Layers -> Plans]]
    <3>1. live' = live \/ \E l \in Layers, p \in Plans : live' = [live EXCEPT ![d][l] = p]
      BY <1>2, <2>1, <2>2 DEF FinishStep, LayerOrNone
    <3>2. live \in [Devices -> [Layers -> Plans]]
      BY DEF TypeInv, DevType
    <3> QED BY <3>1, <3>2, ExceptExcept
  <2>5. tasks' \in [Devices -> Seq(TaskSet)]
    BY <1>2, <2>1 DEF TypeInv, DevType, FinishStep
  <2>6. fwd' \in [Devices -> FwdSet]
    <3>1. [Idle EXCEPT !.pc = "finished"] \in FwdSet
      <4>1. [Idle EXCEPT !.pc = "finished"]
              = [pc |-> "finished", update |-> None, deferred |-> <<>>]
        BY DEF Idle
      <4>2. <<>> \in Seq(TaskSet) /\ None \in LayerOrNone
        BY DEF LayerOrNone
      <4> QED BY <4>1, <4>2 DEF FwdSet
    <3> QED BY <1>2, <3>1 DEF TypeInv, DevType, FinishStep
  <2> QED BY <1>0, <1>2, <2>3, <2>4, <2>5, <2>6 DEF FinishStep, TypeInv, DevType
<1>3. CASE RecordOutput(d)
  <2>1. /\ ready[d] \in Token /\ None \in Token
        /\ Idle \in FwdSet
    BY DEF TypeInv, DevType, Idle, LayerOrNone, Token, FwdSet
  <2>2. out' \in [Devices -> Seq(Token)]
    BY <1>3, <2>1 DEF TypeInv, DevType, RecordOutput
  <2>3. ready' \in [Devices -> Token]
    BY <1>3, <2>1 DEF TypeInv, DevType, RecordOutput
  <2>4. fwd' \in [Devices -> FwdSet]
    BY <1>3, <2>1 DEF TypeInv, DevType, RecordOutput
  <2> QED BY <1>0, <1>3, <2>2, <2>3, <2>4 DEF RecordOutput, TypeInv, DevType
<1>4. CASE BeginPrepare(d)
  <2> DEFINE t == Head(tasks[d])
  <2>1. t \in TaskSet /\ t.layer \in Layers /\ Tail(tasks[d]) \in Seq(TaskSet)
    <3>1. tasks[d] \in Seq(TaskSet) /\ tasks[d] # <<>>
      BY <1>4 DEF BeginPrepare, TypeInv, DevType
    <3>2. t \in TaskSet /\ Tail(tasks[d]) \in Seq(TaskSet)
      BY <3>1, HeadTailProperties
    <3> QED BY <3>2 DEF TaskSet
  <2> HIDE DEF t
  <2>2. /\ running' = [running EXCEPT ![d] = <<[task |-> t, base |-> live[d][t.layer]]>>]
        /\ staged' = [staged EXCEPT ![d][t.layer] = NoPlan]
        /\ tasks' = [tasks EXCEPT ![d] = Tail(@)]
    BY <1>4 DEF BeginPrepare, t
  <2>3. live[d][t.layer] \in Plans
    BY <2>1 DEF TypeInv, DevType
  <2>4. running' \in [Devices -> Seq(RunSet)]
    <3>1. [task |-> t, base |-> live[d][t.layer]] \in RunSet
      BY <2>1, <2>3 DEF RunSet
    <3>2. <<[task |-> t, base |-> live[d][t.layer]]>> \in Seq(RunSet)
      BY <3>1
    <3> QED BY <3>2, <2>2 DEF TypeInv, DevType
  <2>5. NoPlan \in StagedSet
    BY DEF StagedSet
  <2>6. staged' \in [Devices -> [Layers -> StagedSet]]
    BY <2>1, <2>2, <2>5 DEF TypeInv, DevType
  <2>7. tasks' \in [Devices -> Seq(TaskSet)]
    BY <2>1, <2>2 DEF TypeInv, DevType
  <2> QED BY <1>0, <1>4, <2>4, <2>6, <2>7 DEF BeginPrepare, TypeInv, DevType
<1>5. CASE \E ok \in BOOLEAN : EndPrepare(d, ok)
  <2> DEFINE r == Head(running[d])
  <2>1. r.task \in TaskSet /\ r.base \in Plans /\ r.task.layer \in Layers
        /\ r.task.token \in Nat /\ r.task.plan \in Plans
    <3>1. running[d] \in Seq(RunSet) /\ running[d] # <<>>
      BY <1>5 DEF EndPrepare, TypeInv, DevType
    <3>2. r \in RunSet
      BY <3>1, HeadTailProperties
    <3> QED BY <3>2 DEF TaskSet, RunSet
  <2> HIDE DEF r
  <2>2. /\ running' = [running EXCEPT ![d] = <<>>]
        /\ \/ staged' = staged /\ ready' = ready
           \/ /\ staged' = [staged EXCEPT ![d][r.task.layer] =
                             [plan |-> r.task.plan, base |-> r.base]]
              /\ ready' = [ready EXCEPT ![d] = r.task.token]
        /\ UNCHANGED <<chan, fwd, tasks, live, out>>
    BY <1>5 DEF EndPrepare, r
  <2>3. ready' \in [Devices -> Token]
    BY <2>1, <2>2 DEF TypeInv, DevType, Token
  <2>4. [plan |-> r.task.plan, base |-> r.base] \in StagedSet
    BY <2>1 DEF StagedSet
  <2>5. staged' \in [Devices -> [Layers -> StagedSet]]
    <3> DEFINE v == [plan |-> r.task.plan, base |-> r.base]
               l == r.task.layer
    <3>1. staged' = staged \/ staged' = [staged EXCEPT ![d][l] = v]
      BY <2>2
    <3>2. v \in StagedSet /\ l \in Layers
      BY <2>1, <2>4
    <3> HIDE DEF v, l
    <3>3. staged \in [Devices -> [Layers -> StagedSet]]
      BY DEF TypeInv, DevType
    <3> QED BY <3>1, <3>2, <3>3, ExceptExcept
  <2>6. running' \in [Devices -> Seq(RunSet)]
    BY <2>2 DEF TypeInv, DevType
  <2> QED BY <1>0, <2>2, <2>3, <2>5, <2>6 DEF TypeInv, DevType
<1> QED BY <1>1, <1>2, <1>3, <1>4, <1>5

----------------------------------------------------------------------------
(* The manager *)

LEMMA MgrFrame ==
  ASSUME MgrInv,
         UNCHANGED <<active_layer_id, layer_states, active_prepare_token,
                     next_prepare_token, pending, awaiting, generation, reb>>
  PROVE  MgrInv'
BY DEF MgrInv

LEMMA MgrRebalance ==
  ASSUME TypeInv, MgrInv,
         \/ RebalanceSnapshot \/ RebalanceSkip
         \/ \E changed \in SUBSET Layers, p \in Plans : RebalanceRound(changed, p)
  PROVE  MgrInv'
<1>1. CASE RebalanceSnapshot
  BY <1>1 DEF MgrInv, RebalanceSnapshot, round_in_progress
<1>2. CASE RebalanceSkip
  <2>1. reb'.pc = "wait"
    BY <1>2 DEF TypeInv, PolType, RebalanceSkip
  <2> QED BY <1>2, <2>1 DEF MgrInv, RebalanceSkip
<1>3. ASSUME NEW changed \in SUBSET Layers, NEW p \in Plans, RebalanceRound(changed, p)
      PROVE  MgrInv'
  <2>1. reb'.pc = "wait"
    BY <1>3 DEF TypeInv, PolType, RebalanceRound
  <2>2. /\ active_layer_id = None /\ pending.layer = None /\ awaiting.layer = None
        /\ active_prepare_token = None
    BY <1>3 DEF MgrInv, RebalanceRound
  <2>3. pending' = pending
    BY <1>3, <2>2 DEF RebalanceRound, TypeInv, MgrType, Slots
  <2>4. active_layer_id' # None => active_layer_id' \in Layers
    BY <1>3, NextLayer DEF RebalanceRound, LayerOrNone
  <2>5. active_layer_id' # None => None < active_layer_id'
    BY <2>4, Consts
  <2> QED BY <1>3, <2>1, <2>2, <2>3, <2>5 DEF MgrInv, RebalanceRound
<1> QED BY <1>1, <1>2, <1>3

LEMMA MgrManager ==
  ASSUME TypeInv, MgrInv, ManagerReady \/ ManagerTimeout
  PROVE  MgrInv'
<1>0. active_layer_id \in Layers /\ active_layer_id \in Nat /\ active_layer_id + 1 \in Nat
  BY Consts DEF TypeInv, MgrType, ManagerReady, ManagerTimeout, LayerOrNone
<1>1. pending.layer \in Int /\ awaiting.layer \in Int
  BY Consts DEF TypeInv, MgrType, Slots
<1>2. active_layer_id' # None => active_layer_id' \in Nat /\ active_layer_id' > active_layer_id
  <2>1. enable_update_vec \in SUBSET Layers
        /\ enable_update_vec \ {active_layer_id} \in SUBSET Layers
    BY DEF TypeInv, MgrType
  <2>2. PICK vec \in SUBSET Layers : active_layer_id' = find_next_true(vec, active_layer_id + 1)
    BY <2>1 DEF ManagerReady, ManagerTimeout
  <2>3. active_layer_id' # None => active_layer_id' \in vec /\ active_layer_id' >= active_layer_id + 1
    BY <2>2, <1>0, NextLayer
  <2>4. active_layer_id' # None => active_layer_id' \in Nat
    BY <2>2, <2>3, Consts
  <2> QED BY <2>3, <2>4, <1>0
<1>3. CASE ManagerReady
  <2>1. /\ pending' = [layer |-> active_layer_id, token |-> active_prepare_token]
        /\ active_prepare_token' = None /\ awaiting' = awaiting
        /\ active_layer_id # None /\ active_prepare_token # None
        /\ UNCHANGED <<reb, generation, next_prepare_token>>
    BY <1>3 DEF ManagerReady, pol
  <2>2. pending'.layer = active_layer_id /\ pending'.token # None
    BY <2>1
  <2> QED BY <1>0, <1>1, <1>2, <2>1, <2>2 DEF MgrInv
<1>4. CASE ManagerTimeout
  <2>1. /\ active_layer_id # None
        /\ active_prepare_token' = None /\ awaiting' = awaiting /\ pending' = pending
        /\ UNCHANGED <<reb, generation, next_prepare_token>>
    BY <1>4 DEF ManagerTimeout
  <2> QED BY <1>0, <1>1, <1>2, <2>1 DEF MgrInv
<1> QED BY <1>3, <1>4

\* What a decode step does to the manager, by cases.
LEMMA DecodeFacts ==
  ASSUME TypeInv, MgrInv, DispatchDecode
  PROVE  LET info == GetEplbInfo
         IN /\ info.prepare = None \/ info.prepare = active_layer_id
            /\ info.prepare = None =>
                 /\ info.token = None /\ info.plan = None
                 /\ UNCHANGED <<next_prepare_token, active_prepare_token, layer_states>>
            /\ info.prepare # None =>
                 /\ active_layer_id \in Layers /\ active_prepare_token = None
                 /\ info.token = next_prepare_token
                 /\ info.plan = expert_distribution[active_layer_id]
                 /\ next_prepare_token' = next_prepare_token + 1
                 /\ active_prepare_token' = next_prepare_token
                 /\ layer_states' = [layer_states EXCEPT ![active_layer_id] = "PREPARING"]
            /\ info.update = None <=> info.activation = None
            /\ info.update = None => UNCHANGED <<awaiting, pending>>
            /\ info.update # None =>
                 /\ awaiting.layer = None /\ awaiting.token = None
                 /\ pending.layer # None
                 /\ info.update = pending.layer /\ info.activation = pending.token
                 /\ awaiting' = pending
                 /\ pending' = [layer |-> None, token |-> None]
            /\ info.update = None <=> ~Activates
<1> DEFINE info == GetEplbInfo
<1>1. /\ info.prepare = IF MustPrepare THEN active_layer_id ELSE None
      /\ info.token = IF MustPrepare THEN next_prepare_token ELSE None
      /\ info.plan = IF MustPrepare THEN expert_distribution[active_layer_id] ELSE None
      /\ info.update = IF Activates THEN pending.layer ELSE None
      /\ info.activation = IF Activates THEN pending.token ELSE None
  BY DEF GetEplbInfo
<1> HIDE DEF info
<1>2. /\ IF info.update # None
         THEN /\ awaiting' = [layer |-> info.update, token |-> info.activation]
              /\ pending' = [layer |-> None, token |-> None]
         ELSE UNCHANGED <<awaiting, pending>>
      /\ IF info.prepare # None
         THEN /\ next_prepare_token' = next_prepare_token + 1
              /\ active_prepare_token' = info.token
              /\ layer_states' = [layer_states EXCEPT ![info.prepare] = "PREPARING"]
         ELSE UNCHANGED <<next_prepare_token, active_prepare_token, layer_states>>
  BY DEF DispatchDecode, info
<1>3. MustPrepare => /\ active_layer_id \in Layers /\ active_layer_id # None
                     /\ active_prepare_token = None
  BY DEF MustPrepare, MgrInv, TypeInv, MgrType, LayerOrNone
<1>4. Activates => /\ awaiting.layer = None /\ awaiting.token = None
                   /\ pending.layer # None /\ pending.token # None
                   /\ pending = [layer |-> pending.layer, token |-> pending.token]
  BY DEF Activates, MgrInv, TypeInv, MgrType, Slots
<1>5. info.prepare = None \/ info.prepare = active_layer_id
  BY <1>1
<1>6. info.prepare = None =>
                 /\ info.token = None /\ info.plan = None
                 /\ UNCHANGED <<next_prepare_token, active_prepare_token, layer_states>>
  BY <1>1, <1>2, <1>3
<1>7. info.prepare # None =>
                 /\ active_layer_id \in Layers /\ active_prepare_token = None
                 /\ info.token = next_prepare_token
                 /\ info.plan = expert_distribution[active_layer_id]
                 /\ next_prepare_token' = next_prepare_token + 1
                 /\ active_prepare_token' = next_prepare_token
                 /\ layer_states' = [layer_states EXCEPT ![active_layer_id] = "PREPARING"]
  BY <1>1, <1>2, <1>3
<1>8. /\ info.update = None <=> info.activation = None
      /\ info.update = None <=> ~Activates
      /\ info.update = None => UNCHANGED <<awaiting, pending>>
  BY <1>1, <1>2, <1>4
<1>9. info.update # None =>
                 /\ awaiting.layer = None /\ awaiting.token = None
                 /\ pending.layer # None
                 /\ info.update = pending.layer /\ info.activation = pending.token
                 /\ awaiting' = pending
                 /\ pending' = [layer |-> None, token |-> None]
  BY <1>1, <1>2, <1>4
<1> QED BY <1>5, <1>6, <1>7, <1>8, <1>9 DEF info

LEMMA MgrDecode ==
  ASSUME TypeInv, MgrInv, DispatchDecode
  PROVE  MgrInv'
<1> DEFINE info == GetEplbInfo
<1>0. UNCHANGED <<active_layer_id, generation, reb>>
  BY DEF DispatchDecode, pol
<1>1. /\ active_layer_id \in LayerOrNone /\ pending.layer \in LayerOrNone
      /\ awaiting.layer \in LayerOrNone /\ LayerOrNone \subseteq Int
      /\ \A l \in LayerOrNone : l # None => None < l
      /\ next_prepare_token \in Nat /\ layer_states \in [Layers -> {"IDLE", "PREPARING", "READY"}]
  BY Consts DEF TypeInv, MgrType, Slots, LayerOrNone, None
<1>2. active_prepare_token' # None =>
       /\ active_layer_id' # None
       /\ layer_states'[active_layer_id'] = "PREPARING"
       /\ active_prepare_token' < next_prepare_token'
  <2>1. CASE info.prepare = None
    BY <2>1, <1>0, DecodeFacts DEF MgrInv
  <2>2. CASE info.prepare # None
    BY <2>2, <1>0, <1>1, DecodeFacts, Consts
  <2> QED BY <2>1, <2>2
<1>3. CASE info.update = None
  BY <1>0, <1>2, <1>3, DecodeFacts DEF MgrInv
<1>4. CASE info.update # None
  <2>1. awaiting' = pending /\ pending'.layer = None /\ pending'.token = None
        /\ pending.layer # None
    BY <1>4, DecodeFacts
  <2> QED BY <1>0, <1>1, <1>2, <2>1 DEF MgrInv
<1> QED BY <1>3, <1>4

LEMMA MgrLoad ==
  ASSUME TypeInv, MgrInv, CollectLoad
  PROVE  MgrInv'
<1>1. CASE ~Acknowledged
  BY <1>1, MgrFrame DEF CollectLoad
<1>2. CASE Acknowledged
  <2>1. /\ awaiting'.layer = None /\ awaiting'.token = None
        /\ awaiting.layer # None
        /\ UNCHANGED <<active_layer_id, layer_states, active_prepare_token,
                       next_prepare_token, pending, reb>>
    BY <1>2 DEF CollectLoad, Acknowledged
  <2>2. /\ active_layer_id \in LayerOrNone /\ pending.layer \in LayerOrNone
        /\ \A l \in LayerOrNone : l # None => None < l
    BY Consts DEF TypeInv, MgrType, Slots, LayerOrNone, None
  <2> QED BY <2>1, <2>2 DEF MgrInv
<1> QED BY <1>1, <1>2

LEMMA MgrNext ==
  ASSUME TypeInv, MgrInv, [Next]_vars
  PROVE  MgrInv'
<1>1. CASE RebalanceSnapshot \/ RebalanceSkip \/ Rebalance
  BY <1>1, MgrRebalance DEF Rebalance
<1>2. CASE ManagerReady \/ ManagerTimeout
  BY <1>2, MgrManager
<1>3. CASE DispatchDecode
  BY <1>3, MgrDecode
<1>4. CASE CollectLoad
  BY <1>4, MgrLoad
<1>5. CASE DispatchOther \/ DispatchWarmup \/ CollectPrepared
  BY <1>5, MgrFrame DEF DispatchOther, DispatchWarmup, CollectPrepared, mgr, pol
<1>6. ASSUME NEW d \in Devices,
         \/ StartStep(d) \/ FinishStep(d) \/ RecordOutput(d) \/ BeginPrepare(d)
         \/ \E ok \in BOOLEAN : EndPrepare(d, ok)
      PROVE MgrInv'
  BY <1>6, MgrFrame DEF StartStep, FinishStep, RecordOutput, BeginPrepare, EndPrepare, mgr, pol
<1>7. CASE UNCHANGED vars
  BY <1>7, MgrFrame DEF vars, mgr, pol
<1> QED BY <1>1, <1>2, <1>3, <1>4, <1>5, <1>6, <1>7 DEF Next

----------------------------------------------------------------------------
(* The steps in flight *)

LEMMA FlightFrame ==
  ASSUME FlightInv, UNCHANGED <<flight, tokens, collecting, awaiting>>
  PROVE  FlightInv'
BY DEF FlightInv

\* t is s with e added at its end, and t is s without its head.
Appended(s, t, e) ==
  /\ Len(s) \in Nat /\ Len(t) = Len(s) + 1
  /\ DOMAIN s = 1 .. Len(s) /\ DOMAIN t = 1 .. Len(s) + 1
  /\ \A i \in 1 .. Len(s) : t[i] = s[i]
  /\ t[Len(s) + 1] = e

Dropped(s, t) ==
  /\ Len(s) \in Nat \ {0} /\ Len(t) = Len(s) - 1
  /\ DOMAIN s = 1 .. Len(s) /\ DOMAIN t = 1 .. Len(s) - 1
  /\ \A i \in 1 .. Len(s) - 1 : t[i] = s[i + 1]
  /\ Head(s) = s[1]

LEMMA AppendFacts ==
  ASSUME NEW S, NEW s \in Seq(S), NEW e \in S
  PROVE  Appended(s, Append(s, e), e)
BY AppendProperties DEF Appended

LEMMA TailFacts ==
  ASSUME NEW S, NEW s \in Seq(S), s # <<>>
  PROVE  Dropped(s, Tail(s))
<1>1. Len(s) \in Nat \ {0} /\ DOMAIN s = 1 .. Len(s)
  OBVIOUS
<1>2. /\ Tail(s) \in Seq(S) /\ Len(Tail(s)) = Len(s)-1
      /\ \A i \in 1 .. Len(Tail(s)) : Tail(s)[i] = s[i+1]
  BY HeadTailProperties
<1>3. Head(s) = s[1]
  OBVIOUS
<1>4. DOMAIN Tail(s) = 1 .. Len(s) - 1
  BY <1>2
<1> QED BY <1>1, <1>2, <1>3, <1>4 DEF Dropped

LEMMA DroppedAt ==
  ASSUME NEW s, NEW t, Dropped(s, t)
  PROVE  /\ \A i \in DOMAIN t :
              /\ i \in Nat /\ i + 1 \in DOMAIN s /\ i + 1 # 1 /\ t[i] = s[i + 1]
         /\ \A i, j \in DOMAIN t : i + 1 = j + 1 => i = j
         /\ 1 \in DOMAIN s
BY DEF Dropped

LEMMA SeqFacts ==
  ASSUME TypeInv
  PROVE  /\ Len(flight) \in Nat /\ DOMAIN flight = 1 .. Len(flight)
         /\ Len(tokens) \in Nat /\ DOMAIN tokens = 1 .. Len(tokens)
         /\ \A d \in Devices :
              /\ Len(chan[d]) \in Nat /\ DOMAIN chan[d] = 1 .. Len(chan[d])
              /\ Len(out[d]) \in Nat /\ DOMAIN out[d] = 1 .. Len(out[d])
              /\ Len(tasks[d]) \in Nat /\ DOMAIN tasks[d] = 1 .. Len(tasks[d])
              /\ Len(running[d]) \in Nat /\ DOMAIN running[d] = 1 .. Len(running[d])
              /\ Len(fwd[d].deferred) \in Nat
              /\ DOMAIN fwd[d].deferred = 1 .. Len(fwd[d].deferred)
<1>1. flight \in Seq([warm : BOOLEAN, activation : Token]) /\ tokens \in Seq(Token)
  BY DEF TypeInv, EngType
<1>2. ASSUME NEW d \in Devices
      PROVE  /\ chan[d] \in Seq(Infos) /\ out[d] \in Seq(Token)
             /\ tasks[d] \in Seq(TaskSet) /\ running[d] \in Seq(RunSet)
             /\ fwd[d].deferred \in Seq(TaskSet)
  BY DEF TypeInv, DevType, FwdSet
<1> QED BY <1>1, <1>2

\* A step is added to the steps in flight.
LEMMA SendFacts ==
  ASSUME TypeInv, NEW info \in Infos, NEW warm \in BOOLEAN, Send(info, warm)
  PROVE  /\ Appended(flight, flight', [warm |-> warm, activation |-> info.activation])
         /\ \A d \in Devices : Appended(chan[d], chan'[d], info)
         /\ ~Overlap => tokens' = tokens
         /\ Overlap => Appended(tokens, tokens', info.activation)
         /\ UNCHANGED <<collecting, fwd, tasks, running, ready, staged, live, out>>
<1>1. /\ flight \in Seq([warm : BOOLEAN, activation : Token])
      /\ tokens \in Seq(Token) /\ info.activation \in Token
  BY DEF TypeInv, EngType, Infos
<1>2. [warm |-> warm, activation |-> info.activation] \in [warm : BOOLEAN, activation : Token]
  BY DEF Infos
<1>3. flight' = Append(flight, [warm |-> warm, activation |-> info.activation])
  BY DEF Send
<1>4. ASSUME NEW d \in Devices
      PROVE  Appended(chan[d], chan'[d], info)
  <2>1. chan[d] \in Seq(Infos) /\ chan'[d] = Append(chan[d], info)
    BY DEF TypeInv, DevType, Send
  <2> QED BY <2>1, AppendFacts
<1>5. UNCHANGED <<collecting, fwd, tasks, running, ready, staged, live, out>>
  BY DEF Send
<1>6. Appended(flight, flight', [warm |-> warm, activation |-> info.activation])
  BY <1>1, <1>2, <1>3, AppendFacts
<1>7. Overlap => Appended(tokens, tokens', info.activation)
  BY <1>1, AppendFacts DEF Send
<1>8. ~Overlap => tokens' = tokens
  BY DEF Send
<1> QED BY <1>4, <1>5, <1>6, <1>7, <1>8

LEMMA FlightSend ==
  ASSUME TypeInv, FlightInv, NEW info \in Infos, NEW warm \in BOOLEAN, Send(info, warm),
         collecting.pc = "no",
         warm => info.activation = None,
         \/ info.activation = None /\ awaiting' = awaiting
         \/ /\ awaiting.token = None /\ info.activation # None
            /\ awaiting'.token = info.activation
  PROVE  FlightInv'
<1>a. Appended(flight, flight', [warm |-> warm, activation |-> info.activation])
  BY SendFacts
<1>b. ~Overlap => tokens' = tokens
  BY SendFacts
<1>c. Overlap => Appended(tokens, tokens', info.activation)
  BY SendFacts
<1>d. collecting' = collecting /\ collecting'.token = None
  BY SendFacts DEF FlightInv
<1>0. /\ \A j \in DOMAIN flight : flight[j].activation # None => info.activation = None /\ awaiting' = awaiting
      /\ \A j \in DOMAIN tokens : tokens[j] # None => info.activation = None /\ awaiting' = awaiting
  BY DEF FlightInv
<1>1. /\ \A j \in DOMAIN flight' :
           /\ flight'[j].activation \in {None, awaiting'.token}
           /\ flight'[j].warm => flight'[j].activation = None
      /\ \A i, j \in DOMAIN flight' :
           flight'[i].activation # None /\ flight'[j].activation # None => i = j
  <2>1. \A j \in DOMAIN flight' : (j \in DOMAIN flight /\ flight'[j] = flight[j])
                                  \/ j = Len(flight) + 1
    BY <1>a DEF Appended
  <2>2. /\ flight'[Len(flight) + 1].activation = info.activation
        /\ flight'[Len(flight) + 1].warm = warm
    BY <1>a DEF Appended
  <2>3. info.activation \in {None, awaiting'.token}
    OBVIOUS
  <2> QED BY <1>0, <2>1, <2>2, <2>3 DEF FlightInv
<1>2. CASE ~Overlap
  BY <1>0, <1>1, <1>2, <1>b, <1>d DEF FlightInv
<1>3. CASE Overlap
  <2>1. /\ \A i \in DOMAIN tokens' : tokens'[i] \in {None, awaiting'.token}
        /\ \A i, j \in DOMAIN tokens' : tokens'[i] # None /\ tokens'[j] # None => i = j
    BY <1>0, <1>3, <1>c DEF FlightInv, Appended
  <2>2. /\ Len(flight') <= Len(tokens')
        /\ Len(tokens') - Len(flight') = Len(tokens) - Len(flight)
        /\ Len(flight) <= Len(tokens)
    BY <1>3, <1>a, <1>c DEF FlightInv, Appended
  <2>3. ASSUME NEW j \in DOMAIN flight'
        PROVE  tokens'[j + (Len(tokens') - Len(flight'))] = flight'[j].activation
    <3>1. CASE j \in DOMAIN flight
      <4>1. tokens[j + (Len(tokens) - Len(flight))] = flight[j].activation
        BY <1>3, <3>1 DEF FlightInv
      <4>2. j + (Len(tokens) - Len(flight)) \in 1 .. Len(tokens)
        BY <2>2, <3>1, <1>3, <1>a, <1>c DEF Appended
      <4>3. tokens'[j + (Len(tokens) - Len(flight))] = tokens[j + (Len(tokens) - Len(flight))]
        BY <4>2, <1>3, <1>c DEF Appended
      <4> QED BY <4>1, <4>3, <2>2, <3>1, <1>a DEF Appended
    <3>2. CASE j = Len(flight) + 1
      <4>1. j + (Len(tokens') - Len(flight')) = Len(tokens) + 1
        BY <2>2, <3>2, <1>3, <1>a, <1>c DEF Appended
      <4> QED BY <4>1, <3>2, <1>3, <1>a, <1>c DEF Appended
    <3> QED BY <3>1, <3>2, <1>a DEF Appended
  <2> QED BY <1>d, <1>1, <1>3, <2>1, <2>2, <2>3 DEF FlightInv
<1> QED BY <1>2, <1>3

\* The oldest step is taken from the steps in flight.
LEMMA CollectFacts ==
  ASSUME TypeInv, FlightInv, CollectPrepared
  PROVE  /\ Dropped(flight, flight')
         /\ \A d \in Devices : Dropped(out[d], out'[d])
         /\ ~Overlap \/ Head(flight).warm => tokens' = tokens
         /\ Overlap /\ ~Head(flight).warm => Dropped(tokens, tokens')
<1>1. /\ flight \in Seq([warm : BOOLEAN, activation : Token]) /\ flight # <<>>
      /\ flight' = Tail(flight) /\ tokens \in Seq(Token)
  BY DEF TypeInv, EngType, CollectPrepared
<1>2. Dropped(flight, flight')
  BY <1>1, TailFacts
<1>3. ASSUME NEW d \in Devices
      PROVE  Dropped(out[d], out'[d])
  <2>1. out[d] \in Seq(Token) /\ out[d] # <<>> /\ out'[d] = Tail(out[d])
    BY DEF TypeInv, DevType, CollectPrepared
  <2> QED BY <2>1, TailFacts
<1>4. ~Overlap \/ Head(flight).warm => tokens' = tokens
  BY DEF CollectPrepared
<1>5. Overlap /\ ~Head(flight).warm => Dropped(tokens, tokens')
  <2>1. Overlap => tokens # <<>>
    BY <1>1, <1>2 DEF FlightInv, Dropped
  <2> QED BY <1>1, <2>1, TailFacts DEF CollectPrepared
<1> QED BY <1>2, <1>3, <1>4, <1>5

LEMMA FlightCollect ==
  ASSUME TypeInv, FlightInv, CollectPrepared
  PROVE  FlightInv'
<1> DEFINE skip == ~Overlap /\ Head(flight).warm
           k == Len(tokens) - Len(flight)
           kk == Len(tokens') - Len(flight')
<1>a. Dropped(flight, flight')
  BY CollectFacts
<1>b. ~Overlap \/ Head(flight).warm => tokens' = tokens
  BY CollectFacts
<1>c. Overlap /\ ~Head(flight).warm => Dropped(tokens, tokens')
  BY CollectFacts
<1>d. Len(tokens) \in Nat /\ DOMAIN tokens = 1 .. Len(tokens)
  BY SeqFacts
<1>0. /\ awaiting' = awaiting /\ collecting.pc = "no" /\ collecting.token = None
      /\ collecting' = IF skip THEN collecting ELSE [pc |-> "load", token |-> CompletedToken]
  BY DEF CollectPrepared, FlightInv
<1>1. /\ \A j \in DOMAIN flight' :
           /\ flight'[j].activation \in {None, awaiting'.token}
           /\ flight'[j].warm => flight'[j].activation = None
      /\ \A i, j \in DOMAIN flight' :
           flight'[i].activation # None /\ flight'[j].activation # None => i = j
  BY <1>0, <1>a, DroppedAt DEF FlightInv
<1>2. /\ \A i \in DOMAIN tokens' : tokens'[i] \in {None, awaiting'.token}
      /\ \A i, j \in DOMAIN tokens' : tokens'[i] # None /\ tokens'[j] # None => i = j
      /\ ~Overlap => tokens' = <<>>
  <2>1. CASE ~Overlap \/ Head(flight).warm
    BY <2>1, <1>0, <1>b DEF FlightInv
  <2>2. CASE Overlap /\ ~Head(flight).warm
    BY <2>2, <1>0, <1>c, DroppedAt DEF FlightInv
  <2> QED BY <2>1, <2>2
<1>3. Overlap =>
       /\ Len(flight') <= Len(tokens') /\ kk \in Nat
       /\ \A j \in DOMAIN flight' : tokens'[j + kk] = flight'[j].activation /\ j + kk \in DOMAIN tokens'
  <2> SUFFICES ASSUME Overlap
               PROVE  /\ Len(flight') <= Len(tokens') /\ kk \in Nat
                      /\ \A j \in DOMAIN flight' : tokens'[j + kk] = flight'[j].activation /\ j + kk \in DOMAIN tokens'
    OBVIOUS
  <2>0. Len(flight) <= Len(tokens) /\ \A j \in DOMAIN flight : tokens[j + k] = flight[j].activation
    BY DEF FlightInv
  <2>1. CASE ~Head(flight).warm
    <3>1. Dropped(tokens, tokens')
      BY <2>1, <1>c
    <3>2. Len(flight') <= Len(tokens') /\ kk = k /\ k \in Nat
      BY <2>0, <3>1, <1>a DEF Dropped
    <3> HIDE DEF k, kk
    <3>3. ASSUME NEW j \in DOMAIN flight'
          PROVE  tokens'[j + kk] = flight'[j].activation /\ j + kk \in DOMAIN tokens'
      <4>1. tokens[j + 1 + k] = flight[j + 1].activation /\ flight'[j] = flight[j + 1]
        BY <2>0, <1>a DEF Dropped
      <4>2. j + k \in 1 .. Len(tokens) - 1
        BY <2>0, <3>1, <3>2, <1>a DEF Dropped, k
      <4>3. tokens'[j + k] = tokens[j + k + 1] /\ j + k \in DOMAIN tokens'
        BY <4>2, <3>1 DEF Dropped
      <4>4. j + k + 1 = j + 1 + k
        BY <3>2, <1>a DEF Dropped
      <4> QED BY <4>1, <4>3, <4>4, <3>2
    <3> QED BY <3>2, <3>3
  <2>2. CASE Head(flight).warm
    <3>2. Len(flight') <= Len(tokens') /\ kk = k + 1 /\ k \in Nat /\ tokens' = tokens
      <4>1. tokens' = tokens /\ Len(tokens') = Len(tokens)
        BY <2>2, <1>b
      <4>2. Len(flight') = Len(flight) - 1 /\ Len(flight) \in Nat
        BY <1>a DEF Dropped
      <4> QED BY <2>0, <4>1, <4>2, <1>d
    <3>3. ASSUME NEW j \in DOMAIN flight'
          PROVE  tokens'[j + kk] = flight'[j].activation /\ j + kk \in DOMAIN tokens'
      <4>1. tokens[j + 1 + k] = flight[j + 1].activation /\ flight'[j] = flight[j + 1]
        BY <2>0, <1>a DEF Dropped
      <4>2. j + kk = j + 1 + k /\ j + kk \in 1 .. Len(tokens)
        <5>1. j \in 1 .. Len(flight) - 1 /\ Len(flight) \in Nat
          BY <1>a DEF Dropped
        <5> QED BY <2>0, <3>2, <5>1, <1>d
      <4> QED BY <4>1, <4>2, <3>2, <1>d
    <3> QED BY <3>2, <3>3
  <2> QED BY <2>1, <2>2
<1> HIDE DEF k
<1>4. collecting'.token # None =>
       /\ collecting'.token = awaiting'.token
       /\ \A j \in DOMAIN flight' : flight'[j].activation = None
       /\ \A i \in DOMAIN tokens' : tokens'[i] = None
  <2> SUFFICES ASSUME collecting'.token # None
               PROVE  /\ collecting'.token = awaiting'.token
                      /\ \A j \in DOMAIN flight' : flight'[j].activation = None
                      /\ \A i \in DOMAIN tokens' : tokens'[i] = None
    OBVIOUS
  <2>0. collecting'.token = CompletedToken /\ CompletedToken # None
    BY <1>0
  <2>1. CASE ~Overlap
    <3>1. CompletedToken = flight[1].activation
      BY <2>1, <1>a DEF CompletedToken, Dropped
    <3>0. flight[1].activation # None /\ 1 \in DOMAIN flight
      BY <2>0, <3>1, <1>a DEF Dropped
    <3>2. ASSUME NEW j \in DOMAIN flight'
          PROVE  flight'[j].activation = None
      <4>1. flight'[j] = flight[j + 1] /\ j + 1 \in DOMAIN flight /\ j + 1 # 1
        BY <1>a DEF Dropped
      <4>2. \A i \in DOMAIN flight :
              flight[i].activation # None /\ flight[1].activation # None => i = 1
        BY <3>0 DEF FlightInv
      <4> QED BY <4>1, <4>2, <3>0
    <3>3. flight[1].activation = awaiting.token
      BY <3>0 DEF FlightInv
    <3> QED BY <2>0, <2>1, <3>1, <3>2, <3>3, <1>0, <1>2
  <2>2. CASE Overlap
    <3>1. ~Head(flight).warm /\ CompletedToken = Head(tokens)
      BY <2>0, <2>2 DEF CompletedToken
    <3>2. CompletedToken = tokens[1] /\ tokens[1] # None /\ 1 \in DOMAIN tokens
      BY <2>0, <2>2, <3>1, <1>c DEF Dropped
    <3>3. \A i \in DOMAIN tokens' : tokens'[i] = None
      BY <2>2, <3>1, <3>2, <1>c, DroppedAt DEF FlightInv
    <3>4. \A j \in DOMAIN flight' : flight'[j].activation = None
      BY <1>3, <2>2, <3>3
    <3>5. tokens[1] = awaiting.token
      BY <3>2 DEF FlightInv
    <3> QED BY <2>0, <3>2, <3>3, <3>4, <3>5, <1>0
  <2> QED BY <2>1, <2>2
<1>5. collecting'.pc = "no" => collecting'.token = None
  BY <1>0
<1> QED BY <1>1, <1>2, <1>3, <1>4, <1>5 DEF FlightInv

LEMMA FlightLoad ==
  ASSUME TypeInv, MgrInv, FlightInv, CollectLoad
  PROVE  FlightInv'
<1>0. flight' = flight /\ tokens' = tokens /\ collecting'.token = None
  BY DEF CollectLoad
<1>1. CASE ~Acknowledged
  BY <1>0, <1>1 DEF CollectLoad, FlightInv
<1>2. CASE Acknowledged
  <2>1. collecting.token # None
    BY <1>2 DEF Acknowledged, MgrInv
  <2>2. awaiting'.token = None
    BY <1>2 DEF CollectLoad
  <2> QED BY <1>0, <2>1, <2>2 DEF FlightInv
<1> QED BY <1>1, <1>2

LEMMA FlightNext ==
  ASSUME TypeInv, MgrInv, FlightInv, [Next]_vars
  PROVE  FlightInv'
<1>1. CASE RebalanceSnapshot \/ RebalanceSkip \/ Rebalance
  BY <1>1, FlightFrame DEF RebalanceSnapshot, RebalanceSkip, Rebalance, RebalanceRound, eng
<1>2. CASE ManagerReady \/ ManagerTimeout
  BY <1>2, FlightFrame DEF ManagerReady, ManagerTimeout, eng
<1>3. CASE DispatchDecode
  <2> DEFINE info == GetEplbInfo
  <2>1. info \in Infos /\ Send(info, FALSE) /\ collecting.pc = "no"
    BY <1>3, InfoType DEF DispatchDecode, CanSend
  <2>2. \/ info.activation = None /\ awaiting' = awaiting
        \/ /\ awaiting.token = None /\ info.activation # None
           /\ awaiting'.token = info.activation
    BY <1>3, DecodeFacts
  <2> HIDE DEF info
  <2> QED BY <2>1, <2>2, FlightSend
<1>4. CASE CollectLoad
  BY <1>4, FlightLoad
<1>5. CASE DispatchOther \/ DispatchWarmup
  <2>1. NoCommand \in Infos /\ NoCommand.activation = None /\ collecting.pc = "no"
        /\ awaiting' = awaiting
    BY <1>5, InfoType DEF NoCommand, DispatchOther, DispatchWarmup, CanSend, mgr
  <2>2. PICK warm \in BOOLEAN : Send(NoCommand, warm)
    BY <1>5 DEF DispatchOther, DispatchWarmup
  <2> QED BY <2>1, <2>2, FlightSend
<1>6. CASE CollectPrepared
  BY <1>6, FlightCollect
<1>7. ASSUME NEW d \in Devices,
         \/ StartStep(d) \/ FinishStep(d) \/ RecordOutput(d) \/ BeginPrepare(d)
         \/ \E ok \in BOOLEAN : EndPrepare(d, ok)
      PROVE FlightInv'
  BY <1>7, FlightFrame DEF StartStep, FinishStep, RecordOutput, BeginPrepare, EndPrepare, mgr, eng
<1>8. CASE UNCHANGED vars
  BY <1>8, FlightFrame DEF vars, mgr, eng
<1> QED BY <1>1, <1>2, <1>3, <1>4, <1>5, <1>6, <1>7, <1>8 DEF Next

----------------------------------------------------------------------------
(* Where each worker stands *)

LEMMA StepFrame ==
  ASSUME NEW d \in Devices, StepInv(d), UNCHANGED <<flight, awaiting>>,
         chan'[d] = chan[d], fwd'[d] = fwd[d], out'[d] = out[d]
  PROVE  StepInv(d)'
BY DEF StepInv, Busy, UpdateOf

LEMMA StepLen ==
  ASSUME TypeInv, NEW d \in Devices, StepInv(d)
  PROVE  /\ Len(flight) \in Nat /\ Len(chan[d]) \in Nat /\ Len(out[d]) \in Nat
         /\ Busy(d) \in Nat /\ Busy(d) <= 1 /\ (Busy(d) = 0 <=> fwd[d].pc = "idle")
         /\ Len(flight) = Len(chan[d]) + Busy(d) + Len(out[d])
<1>1. /\ Len(flight) \in Nat /\ Len(chan[d]) \in Nat /\ Len(out[d]) \in Nat
  BY SeqFacts
<1>2. Len(flight) = Len(chan[d]) + Busy(d) + Len(out[d])
  BY DEF StepInv
<1>3. Busy(d) \in Nat /\ Busy(d) <= 1 /\ (Busy(d) = 0 <=> fwd[d].pc = "idle")
  BY DEF Busy
<1> QED BY <1>1, <1>2, <1>3

\* Arithmetic of positions: F steps in flight are C commands, B running, O outputs.
LEMMA Places ==
  ASSUME NEW F \in Nat, NEW C \in Nat, NEW B \in Nat, NEW O \in Nat, B <= 1, F = C + B + O
  PROVE  /\ C <= F /\ F - C = B + O /\ F - C \in Nat
         /\ \A m \in 1 .. C : m \in Nat /\ F - C + m \in 1 .. F
         /\ B # 0 => B = 1 /\ F - C \in 1 .. F
         /\ O # 0 =>
              /\ F - 1 = C + B + (O - 1) /\ (F - 1) - C = F - C - 1
              /\ \A m \in 1 .. C : /\ (F - 1) - C + m \in 1 .. F - 1
                                   /\ (F - 1) - C + m + 1 = F - C + m
              /\ B # 0 => (F - 1) - C \in 1 .. F - 1 /\ (F - 1) - C + 1 = F - C
OBVIOUS

LEMMA StepIndex ==
  ASSUME TypeInv, NEW d \in Devices, StepInv(d)
  PROVE  /\ \A m \in DOMAIN chan[d] :
              /\ m \in Nat /\ Len(flight) - Len(chan[d]) + m \in DOMAIN flight
         /\ fwd[d].pc # "idle" => Len(flight) - Len(chan[d]) \in DOMAIN flight
         /\ Len(chan[d]) <= Len(flight)
         /\ Len(flight) - Len(chan[d]) = Busy(d) + Len(out[d]) /\ Busy(d) \in Nat /\ Busy(d) <= 1
<1>1. /\ Len(flight) \in Nat /\ Len(chan[d]) \in Nat /\ Len(out[d]) \in Nat
      /\ Busy(d) \in Nat /\ Busy(d) <= 1 /\ (Busy(d) = 0 <=> fwd[d].pc = "idle")
      /\ Len(flight) = Len(chan[d]) + Busy(d) + Len(out[d])
  BY StepLen
<1>2. DOMAIN flight = 1 .. Len(flight) /\ DOMAIN chan[d] = 1 .. Len(chan[d])
  BY SeqFacts
<1> DEFINE F == Len(flight)
           C == Len(chan[d])
           B == Busy(d)
           O == Len(out[d])
<1>3. F \in Nat /\ C \in Nat /\ B \in Nat /\ O \in Nat /\ B <= 1 /\ F = C + B + O
  BY <1>1
<1>4. /\ C <= F /\ F - C = B + O /\ F - C \in Nat
      /\ \A m \in 1 .. C : m \in Nat /\ F - C + m \in 1 .. F
      /\ B # 0 => B = 1 /\ F - C \in 1 .. F
  <2> HIDE DEF F, C, B, O
  <2> QED BY <1>3, Places
<1> QED BY <1>1, <1>2, <1>4

LEMMA StepSend ==
  ASSUME TypeInv, FlightInv, NEW d \in Devices, StepInv(d),
         NEW info \in Infos, NEW warm \in BOOLEAN, Send(info, warm),
         info.update = IF info.activation = None THEN None ELSE awaiting'.layer,
         awaiting' = awaiting \/ awaiting.token = None
  PROVE  StepInv(d)'
<1>a. Appended(flight, flight', [warm |-> warm, activation |-> info.activation])
  BY SendFacts
<1>b. Appended(chan[d], chan'[d], info)
  BY SendFacts
<1>c. fwd'[d] = fwd[d] /\ out'[d] = out[d]
  BY SendFacts
<1>d. \A j \in DOMAIN flight : UpdateOf(flight[j].activation)' = UpdateOf(flight[j].activation)
  <2>1. \A j \in DOMAIN flight : flight'[j] = flight[j]
    BY <1>a DEF Appended
  <2> QED BY <2>1 DEF FlightInv, UpdateOf
<1>e. /\ Len(flight) \in Nat /\ Len(chan[d]) \in Nat /\ Len(out[d]) \in Nat
      /\ Busy(d) \in Nat /\ Busy(d) <= 1 /\ Len(flight) = Len(chan[d]) + Busy(d) + Len(out[d])
  BY StepLen
<1>f. Len(flight') = Len(flight) + 1 /\ Len(chan'[d]) = Len(chan[d]) + 1 /\ Busy(d)' = Busy(d)
  BY <1>a, <1>b, <1>c DEF Appended, Busy
<1>1. Len(flight') = Len(chan'[d]) + Busy(d)' + Len(out'[d])
  BY <1>c, <1>e, <1>f
<1>2. Len(flight') - Len(chan'[d]) = Len(flight) - Len(chan[d])
  BY <1>a, <1>b DEF Appended
<1>3. ASSUME NEW m \in DOMAIN chan'[d]
      PROVE  /\ chan'[d][m].activation = flight'[Len(flight') - Len(chan'[d]) + m].activation
             /\ chan'[d][m].update = UpdateOf(chan[d][m].activation)'
  <2>1. CASE m \in DOMAIN chan[d]
    <3>1. /\ chan[d][m].activation = flight[Len(flight) - Len(chan[d]) + m].activation
          /\ chan[d][m].update = UpdateOf(chan[d][m].activation)
          /\ Len(flight) - Len(chan[d]) + m \in DOMAIN flight
      BY <2>1, StepIndex DEF StepInv
    <3>2. chan'[d][m] = chan[d][m]
      BY <2>1, <1>b DEF Appended
    <3>3. flight'[Len(flight) - Len(chan[d]) + m] = flight[Len(flight) - Len(chan[d]) + m]
      BY <3>1, <1>a DEF Appended
    <3>4. UpdateOf(chan[d][m].activation)' = UpdateOf(chan[d][m].activation)
      BY <1>d, <3>1, <3>2, <3>3 DEF UpdateOf
    <3> QED BY <3>1, <3>2, <3>3, <3>4, <1>2
  <2>2. CASE m = Len(chan[d]) + 1
    <3>1. chan'[d][m] = info
      BY <2>2, <1>b DEF Appended
    <3>2. Len(flight') - Len(chan'[d]) + m = Len(flight) + 1
      BY <2>2, <1>e, <1>f
    <3>3. flight'[Len(flight) + 1].activation = info.activation
      BY <1>a DEF Appended
    <3> QED BY <3>1, <3>2, <3>3 DEF UpdateOf
  <2> QED BY <2>1, <2>2, <1>b DEF Appended
<1>4. fwd'[d].pc = "forward" =>
       fwd'[d].update = UpdateOf(flight[Len(flight) - Len(chan[d])].activation)'
  <2> SUFFICES ASSUME fwd[d].pc = "forward"
               PROVE  fwd[d].update = UpdateOf(flight[Len(flight) - Len(chan[d])].activation)'
    BY <1>c
  <2> DEFINE j == Len(flight) - Len(chan[d])
  <2>1. j \in DOMAIN flight /\ fwd[d].update = UpdateOf(flight[j].activation)
    BY StepIndex DEF StepInv
  <2>2. flight'[j] = flight[j] /\ (Len(flight) - Len(chan[d]))' = j
    BY <2>1, <1>2, <1>a DEF Appended
  <2>3. \A i \in DOMAIN flight : (IF flight[i].activation = None THEN None ELSE awaiting'.layer)
                                    = UpdateOf(flight[i].activation)
    BY DEF FlightInv, UpdateOf
  <2> HIDE DEF j
  <2> QED BY <2>1, <2>2, <2>3 DEF UpdateOf, j
<1> QED BY <1>1, <1>3, <1>4, <1>c DEF StepInv

LEMMA StepCollect ==
  ASSUME TypeInv, FlightInv, NEW d \in Devices, StepInv(d), CollectPrepared
  PROVE  StepInv(d)'
<1>a. Dropped(flight, flight') /\ Dropped(out[d], out'[d])
  BY CollectFacts
<1>b. UNCHANGED <<chan, fwd, awaiting>>
  BY DEF CollectPrepared
<1>c. Len(chan[d]) \in Nat /\ DOMAIN chan[d] = 1 .. Len(chan[d])
  BY SeqFacts
<1>e. /\ Len(flight) \in Nat /\ Len(chan[d]) \in Nat /\ Len(out[d]) \in Nat \ {0}
      /\ Busy(d) \in Nat /\ Busy(d) <= 1 /\ (Busy(d) = 0 <=> fwd[d].pc = "idle")
      /\ Len(flight) = Len(chan[d]) + Busy(d) + Len(out[d])
  BY StepLen, <1>a DEF Dropped
<1>f. /\ Len(flight') = Len(flight) - 1 /\ Len(chan'[d]) = Len(chan[d])
      /\ Busy(d)' = Busy(d) /\ Len(out'[d]) = Len(out[d]) - 1
  BY <1>a, <1>b DEF Dropped, Busy
<1> DEFINE F == Len(flight)
           C == Len(chan[d])
           B == Busy(d)
           O == Len(out[d])
<1>g. /\ F - 1 = C + B + (O - 1)
      /\ \A m \in 1 .. C : /\ (F - 1) - C + m \in 1 .. F - 1
                           /\ (F - 1) - C + m + 1 = F - C + m
      /\ B # 0 => (F - 1) - C \in 1 .. F - 1 /\ (F - 1) - C + 1 = F - C
  <2>1. /\ F \in Nat /\ C \in Nat /\ B \in Nat /\ O \in Nat /\ B <= 1 /\ F = C + B + O
        /\ O # 0
    BY <1>e
  <2> HIDE DEF F, C, B, O
  <2> QED BY <2>1, Places
<1>1. Len(flight') = Len(chan'[d]) + Busy(d)' + Len(out'[d])
  BY <1>f, <1>g
<1>3. ASSUME NEW m \in DOMAIN chan[d]
      PROVE  chan[d][m].activation = flight'[Len(flight') - Len(chan'[d]) + m].activation
  <2>1. chan[d][m].activation = flight[Len(flight) - Len(chan[d]) + m].activation
    BY DEF StepInv
  <2>2. /\ Len(flight') - Len(chan'[d]) + m \in 1 .. Len(flight) - 1
        /\ Len(flight') - Len(chan'[d]) + m + 1 = Len(flight) - Len(chan[d]) + m
    BY <1>g, <1>f, <1>c
  <2> QED BY <2>1, <2>2, <1>a DEF Dropped
<1>4. fwd[d].pc = "forward" =>
        flight'[Len(flight') - Len(chan'[d])] = flight[Len(flight) - Len(chan[d])]
  <2> SUFFICES ASSUME fwd[d].pc = "forward"
               PROVE  flight'[Len(flight') - Len(chan'[d])] = flight[Len(flight) - Len(chan[d])]
    OBVIOUS
  <2>2. /\ Len(flight') - Len(chan'[d]) \in 1 .. Len(flight) - 1
        /\ Len(flight') - Len(chan'[d]) + 1 = Len(flight) - Len(chan[d])
    BY <1>e, <1>g, <1>f
  <2> QED BY <2>2, <1>a DEF Dropped
<1> QED BY <1>1, <1>3, <1>4, <1>b DEF StepInv, UpdateOf

LEMMA StepLoad ==
  ASSUME TypeInv, MgrInv, FlightInv, NEW d \in Devices, StepInv(d), CollectLoad
  PROVE  StepInv(d)'
<1>0. UNCHANGED <<flight, chan, fwd, out>>
  BY DEF CollectLoad, dev
<1>1. CASE ~Acknowledged
  BY <1>0, <1>1, StepFrame DEF CollectLoad
<1>2. CASE Acknowledged
  <2>1. collecting.token # None
    BY <1>2 DEF Acknowledged, MgrInv
  <2>2. \A j \in DOMAIN flight : flight[j].activation = None
    BY <2>1 DEF FlightInv
  <2>3. \A m \in DOMAIN chan[d] :
          /\ chan[d][m].activation = flight[Len(flight) - Len(chan[d]) + m].activation
          /\ chan[d][m].activation = None /\ chan[d][m].update = None
    BY <2>2, StepIndex DEF StepInv, UpdateOf
  <2>4. fwd[d].pc = "forward" =>
          /\ flight[Len(flight) - Len(chan[d])].activation = None
          /\ fwd[d].update = None
    BY <2>2, StepIndex DEF StepInv, UpdateOf
  <2> QED BY <1>0, <2>3, <2>4 DEF StepInv, UpdateOf, Busy
<1> QED BY <1>1, <1>2

LEMMA StepDevice ==
  ASSUME TypeInv, NEW d \in Devices, StepInv(d),
         \/ StartStep(d) \/ FinishStep(d) \/ RecordOutput(d) \/ BeginPrepare(d)
         \/ \E ok \in BOOLEAN : EndPrepare(d, ok)
  PROVE  StepInv(d)'
<1>0. UNCHANGED <<flight, awaiting>>
  BY DEF StartStep, FinishStep, RecordOutput, BeginPrepare, EndPrepare, mgr, eng
<1>t. /\ fwd \in [Devices -> FwdSet] /\ chan \in [Devices -> Seq(Infos)]
      /\ out \in [Devices -> Seq(Token)] /\ ready \in [Devices -> Token]
  BY DEF TypeInv, DevType
<1>1. CASE StartStep(d)
  <2>1. /\ Dropped(chan[d], chan'[d]) /\ out'[d] = out[d]
        /\ fwd[d].pc = "idle" /\ fwd'[d].pc = "forward"
        /\ fwd'[d].update = chan[d][1].update
    <3>1. chan[d] # <<>> /\ chan[d] \in Seq(Infos) /\ chan'[d] = Tail(chan[d])
      BY <1>1, <1>t DEF StartStep
    <3>2. Dropped(chan[d], chan'[d])
      BY <3>1, TailFacts
    <3>3. out'[d] = out[d] /\ fwd[d].pc = "idle" /\ fwd'[d].pc = "forward"
          /\ fwd'[d].update = Head(chan[d]).update
      BY <1>1, <1>t DEF StartStep
    <3> QED BY <3>2, <3>3 DEF Dropped
  <2>2. Len(flight) \in Nat /\ Len(out[d]) \in Nat
    BY SeqFacts
  <2>3. Len(flight') = Len(chan'[d]) + Busy(d)' + Len(out'[d])
    <3>1. /\ Len(flight) \in Nat /\ Len(chan[d]) \in Nat /\ Len(out[d]) \in Nat
          /\ Busy(d) = 0 /\ Len(flight) = Len(chan[d]) + Busy(d) + Len(out[d])
      BY StepLen, <2>1
    <3>2. Len(chan'[d]) = Len(chan[d]) - 1 /\ Busy(d)' = 1
      BY <2>1 DEF Dropped, Busy
    <3>3. Len(flight) = Len(chan'[d]) + 1 + Len(out[d])
      <4> DEFINE F == Len(flight)
                 C == Len(chan[d])
                 O == Len(out[d])
                 B == Busy(d)
      <4>1. F \in Nat /\ C \in Nat /\ O \in Nat /\ B = 0 /\ F = C + B + O
        BY <3>1
      <4>2. F = (C - 1) + 1 + O
        <5> HIDE DEF F, C, O, B
        <5> QED BY <4>1
      <4> QED BY <4>2, <3>2
    <3> QED BY <3>2, <3>3, <2>1, <1>0
  <2>4. Len(flight) - Len(chan'[d]) = Len(flight) - Len(chan[d]) + 1
    BY <2>1, <2>2 DEF Dropped
  <2>5. ASSUME NEW m \in DOMAIN chan'[d]
        PROVE  /\ chan'[d][m].activation = flight[Len(flight) - Len(chan'[d]) + m].activation
               /\ chan'[d][m].update = UpdateOf(chan'[d][m].activation)
    <3>1. m + 1 \in DOMAIN chan[d] /\ chan'[d][m] = chan[d][m + 1] /\ m \in Nat
      BY <2>1, DroppedAt
    <3>2. Len(flight) - Len(chan'[d]) + m = Len(flight) - Len(chan[d]) + (m + 1)
      BY <3>1, <2>1, <2>2 DEF Dropped
    <3> QED BY <3>1, <3>2 DEF StepInv
  <2>6. fwd'[d].update = UpdateOf(flight[Len(flight) - Len(chan'[d])].activation)
    <3>1. 1 \in DOMAIN chan[d]
      BY <2>1, DroppedAt
    <3> QED BY <3>1, <2>1, <2>4 DEF StepInv
  <2> QED BY <1>0, <2>1, <2>3, <2>5, <2>6 DEF StepInv, UpdateOf
<1>2. CASE FinishStep(d)
  <2>1. /\ chan'[d] = chan[d] /\ out'[d] = out[d]
        /\ fwd[d].pc = "forward" /\ fwd' = [fwd EXCEPT ![d] = [Idle EXCEPT !.pc = "finished"]]
    BY <1>2 DEF FinishStep
  <2>2. fwd'[d].pc = "finished" /\ fwd'[d].update = None /\ fwd'[d].deferred = <<>>
    BY <2>1, <1>t DEF Idle
  <2> QED BY <1>0, <2>1, <2>2 DEF StepInv, Busy, UpdateOf
<1>3. CASE RecordOutput(d)
  <2>1. /\ chan'[d] = chan[d] /\ out'[d] = Append(out[d], ready[d])
        /\ fwd[d].pc = "finished" /\ fwd' = [fwd EXCEPT ![d] = Idle]
        /\ out[d] \in Seq(Token) /\ ready[d] \in Token
    BY <1>3, <1>t DEF RecordOutput
  <2>2. fwd'[d].pc = "idle" /\ fwd'[d].update = None /\ fwd'[d].deferred = <<>>
    BY <2>1, <1>t DEF Idle
  <2>3. Len(out'[d]) = Len(out[d]) + 1 /\ Len(out[d]) \in Nat
    BY <2>1, AppendFacts DEF Appended
  <2>4. Len(flight') = Len(chan'[d]) + Busy(d)' + Len(out'[d])
    <3>1. /\ Len(flight) \in Nat /\ Len(chan[d]) \in Nat
          /\ Busy(d) = 1 /\ Len(flight) = Len(chan[d]) + Busy(d) + Len(out[d])
      BY StepLen, <2>1
    <3>2. Busy(d)' = 0
      BY <2>2 DEF Busy
    <3>3. Len(flight) = Len(chan[d]) + 0 + (Len(out[d]) + 1)
      <4> DEFINE F == Len(flight)
                 C == Len(chan[d])
                 O == Len(out[d])
                 B == Busy(d)
      <4>1. F \in Nat /\ C \in Nat /\ O \in Nat /\ B = 1 /\ F = C + B + O
        BY <3>1, <2>3
      <4> HIDE DEF F, C, O, B
      <4>2. F = C + 0 + (O + 1)
        BY <4>1
      <4> QED BY <4>2 DEF F, C, O
    <3> QED BY <3>2, <3>3, <2>1, <2>3, <1>0
  <2> QED BY <1>0, <2>1, <2>2, <2>4 DEF StepInv, UpdateOf
<1>4. CASE BeginPrepare(d) \/ \E ok \in BOOLEAN : EndPrepare(d, ok)
  BY <1>0, <1>4, StepFrame DEF BeginPrepare, EndPrepare
<1> QED BY <1>1, <1>2, <1>3, <1>4

----------------------------------------------------------------------------
(* The step that carries the activation *)

LEMMA LeftFacts ==
  ASSUME TypeInv, NEW d \in Devices, StepInv(d)
  PROVE  /\ StepsLeft(d) \in Nat
         /\ StepsLeft(d) = Len(chan[d]) + (IF fwd[d].pc = "forward" THEN 1 ELSE 0)
         /\ StepsLeft(d) + Len(out[d]) <= Len(flight)
<1>1. /\ Len(flight) \in Nat /\ Len(chan[d]) \in Nat /\ Len(out[d]) \in Nat
      /\ Busy(d) \in Nat /\ Busy(d) <= 1 /\ (Busy(d) = 0 <=> fwd[d].pc = "idle")
      /\ Len(flight) = Len(chan[d]) + Busy(d) + Len(out[d])
  BY StepLen
<1>2. StepsLeft(d) = Len(chan[d]) + (IF fwd[d].pc = "forward" THEN 1 ELSE 0)
  BY DEF StepsLeft
<1> DEFINE F == Len(flight)
           C == Len(chan[d])
           O == Len(out[d])
           B == Busy(d)
           W == IF fwd[d].pc = "forward" THEN 1 ELSE 0
<1>3. W \in Nat /\ W <= B
  BY <1>1
<1>4. F \in Nat /\ C \in Nat /\ O \in Nat /\ B \in Nat /\ F = C + B + O
  BY <1>1
<1>5. C + W \in Nat /\ (C + W) + O <= F
  <2> HIDE DEF F, C, O, B, W
  <2> QED BY <1>3, <1>4
<1> QED BY <1>2, <1>5

LEMMA DoneFrame ==
  ASSUME NEW d \in Devices, flight' = flight, StepsLeft(d)' = StepsLeft(d)
  PROVE  Done(d)' <=> Done(d)
BY DEF Done

LEMMA DoneSend ==
  ASSUME TypeInv, NEW d \in Devices, StepInv(d),
         NEW info \in Infos, NEW warm \in BOOLEAN, Send(info, warm)
  PROVE  /\ info.activation = None => (Done(d)' <=> Done(d))
         /\ info.activation # None => ~Done(d)'
<1>a. Appended(flight, flight', [warm |-> warm, activation |-> info.activation])
  BY SendFacts
<1>b. Appended(chan[d], chan'[d], info) /\ fwd'[d] = fwd[d]
  BY SendFacts
<1>1. /\ StepsLeft(d) \in Nat /\ Len(flight) \in Nat
      /\ StepsLeft(d) = Len(chan[d]) + (IF fwd[d].pc = "forward" THEN 1 ELSE 0)
  BY LeftFacts, SeqFacts
<1>2. StepsLeft(d)' = StepsLeft(d) + 1
  <2> DEFINE C == Len(chan[d])
             W == IF fwd[d].pc = "forward" THEN 1 ELSE 0
  <2>1. C \in Nat /\ W \in Nat
    BY SeqFacts
  <2>2. StepsLeft(d)' = (C + 1) + W /\ StepsLeft(d) = C + W
    BY <1>b DEF StepsLeft, Appended
  <2> HIDE DEF C, W
  <2> QED BY <2>1, <2>2
<1> DEFINE S == StepsLeft(d)
           F == Len(flight)
<1>3. /\ flight'[F + 1].activation = info.activation
      /\ \A j \in 1 .. F : flight'[j] = flight[j]
      /\ DOMAIN flight = 1 .. F /\ DOMAIN flight' = 1 .. F + 1 /\ Len(flight') = F + 1
  BY <1>a DEF Appended
<1>4. Done(d) <=> \A j \in 1 .. F : flight[j].activation # None => j + S <= F
  BY <1>3 DEF Done
<1>5. Done(d)' <=> \A j \in 1 .. F + 1 : flight'[j].activation # None => j + (S + 1) <= F + 1
  BY <1>2, <1>3 DEF Done
<1>6. S \in Nat /\ F \in Nat
  BY <1>1
<1> HIDE DEF S, F
<1>7. ~(F + 1 + (S + 1) <= F + 1) /\ F + 1 \in 1 .. F + 1
  BY <1>6
<1>8. info.activation # None => ~Done(d)'
  BY <1>3, <1>5, <1>7
<1>9. \A j \in 1 .. F + 1 : j = F + 1 \/ j \in 1 .. F
  BY <1>6
<1>10. \A j \in 1 .. F : j \in 1 .. F + 1 /\ (j + S <= F <=> j + (S + 1) <= F + 1)
  BY <1>6
<1>11. info.activation = None => (Done(d)' <=> Done(d))
  BY <1>3, <1>4, <1>5, <1>9, <1>10
<1> QED BY <1>8, <1>11

LEMMA DoneCollect ==
  ASSUME TypeInv, FlightInv, NEW d \in Devices, StepInv(d), CollectPrepared
  PROVE  Done(d)' <=> Done(d)
<1>a. Dropped(flight, flight') /\ Dropped(out[d], out'[d])
  BY CollectFacts
<1>b. StepsLeft(d)' = StepsLeft(d)
  BY DEF CollectPrepared, StepsLeft
<1> DEFINE S == StepsLeft(d)
           F == Len(flight)
           O == Len(out[d])
<1>1. /\ \A j \in 1 .. F - 1 : flight'[j] = flight[j + 1]
      /\ DOMAIN flight = 1 .. F /\ DOMAIN flight' = 1 .. F - 1 /\ Len(flight') = F - 1
  BY <1>a DEF Dropped
<1>2. Done(d) <=> \A j \in 1 .. F : flight[j].activation # None => j + S <= F
  BY <1>1 DEF Done
<1>3. Done(d)' <=> \A j \in 1 .. F - 1 : flight'[j].activation # None => j + S <= F - 1
  BY <1>b, <1>1 DEF Done
<1>4. S \in Nat /\ F \in Nat \ {0} /\ O \in Nat \ {0} /\ S + O <= F
  BY LeftFacts, <1>a DEF Dropped
<1> HIDE DEF S, F, O
<1>5. 1 + S <= F
  BY <1>4
<1>6. \A j \in 1 .. F - 1 : j + 1 \in 1 .. F /\ (j + 1 + S <= F <=> j + S <= F - 1)
  BY <1>4
<1>7. \A j \in 1 .. F : j = 1 \/ (j - 1 \in 1 .. F - 1 /\ (j - 1) + 1 = j)
  BY <1>4
<1>8. Done(d) => Done(d)'
  BY <1>1, <1>2, <1>3, <1>6
<1>9. ASSUME Done(d)', NEW j \in 1 .. F, flight[j].activation # None
      PROVE  j + S <= F
  <2>1. CASE j = 1
    BY <2>1, <1>5
  <2>2. CASE j - 1 \in 1 .. F - 1 /\ (j - 1) + 1 = j
    <3>1. flight'[j - 1] = flight[j]
      BY <2>2, <1>1
    <3>2. (j - 1) + S <= F - 1
      BY <2>2, <3>1, <1>9, <1>3
    <3> QED BY <3>2, <1>4
  <2> QED BY <2>1, <2>2, <1>7
<1> QED BY <1>2, <1>8, <1>9

LEMMA DoneFinish ==
  ASSUME TypeInv, FlightInv, MgrInv, NEW d \in Devices, StepInv(d), FinishStep(d)
  PROVE  /\ fwd[d].update = None => (Done(d)' <=> Done(d))
         /\ fwd[d].update # None =>
              /\ Done(d)' /\ ~Done(d) /\ fwd[d].update = awaiting.layer
<1> DEFINE C == Len(chan[d])
           F == Len(flight)
<1>a. /\ flight' = flight /\ chan' = chan /\ fwd[d].pc = "forward"
      /\ fwd'[d].pc = "finished"
  <2>1. fwd' = [fwd EXCEPT ![d] = [Idle EXCEPT !.pc = "finished"]] /\ fwd \in [Devices -> FwdSet]
    BY DEF FinishStep, TypeInv, DevType
  <2> QED BY <2>1 DEF FinishStep, eng, Idle
<1>1. StepsLeft(d) = C + 1 /\ StepsLeft(d)' = C
  <2>1. C \in Nat
    BY SeqFacts
  <2>2. StepsLeft(d) = C + 1 /\ StepsLeft(d)' = C + 0
    BY <1>a DEF StepsLeft
  <2> QED BY <2>1, <2>2
<1>2. F - C \in DOMAIN flight /\ DOMAIN flight = 1 .. F /\ C \in Nat /\ F \in Nat
  BY <1>a, StepIndex, SeqFacts
<1>3. Done(d) <=> \A j \in 1 .. F : flight[j].activation # None => j + (C + 1) <= F
  BY <1>1, <1>2 DEF Done
<1>4. Done(d)' <=> \A j \in 1 .. F : flight[j].activation # None => j + C <= F
  BY <1>a, <1>1, <1>2 DEF Done
<1>5. fwd[d].update = UpdateOf(flight[F - C].activation)
  BY <1>a DEF StepInv
<1>6. \A j \in 1 .. F : flight[j].activation # None => flight[j].activation = awaiting.token
  BY <1>2 DEF FlightInv
<1>7. \A i, j \in 1 .. F : flight[i].activation # None /\ flight[j].activation # None => i = j
  BY <1>2 DEF FlightInv
<1> HIDE DEF C, F
<1>8. F - C \in 1 .. F /\ ~(F - C + (C + 1) <= F) /\ F - C + C <= F
  BY <1>2
<1>9. \A j \in 1 .. F : j # F - C => (j + (C + 1) <= F <=> j + C <= F)
  BY <1>2
<1>10. ASSUME flight[F - C].activation # None
       PROVE  Done(d)' /\ ~Done(d) /\ fwd[d].update = awaiting.layer /\ awaiting.layer # None
  <2>1. ~Done(d)
    BY <1>10, <1>3, <1>8
  <2>2. Done(d)'
    BY <1>10, <1>4, <1>7, <1>8
  <2>3. fwd[d].update = awaiting.layer
    BY <1>10, <1>5 DEF UpdateOf
  <2>4. awaiting.layer # None
    BY <1>10, <1>6, <1>8 DEF MgrInv
  <2> QED BY <2>1, <2>2, <2>3, <2>4
<1>11. ASSUME flight[F - C].activation = None
       PROVE  (Done(d)' <=> Done(d)) /\ fwd[d].update = None
  BY <1>11, <1>3, <1>4, <1>5, <1>9 DEF UpdateOf
<1> QED BY <1>10, <1>11

\* The step that a worker runs carries an update only of the awaited layer, which
\* it has not done yet.
LEMMA ForwardUpdates ==
  ASSUME TypeInv, FlightInv, MgrInv, NEW d \in Devices, StepInv(d),
         fwd[d].pc = "forward", fwd[d].update # None
  PROVE  fwd[d].update = awaiting.layer /\ awaiting.layer \in Layers /\ ~Done(d)
<1> DEFINE C == Len(chan[d])
           F == Len(flight)
<1>1. StepsLeft(d) = C + 1
  BY LeftFacts
<1>2. F - C \in DOMAIN flight /\ C \in Nat /\ F \in Nat
  BY StepIndex, SeqFacts
<1>3. fwd[d].update = UpdateOf(flight[F - C].activation)
  BY DEF StepInv
<1>4. flight[F - C].activation # None /\ fwd[d].update = awaiting.layer
  BY <1>3 DEF UpdateOf
<1>5. awaiting.layer \in Layers
  BY <1>4 DEF TypeInv, MgrType, Slots, LayerOrNone
<1>6. Done(d) => F - C + (C + 1) <= F
  BY <1>1, <1>2, <1>4 DEF Done
<1> HIDE DEF C, F
<1>7. ~(F - C + (C + 1) <= F)
  BY <1>2
<1> QED BY <1>4, <1>5, <1>6, <1>7

----------------------------------------------------------------------------
(* Placements *)

LEMMA LiveFrame ==
  ASSUME NEW d \in Devices, LiveInv(d), Done(d)' <=> Done(d),
         UNCHANGED <<awaiting, pending, expert_distribution, active_expert_distribution>>,
         live'[d] = live[d], staged'[d] = staged[d]
  PROVE  LiveInv(d)'
BY DEF LiveInv, Proposed

LEMMA LiveRound ==
  ASSUME TypeInv, MgrInv, NEW d \in Devices, LiveInv(d),
         NEW changed \in SUBSET Layers, NEW p \in Plans, RebalanceRound(changed, p)
  PROVE  LiveInv(d)'
<1>1. awaiting.layer = None
  BY DEF MgrInv, RebalanceRound
<1>2. pending' = [pending EXCEPT !.layer = None] /\ pending \in Slots
  BY DEF RebalanceRound, TypeInv, MgrType
<1>3. pending'.layer = None
  BY <1>2 DEF Slots
<1>4. awaiting' = awaiting /\ active_expert_distribution' = active_expert_distribution
      /\ live' = live
  BY DEF RebalanceRound, dev
<1> QED BY <1>1, <1>3, <1>4, Consts DEF LiveInv

LEMMA LiveReady ==
  ASSUME TypeInv, MgrInv, NEW d \in Devices, LiveInv(d), LastInv(d), ManagerReady
  PROVE  LiveInv(d)'
<1>1. /\ pending' = [layer |-> active_layer_id, token |-> active_prepare_token]
      /\ UNCHANGED <<awaiting, expert_distribution, active_expert_distribution,
                     live, staged, flight, chan, fwd>>
      /\ active_prepare_token # None /\ prepared_tokens[d] = active_prepare_token
  BY DEF ManagerReady, all_prepared, dev, eng
<1>2. pending'.layer = active_layer_id
  BY <1>1
<1>3. staged[d][active_layer_id] = Proposed(d, active_layer_id)
  BY <1>1 DEF LastInv, Reported
<1>4. Done(d)' <=> Done(d)
  BY <1>1, DoneFrame DEF StepsLeft
<1> QED BY <1>1, <1>2, <1>3, <1>4 DEF LiveInv, Proposed

LEMMA LiveSend ==
  ASSUME TypeInv, MgrInv, NEW d \in Devices, StepInv(d), LiveInv(d),
         NEW info \in Infos, NEW warm \in BOOLEAN, Send(info, warm),
         UNCHANGED <<expert_distribution, active_expert_distribution>>,
         \/ info.activation = None /\ UNCHANGED <<awaiting, pending>>
         \/ /\ info.activation # None /\ awaiting.layer = None
            /\ awaiting' = pending /\ pending'.layer = None
  PROVE  LiveInv(d)'
<1>1. live' = live /\ staged' = staged
  BY DEF Send
<1>2. CASE info.activation = None /\ UNCHANGED <<awaiting, pending>>
  BY <1>1, <1>2, DoneSend, LiveFrame
<1>3. CASE /\ info.activation # None /\ awaiting.layer = None
           /\ awaiting' = pending /\ pending'.layer = None
  <2>1. ~Done(d)'
    BY <1>3, DoneSend
  <2>2. \A l \in Layers : live[d][l] = active_expert_distribution[l]
    BY <1>3, Consts DEF LiveInv
  <2> QED BY <1>1, <1>3, <2>1, <2>2 DEF LiveInv, Proposed
<1> QED BY <1>2, <1>3

LEMMA LiveLoad ==
  ASSUME TypeInv, MgrInv, FlightInv, NEW d \in Devices, LiveInv(d), CollectLoad
  PROVE  LiveInv(d)'
<1>1. /\ UNCHANGED <<pending, expert_distribution, live, staged, flight, chan, fwd>>
  BY DEF CollectLoad, dev
<1>2. Done(d)' <=> Done(d)
  BY <1>1, DoneFrame DEF StepsLeft
<1>3. CASE ~Acknowledged
  BY <1>1, <1>2, <1>3, LiveFrame DEF CollectLoad
<1>4. CASE Acknowledged
  <2>1. collecting.token # None
    BY <1>4 DEF Acknowledged, MgrInv
  <2>2. Done(d)
    BY <2>1 DEF FlightInv, Done
  <2>3. /\ awaiting'.layer = None
        /\ active_expert_distribution' =
               [active_expert_distribution EXCEPT
                  ![awaiting.layer] = expert_distribution[awaiting.layer]]
    BY <1>4 DEF CollectLoad
  <2>4. active_expert_distribution \in [Layers -> Plans]
    BY DEF TypeInv, MgrType
  <2>5. \A l \in Layers : live'[d][l] = active_expert_distribution'[l]
    BY <1>1, <2>2, <2>3, <2>4 DEF LiveInv
  <2> QED BY <1>1, <2>3, <2>5, Consts DEF LiveInv, Proposed
<1> QED BY <1>3, <1>4

LEMMA LiveFinish ==
  ASSUME TypeInv, MgrInv, FlightInv, NEW d \in Devices, StepInv(d), LiveInv(d), FinishStep(d)
  PROVE  LiveInv(d)'
<1>0. UNCHANGED <<awaiting, pending, expert_distribution, active_expert_distribution>>
  BY DEF FinishStep, mgr
<1>t. /\ live \in [Devices -> [Layers -> Plans]]
      /\ staged \in [Devices -> [Layers -> StagedSet]]
      /\ expert_distribution \in [Layers -> Plans]
  BY DEF TypeInv, DevType, MgrType
<1>1. CASE fwd[d].update = None
  <2>1. live' = live /\ staged' = staged
    BY <1>1 DEF FinishStep
  <2> QED BY <1>0, <1>1, <2>1, DoneFinish, LiveFrame
<1>2. CASE fwd[d].update # None
  <2> DEFINE l == awaiting.layer
  <2>1. fwd[d].update = l /\ Done(d)' /\ ~Done(d) /\ l # None /\ l \in Layers
    <3>1. fwd[d].update = l /\ Done(d)' /\ ~Done(d) /\ l # None
      BY <1>2, DoneFinish
    <3> QED BY <3>1 DEF TypeInv, MgrType, Slots, LayerOrNone
  <2>2. staged[d][l] = [plan |-> expert_distribution[l], base |-> live[d][l]]
    BY <2>1 DEF LiveInv, Proposed
  <2>3. staged[d][l] # NoPlan /\ staged[d][l].plan = expert_distribution[l]
    <3>1. staged[d][l].plan = expert_distribution[l] /\ NoPlan.plan = None
      BY <2>2 DEF NoPlan
    <3>2. expert_distribution[l] \in Plans
      BY <2>1, <1>t
    <3> QED BY <3>1, <3>2, Consts
  <2>4. /\ live' = [live EXCEPT ![d][l] = expert_distribution[l]]
        /\ staged' = [staged EXCEPT ![d][l] = NoPlan]
    BY <2>1, <2>3 DEF FinishStep
  <2>5. \A k \in Layers : live'[d][k] = IF k = l THEN expert_distribution[l] ELSE live[d][k]
    <3>1. expert_distribution[l] \in Plans
      BY <2>1, <1>t
    <3> HIDE DEF l
    <3> QED BY <2>1, <2>4, <3>1, <1>t, ExceptExcept
  <2>6. \A k \in Layers : k # l => staged'[d][k] = staged[d][k]
    <3>1. NoPlan \in StagedSet
      BY DEF StagedSet
    <3> HIDE DEF l
    <3> QED BY <2>1, <2>4, <3>1, <1>t, ExceptExcept
  <2>7. pending.layer # None => pending.layer \in Layers /\ pending.layer # l
    <3>1. pending.layer \in LayerOrNone /\ l \in Int /\ LayerOrNone \subseteq Int
      BY <2>1, Consts DEF TypeInv, MgrType, Slots
    <3>2. pending.layer # None => l < pending.layer
      BY DEF MgrInv
    <3> QED BY <3>1, <3>2 DEF LayerOrNone
  <2> QED BY <1>0, <2>1, <2>5, <2>6, <2>7 DEF LiveInv, Proposed
<1> QED BY <1>1, <1>2

LEMMA LiveStart ==
  ASSUME TypeInv, NEW d \in Devices, StepInv(d), LiveInv(d), StartStep(d) \/ RecordOutput(d)
  PROVE  LiveInv(d)'
<1>0. UNCHANGED <<awaiting, pending, expert_distribution, active_expert_distribution,
                  flight, live, staged>>
  BY DEF StartStep, RecordOutput, mgr, eng
<1>1. StepsLeft(d)' = StepsLeft(d)
  <2>t. fwd \in [Devices -> FwdSet] /\ chan \in [Devices -> Seq(Infos)]
    BY DEF TypeInv, DevType
  <2>1. CASE StartStep(d)
    <3>1. chan[d] # <<>> /\ chan[d] \in Seq(Infos) /\ chan'[d] = Tail(chan[d])
          /\ fwd[d].pc = "idle" /\ fwd'[d].pc = "forward"
      BY <2>1, <2>t DEF StartStep
    <3>2. Len(chan'[d]) = Len(chan[d]) - 1 /\ Len(chan[d]) \in Nat
      BY <3>1, TailFacts DEF Dropped
    <3> QED BY <3>1, <3>2 DEF StepsLeft
  <2>2. CASE RecordOutput(d)
    <3>1. chan' = chan /\ fwd[d].pc = "finished" /\ fwd'[d].pc = "idle"
      BY <2>2, <2>t DEF RecordOutput, Idle
    <3> QED BY <3>1 DEF StepsLeft
  <2> QED BY <2>1, <2>2
<1> QED BY <1>0, <1>1, DoneFrame, LiveFrame

LEMMA LivePrepare ==
  ASSUME TypeInv, MgrInv, NEW d \in Devices, LiveInv(d), TaskInv(d),
         BeginPrepare(d) \/ \E ok \in BOOLEAN : EndPrepare(d, ok)
  PROVE  LiveInv(d)'
<1>0. UNCHANGED <<awaiting, pending, expert_distribution, active_expert_distribution,
                  flight, live, chan, fwd>>
  BY DEF BeginPrepare, EndPrepare, mgr, eng
<1>1. Done(d)' <=> Done(d)
  BY <1>0, DoneFrame DEF StepsLeft
<1>2. \A k \in Layers : k = pending.layer \/ k = awaiting.layer => staged'[d][k] = staged[d][k]
  <2>t. staged \in [Devices -> [Layers -> StagedSet]] /\ NoPlan \in StagedSet
    BY DEF TypeInv, DevType, StagedSet
  <2>1. CASE BeginPrepare(d)
    <3> DEFINE l == tasks[d][1].layer
    <3>1. tasks[d] \in Seq(TaskSet) /\ tasks[d] # <<>>
          /\ staged' = [staged EXCEPT ![d][Head(tasks[d]).layer] = NoPlan]
      BY <2>1 DEF BeginPrepare, TypeInv, DevType
    <3>2. 1 \in DOMAIN tasks[d] /\ Head(tasks[d]) = tasks[d][1] /\ tasks[d][1] \in TaskSet
      BY <3>1
    <3>3. l \in Layers /\ l # pending.layer /\ l # awaiting.layer
      <4>1. tasks[d][1] \in OkTasks
        BY <3>2 DEF TaskInv
      <4> QED BY <4>1 DEF OkTasks, TaskSet
    <3>4. staged' = [staged EXCEPT ![d][l] = NoPlan]
      BY <3>1, <3>2
    <3> HIDE DEF l
    <3>5. \A k \in Layers : k # l => staged'[d][k] = staged[d][k]
      BY <3>3, <3>4, <2>t, ExceptExcept
    <3> QED BY <3>3, <3>5
  <2>2. CASE \E ok \in BOOLEAN : EndPrepare(d, ok)
    <3> DEFINE r == running[d][1]
               l == r.task.layer
               v == [plan |-> r.task.plan, base |-> r.base]
    <3>1. running[d] \in Seq(RunSet) /\ running[d] # <<>>
      BY <2>2 DEF EndPrepare, TypeInv, DevType
    <3>2. 1 \in DOMAIN running[d] /\ Head(running[d]) = r /\ r \in RunSet
      BY <3>1
    <3>3. l \in Layers /\ l # pending.layer /\ l # awaiting.layer
      <4>1. r.task \in OkTasks
        BY <3>2 DEF TaskInv
      <4> QED BY <4>1 DEF OkTasks, TaskSet
    <3>4. v \in StagedSet
      BY <3>2 DEF StagedSet, RunSet, TaskSet
    <3>5. staged' = staged \/ staged' = [staged EXCEPT ![d][l] = v]
      BY <2>2, <3>2 DEF EndPrepare
    <3> HIDE DEF l, v
    <3>6. \A k \in Layers : k # l => staged'[d][k] = staged[d][k]
      BY <3>3, <3>4, <3>5, <2>t, ExceptExcept
    <3> QED BY <3>3, <3>6
  <2> QED BY <2>1, <2>2
<1>3. /\ pending.layer # None => pending.layer \in Layers
      /\ awaiting.layer # None => awaiting.layer \in Layers
  BY DEF TypeInv, MgrType, Slots, LayerOrNone
<1> QED BY <1>0, <1>1, <1>2, <1>3 DEF LiveInv, Proposed

----------------------------------------------------------------------------
(* Tasks *)

LEMMA ConcatOne ==
  ASSUME NEW S, NEW s \in Seq(S), NEW q \in Seq(S), Len(q) <= 1
  PROVE  \/ q = <<>> /\ s \o q = s
         \/ Len(q) = 1 /\ q[1] \in S /\ Appended(s, s \o q, q[1])
<1>1. CASE q = <<>>
  BY <1>1
<1>2. CASE q # <<>>
  <2>1. Len(q) = 1 /\ q[1] \in S
    <3>1. Len(q) \in Nat /\ Len(q) # 0
      BY <1>2, EmptySeq
    <3>2. Len(q) = 1
      <4> DEFINE n == Len(q)
      <4>1. n \in Nat /\ n # 0 /\ n <= 1
        BY <3>1
      <4> HIDE DEF n
      <4>2. n = 1
        BY <4>1
      <4> QED BY <4>2 DEF n
    <3>3. 1 \in 1 .. Len(q)
      BY <3>2
    <3> QED BY <3>2, <3>3, ElementOfSeq
  <2>2. /\ s \o q \in Seq(S) /\ Len(s \o q) = Len(s) + Len(q)
        /\ \A i \in 1 .. Len(s) + Len(q) :
             (s \o q)[i] = IF i <= Len(s) THEN s[i] ELSE q[i - Len(s)]
    BY ConcatProperties
  <2>3. Len(s) \in Nat /\ DOMAIN s = 1 .. Len(s)
    OBVIOUS
  <2>4. DOMAIN (s \o q) = 1 .. Len(s) + 1
    BY <2>1, <2>2, <2>3
  <2>5. (s \o q)[Len(s) + 1] = q[1]
    <3>1. Len(s) + 1 \in 1 .. Len(s) + Len(q) /\ ~(Len(s) + 1 <= Len(s)) /\ Len(s) + 1 - Len(s) = 1
      BY <2>1, <2>3
    <3> QED BY <2>2, <3>1
  <2>6. \A i \in 1 .. Len(s) : (s \o q)[i] = s[i]
    BY <2>1, <2>2, <2>3
  <2> QED BY <2>1, <2>2, <2>3, <2>4, <2>5, <2>6 DEF Appended
<1> QED BY <1>1, <1>2

\* What the manager did leaves the tasks of worker d in order.
LEMMA TaskFrame ==
  ASSUME TypeInv, NEW d \in Devices, TaskInv(d), OkTasks \subseteq OkTasks',
         active_prepare_token' # None =>
           active_prepare_token' = active_prepare_token /\ active_layer_id' = active_layer_id,
         next_prepare_token' = next_prepare_token,
         \/ prepared_tokens'[d] = prepared_tokens[d]
         \/ prepared_tokens'[d] < next_prepare_token,
         chan'[d] = chan[d], fwd'[d] = fwd[d], tasks'[d] = tasks[d], running'[d] = running[d],
         ready'[d] = ready[d], out'[d] = out[d], live'[d] = live[d]
  PROVE  TaskInv(d)'
<1>1. ASSUME NEW i \in DOMAIN running[d], running[d][i].task.token = active_prepare_token'
      PROVE  running[d][i].base = live[d][active_layer_id']
  <2>1. running[d][i].task.token # None
    BY Consts DEF TaskInv, OkTasks, TaskSet
  <2> QED BY <1>1, <2>1 DEF TaskInv
<1>2. fwd'[d].deferred \in Seq(OkTasks') /\ tasks'[d] \in Seq(OkTasks')
  BY DEF TaskInv
<1>3. \A m \in DOMAIN chan'[d] :
       IF chan'[d][m].prepare = None THEN chan'[d][m].token = None
       ELSE Task(chan'[d][m]) \in OkTasks'
  BY DEF TaskInv
<1>4. /\ ready'[d] < next_prepare_token' /\ prepared_tokens'[d] < next_prepare_token'
      /\ \A i \in DOMAIN out'[d] : out'[d][i] < next_prepare_token'
  BY DEF TaskInv
<1>5. \A i \in DOMAIN running'[d] :
       /\ running'[d][i].task \in OkTasks'
       /\ running'[d][i].task.token = active_prepare_token' =>
            running'[d][i].base = live'[d][active_layer_id']
  BY <1>1 DEF TaskInv
<1> HIDE DEF OkTasks
<1> QED BY <1>2, <1>3, <1>4, <1>5 DEF TaskInv, Task

LEMMA TaskManager ==
  ASSUME TypeInv, MgrInv, NEW d \in Devices, TaskInv(d), LastInv(d),
         \/ ManagerReady \/ ManagerTimeout \/ CollectLoad
         \/ \E changed \in SUBSET Layers, p \in Plans : RebalanceRound(changed, p)
  PROVE  TaskInv(d)'
<1>t. /\ next_prepare_token \in Nat /\ active_prepare_token \in Token
      /\ \A k \in TaskSet : k.layer # None /\ k.token # None
  BY Consts DEF TypeInv, MgrType, TaskSet
<1>d. UNCHANGED <<chan, fwd, tasks, running, ready, out, live>>
  BY DEF ManagerReady, ManagerTimeout, CollectLoad, RebalanceRound, dev
<1>1. CASE ManagerReady
  <2>1. /\ active_prepare_token # None /\ prepared_tokens[d] = active_prepare_token
        /\ UNCHANGED <<next_prepare_token, prepared_tokens>>
    BY <1>1 DEF ManagerReady, all_prepared
  <2>2. /\ running[d] = <<>> /\ tasks[d] = <<>> /\ fwd[d].deferred = <<>> /\ NoPrep(d)
    BY <2>1 DEF LastInv, Reported
  <2>3. \A m \in DOMAIN chan[d] : chan[d][m].prepare = None /\ chan[d][m].token = None
    BY <2>2 DEF NoPrep, TaskInv
  <2>4. fwd'[d].deferred \in Seq(OkTasks') /\ tasks'[d] \in Seq(OkTasks')
    <3>1. fwd'[d].deferred = <<>> /\ tasks'[d] = <<>>
      BY <2>2, <1>d
    <3> HIDE DEF OkTasks
    <3>2. <<>> \in Seq(OkTasks')
      BY EmptySeq
    <3> QED BY <3>1, <3>2
  <2>5. /\ ready'[d] < next_prepare_token' /\ prepared_tokens'[d] < next_prepare_token'
        /\ \A i \in DOMAIN out'[d] : out'[d][i] < next_prepare_token'
    BY <2>1, <1>d DEF TaskInv
  <2>6. DOMAIN running'[d] = {}
    BY <2>2, <1>d
  <2> HIDE DEF OkTasks
  <2> QED BY <1>d, <2>3, <2>4, <2>5, <2>6 DEF TaskInv
<1>2. CASE ManagerTimeout
  <2>1. /\ active_prepare_token' = None /\ prepared_tokens'[d] = None
        /\ UNCHANGED <<next_prepare_token, pending, awaiting, expert_distribution>>
    BY <1>2 DEF ManagerTimeout
  <2>2. OkTasks \subseteq OkTasks'
    BY <2>1, <1>t DEF OkTasks
  <2>3. prepared_tokens'[d] < next_prepare_token
    BY <2>1, <1>t, Consts
  <2> QED BY <2>1, <2>2, <2>3, <1>d, TaskFrame
<1>3. CASE CollectLoad
  <2>1. /\ UNCHANGED <<active_prepare_token, active_layer_id, next_prepare_token,
                       prepared_tokens, pending, expert_distribution>>
        /\ awaiting'.layer \in {None, awaiting.layer}
    BY <1>3 DEF CollectLoad
  <2>2. OkTasks \subseteq OkTasks'
    BY <2>1, <1>t DEF OkTasks
  <2> QED BY <2>1, <2>2, <1>d, TaskFrame
<1>4. ASSUME NEW changed \in SUBSET Layers, NEW p \in Plans, RebalanceRound(changed, p)
      PROVE  TaskInv(d)'
  <2>1. /\ active_prepare_token = None
        /\ UNCHANGED <<active_prepare_token, next_prepare_token, prepared_tokens, awaiting>>
    BY <1>4 DEF RebalanceRound, MgrInv
  <2>2. pending'.layer = None
    BY <1>4 DEF RebalanceRound, TypeInv, MgrType, Slots
  <2>3. OkTasks \subseteq OkTasks'
    BY <2>1, <2>2, <1>t DEF OkTasks
  <2> QED BY <2>1, <2>3, <1>d, TaskFrame
<1> QED BY <1>1, <1>2, <1>3, <1>4

\* A command that carries a task of the manager goes to the worker.
LEMMA TaskSend ==
  ASSUME TypeInv, NEW d \in Devices, TaskInv(d),
         NEW info \in Infos, NEW warm \in BOOLEAN, Send(info, warm),
         OkTasks \subseteq OkTasks',
         IF info.prepare = None THEN info.token = None ELSE Task(info) \in OkTasks',
         \/ UNCHANGED <<active_prepare_token, active_layer_id>>
         \/ active_prepare_token' = next_prepare_token,
         next_prepare_token' \in Nat, next_prepare_token <= next_prepare_token',
         prepared_tokens' = prepared_tokens
  PROVE  TaskInv(d)'
<1>a. Appended(chan[d], chan'[d], info)
  BY SendFacts
<1>b. UNCHANGED <<fwd, tasks, running, ready, out, live>>
  BY DEF Send
<1>t. /\ next_prepare_token \in Nat /\ ready[d] \in Int /\ prepared_tokens[d] \in Int
      /\ \A i \in DOMAIN out[d] : out[d][i] \in Int
      /\ \A i \in DOMAIN running[d] : running[d][i].task.token \in Nat
  <2>1. next_prepare_token \in Nat /\ ready[d] \in Int /\ prepared_tokens[d] \in Int
    BY Consts DEF TypeInv, MgrType, DevType
  <2>2. out[d] \in Seq(Token)
    BY DEF TypeInv, DevType
  <2>3. \A i \in DOMAIN out[d] : out[d][i] \in Int
    <3>1. \A i \in DOMAIN out[d] : out[d][i] \in Token
      <4> HIDE DEF Token
      <4> QED BY <2>2
    <3> QED BY <3>1, Consts
  <2>4. \A i \in DOMAIN running[d] : running[d][i].task.token \in Nat
    BY DEF TaskInv, OkTasks, TaskSet
  <2> QED BY <2>1, <2>3, <2>4
<1>1. \A m \in DOMAIN chan'[d] :
       IF chan'[d][m].prepare = None THEN chan'[d][m].token = None
       ELSE Task(chan'[d][m]) \in OkTasks'
  <2>1. \A m \in DOMAIN chan'[d] : (m \in DOMAIN chan[d] /\ chan'[d][m] = chan[d][m])
                                   \/ chan'[d][m] = info
    BY <1>a DEF Appended
  <2> HIDE DEF OkTasks
  <2> QED BY <2>1 DEF TaskInv
<1>2. fwd'[d].deferred \in Seq(OkTasks') /\ tasks'[d] \in Seq(OkTasks')
  BY <1>b DEF TaskInv
<1>3. /\ ready'[d] < next_prepare_token' /\ prepared_tokens'[d] < next_prepare_token'
      /\ \A i \in DOMAIN out'[d] : out'[d][i] < next_prepare_token'
  BY <1>b, <1>t DEF TaskInv
<1>4. \A i \in DOMAIN running'[d] :
       /\ running'[d][i].task \in OkTasks'
       /\ running'[d][i].task.token = active_prepare_token' =>
            running'[d][i].base = live'[d][active_layer_id']
  <2>1. \A i \in DOMAIN running[d] : running[d][i].task.token < next_prepare_token
    BY DEF TaskInv, OkTasks
  <2>2. \A i \in DOMAIN running[d] : running[d][i].task.token # next_prepare_token
    BY <2>1, <1>t
  <2>3. \A i \in DOMAIN running[d] :
          running[d][i].task \in OkTasks /\ (running[d][i].task.token = active_prepare_token =>
             running[d][i].base = live[d][active_layer_id])
    BY DEF TaskInv
  <2> HIDE DEF OkTasks
  <2> QED BY <1>b, <2>2, <2>3
<1> HIDE DEF OkTasks
<1> QED BY <1>1, <1>2, <1>3, <1>4 DEF TaskInv, Task

\* The new attempt is the only task with its token.
LEMMA DecodeTasks ==
  ASSUME TypeInv, MgrInv, MgrInv', DispatchDecode
  PROVE  LET info == GetEplbInfo
         IN /\ OkTasks \subseteq OkTasks'
            /\ IF info.prepare = None THEN info.token = None ELSE Task(info) \in OkTasks'
<1> DEFINE info == GetEplbInfo
<1>t. /\ next_prepare_token \in Nat
      /\ \A k \in TaskSet : k.layer # None /\ k.token # None /\ k.token \in Nat
      /\ expert_distribution \in [Layers -> Plans]
      /\ UNCHANGED <<expert_distribution, active_layer_id>>
  BY Consts DEF TypeInv, MgrType, TaskSet, DispatchDecode
<1>1. \A k \in TaskSet : k.layer # pending.layer /\ k.layer # awaiting.layer =>
                         k.layer # pending'.layer /\ k.layer # awaiting'.layer
  <2>1. CASE info.update = None
    BY <2>1, DecodeFacts
  <2>2. CASE info.update # None
    <3>1. awaiting' = pending /\ pending'.layer = None
      BY <2>2, DecodeFacts
    <3> QED BY <3>1, <1>t
  <2> QED BY <2>1, <2>2
<1>2. CASE info.prepare = None
  <2>1. info.token = None /\ UNCHANGED <<next_prepare_token, active_prepare_token>>
    BY <1>2, DecodeFacts
  <2> QED BY <1>1, <1>2, <2>1, <1>t DEF OkTasks
<1>3. CASE info.prepare # None
  <2>1. /\ info.prepare = active_layer_id /\ active_layer_id \in Layers
        /\ info.token = next_prepare_token /\ info.plan = expert_distribution[active_layer_id]
        /\ next_prepare_token' = next_prepare_token + 1
        /\ active_prepare_token' = next_prepare_token
    BY <1>3, DecodeFacts
  <2>2. OkTasks \subseteq OkTasks'
    BY <1>1, <2>1, <1>t DEF OkTasks
  <2>3. active_layer_id # pending'.layer /\ active_layer_id # awaiting'.layer
    <3>1. active_layer_id \in Int /\ active_layer_id' # None
      BY <2>1, <1>t, Consts
    <3>2. pending'.layer < active_layer_id /\ awaiting'.layer < active_layer_id
      BY <3>1, <1>t DEF MgrInv
    <3> QED BY <3>1, <3>2
  <2>4. Task(info) = [layer |-> active_layer_id, token |-> next_prepare_token,
                      plan |-> expert_distribution[active_layer_id]]
    BY <2>1 DEF Task
  <2>5. Task(info) \in TaskSet
    BY <2>1, <2>4, <1>t DEF TaskSet
  <2> HIDE DEF info
  <2>6. Task(info) \in OkTasks'
    BY <2>1, <2>3, <2>4, <2>5, <1>t DEF OkTasks
  <2> QED BY <1>3, <2>2, <2>6 DEF info
<1> QED BY <1>2, <1>3

\* The manager reads the workers' reports.
LEMMA TaskCollect ==
  ASSUME TypeInv, MgrInv, FlightInv, NEW d \in Devices, TaskInv(d), CollectPrepared
  PROVE  TaskInv(d)'
<1>a. Dropped(out[d], out'[d])
  BY CollectFacts
<1>b. /\ UNCHANGED <<chan, fwd, tasks, running, ready, live, active_prepare_token,
                     active_layer_id, next_prepare_token, pending, awaiting,
                     expert_distribution>>
      /\ prepared_tokens'[d] \in {active_prepare_token, prepared_tokens[d]}
  BY DEF CollectPrepared
<1>t. next_prepare_token \in Nat
  BY DEF TypeInv, MgrType
<1>1. active_prepare_token < next_prepare_token
  BY <1>t, Consts DEF MgrInv
<1>2. prepared_tokens'[d] < next_prepare_token
  BY <1>b, <1>1 DEF TaskInv
<1>3. \A i \in DOMAIN out'[d] : out'[d][i] < next_prepare_token
  BY <1>a, DroppedAt DEF TaskInv
<1>4. OkTasks' = OkTasks
  BY <1>b DEF OkTasks
<1>5. fwd'[d].deferred \in Seq(OkTasks') /\ tasks'[d] \in Seq(OkTasks')
  BY <1>b, <1>4 DEF TaskInv
<1> HIDE DEF OkTasks
<1>6. /\ \A m \in DOMAIN chan'[d] :
           IF chan'[d][m].prepare = None THEN chan'[d][m].token = None
           ELSE Task(chan'[d][m]) \in OkTasks'
      /\ \A i \in DOMAIN running'[d] :
           /\ running'[d][i].task \in OkTasks'
           /\ running'[d][i].task.token = active_prepare_token' =>
                running'[d][i].base = live'[d][active_layer_id']
      /\ ready'[d] < next_prepare_token'
  BY <1>b, <1>4 DEF TaskInv
<1> QED BY <1>b, <1>2, <1>3, <1>5, <1>6 DEF TaskInv, Task

\* A worker's own steps pass its tasks on.
LEMMA TaskStart ==
  ASSUME TypeInv, NEW d \in Devices, TaskInv(d), StartStep(d)
  PROVE  TaskInv(d)'
<1>0. /\ UNCHANGED <<running, ready, live, out, active_prepare_token, active_layer_id,
                     next_prepare_token, prepared_tokens, pending, awaiting,
                     expert_distribution>>
      /\ chan[d] # <<>>
  BY DEF StartStep, mgr
<1>1. OkTasks' = OkTasks
  BY <1>0 DEF OkTasks
<1> DEFINE info  == Head(chan[d])
           fresh == IF info.prepare = None THEN <<>> ELSE <<Task(info)>>
           more  == IF info.update # None THEN <<>> ELSE fresh
<1>2. chan[d] \in Seq(Infos) /\ fwd \in [Devices -> FwdSet] /\ chan \in [Devices -> Seq(Infos)]
      /\ tasks \in [Devices -> Seq(TaskSet)]
  BY DEF TypeInv, DevType
<1>3. /\ chan'[d] = Tail(chan[d]) /\ tasks'[d] = tasks[d] \o more
      /\ fwd'[d].deferred = IF info.update # None THEN fresh ELSE <<>>
  BY <1>2 DEF StartStep
<1>4. Dropped(chan[d], chan'[d]) /\ 1 \in DOMAIN chan[d] /\ info = chan[d][1]
  BY <1>0, <1>2, <1>3, TailFacts, DroppedAt DEF Dropped
<1> HIDE DEF OkTasks
<1>5. info.prepare # None => Task(info) \in OkTasks
  BY <1>4 DEF TaskInv
<1> HIDE DEF info
<1>6. fresh \in Seq(OkTasks) /\ <<>> \in Seq(OkTasks)
  BY <1>5
<1> HIDE DEF fresh
<1>7. more \in Seq(OkTasks) /\ tasks[d] \in Seq(OkTasks)
  BY <1>6 DEF TaskInv
<1> HIDE DEF more
<1>8. fwd'[d].deferred \in Seq(OkTasks') /\ tasks'[d] \in Seq(OkTasks')
  BY <1>1, <1>3, <1>6, <1>7
<1>9. \A m \in DOMAIN chan'[d] :
       IF chan'[d][m].prepare = None THEN chan'[d][m].token = None
       ELSE Task(chan'[d][m]) \in OkTasks'
  <2>1. \A m \in DOMAIN chan'[d] : m + 1 \in DOMAIN chan[d] /\ chan'[d][m] = chan[d][m + 1]
    BY <1>4, DroppedAt
  <2> QED BY <2>1, <1>1 DEF TaskInv
<1>10. /\ \A i \in DOMAIN running'[d] :
           /\ running'[d][i].task \in OkTasks'
           /\ running'[d][i].task.token = active_prepare_token' =>
                running'[d][i].base = live'[d][active_layer_id']
      /\ ready'[d] < next_prepare_token' /\ prepared_tokens'[d] < next_prepare_token'
      /\ \A i \in DOMAIN out'[d] : out'[d][i] < next_prepare_token'
  BY <1>0, <1>1 DEF TaskInv
<1> QED BY <1>8, <1>9, <1>10 DEF TaskInv, Task

LEMMA TaskFinish ==
  ASSUME TypeInv, MgrInv, FlightInv, NEW d \in Devices, StepInv(d), LiveInv(d), TaskInv(d),
         FinishStep(d)
  PROVE  TaskInv(d)'
<1>0. UNCHANGED <<chan, running, ready, out, active_prepare_token, active_layer_id,
                  next_prepare_token, prepared_tokens, pending, awaiting,
                  expert_distribution>>
  BY DEF FinishStep, mgr
<1>t. /\ live \in [Devices -> [Layers -> Plans]] /\ fwd \in [Devices -> FwdSet]
      /\ tasks \in [Devices -> Seq(TaskSet)] /\ expert_distribution \in [Layers -> Plans]
  BY DEF TypeInv, DevType, MgrType
<1>1. OkTasks' = OkTasks
  BY <1>0 DEF OkTasks
<1>2. tasks'[d] = tasks[d] \o fwd[d].deferred /\ fwd'[d].deferred = <<>>
  BY <1>t DEF FinishStep, Idle
<1>3. active_prepare_token # None => live'[d][active_layer_id] = live[d][active_layer_id]
  <2>1. CASE fwd[d].update = None
    BY <2>1 DEF FinishStep
  <2>2. CASE fwd[d].update # None
    <3>1. fwd[d].update = awaiting.layer /\ awaiting.layer \in Layers /\ ~Done(d)
      BY <2>2, ForwardUpdates DEF FinishStep
    <3>2. ASSUME active_prepare_token # None
          PROVE  active_layer_id \in Layers /\ active_layer_id # awaiting.layer
      <4>1. active_layer_id # None /\ awaiting.layer < active_layer_id
        BY <3>2 DEF MgrInv
      <4>2. active_layer_id \in LayerOrNone
        BY DEF TypeInv, MgrType
      <4> QED BY <4>1, <4>2, <3>1, Consts DEF LayerOrNone
    <3> DEFINE l == awaiting.layer
    <3>3. staged[d][l] = Proposed(d, l)
      BY <3>1, Consts DEF LiveInv
    <3>4. staged[d][l].plan = expert_distribution[l] /\ expert_distribution[l] \in Plans
      BY <3>1, <3>3, <1>t DEF Proposed
    <3>5. live' = live \/ live' = [live EXCEPT ![d][l] = expert_distribution[l]]
      BY <3>1, <3>4 DEF FinishStep
    <3> HIDE DEF l
    <3>6. \A k \in Layers : k # l => live'[d][k] = live[d][k]
      BY <3>1, <3>4, <3>5, <1>t, ExceptExcept DEF l
    <3> QED BY <3>2, <3>6 DEF l
  <2> QED BY <2>1, <2>2
<1>4. \A i \in DOMAIN running[d] : running[d][i].task.token # None
  BY Consts DEF TaskInv, OkTasks, TaskSet
<1> HIDE DEF OkTasks
<1>5. fwd'[d].deferred \in Seq(OkTasks') /\ tasks'[d] \in Seq(OkTasks')
  BY <1>1, <1>2 DEF TaskInv
<1>6. \A i \in DOMAIN running'[d] :
       /\ running'[d][i].task \in OkTasks'
       /\ running'[d][i].task.token = active_prepare_token' =>
            running'[d][i].base = live'[d][active_layer_id']
  BY <1>0, <1>1, <1>3, <1>4 DEF TaskInv
<1>7. /\ \A m \in DOMAIN chan'[d] :
          IF chan'[d][m].prepare = None THEN chan'[d][m].token = None
          ELSE Task(chan'[d][m]) \in OkTasks'
      /\ ready'[d] < next_prepare_token' /\ prepared_tokens'[d] < next_prepare_token'
      /\ \A i \in DOMAIN out'[d] : out'[d][i] < next_prepare_token'
  BY <1>0, <1>1 DEF TaskInv
<1> QED BY <1>5, <1>6, <1>7 DEF TaskInv, Task

LEMMA TaskRecord ==
  ASSUME TypeInv, NEW d \in Devices, TaskInv(d), RecordOutput(d)
  PROVE  TaskInv(d)'
<1>0. UNCHANGED <<chan, running, live, tasks, active_prepare_token, active_layer_id,
                  next_prepare_token, prepared_tokens, pending, awaiting,
                  expert_distribution>>
  BY DEF RecordOutput, mgr
<1>t. /\ fwd \in [Devices -> FwdSet] /\ out \in [Devices -> Seq(Token)]
      /\ ready \in [Devices -> Token] /\ next_prepare_token \in Nat
  BY DEF TypeInv, DevType, MgrType
<1>1. OkTasks' = OkTasks
  BY <1>0 DEF OkTasks
<1>2. /\ fwd'[d].deferred = <<>> /\ ready'[d] = None /\ out'[d] = Append(out[d], ready[d])
  BY <1>t DEF RecordOutput, Idle
<1>3. Appended(out[d], out'[d], ready[d])
  BY <1>2, <1>t, AppendFacts
<1>4. \A i \in DOMAIN out'[d] : out'[d][i] < next_prepare_token
  <2>1. \A i \in DOMAIN out'[d] : (i \in DOMAIN out[d] /\ out'[d][i] = out[d][i])
                                  \/ out'[d][i] = ready[d]
    BY <1>3 DEF Appended
  <2> QED BY <2>1 DEF TaskInv
<1>5. ready'[d] < next_prepare_token
  BY <1>2, <1>t, Consts
<1> HIDE DEF OkTasks
<1>6. fwd'[d].deferred \in Seq(OkTasks') /\ tasks'[d] \in Seq(OkTasks')
  BY <1>0, <1>1, <1>2 DEF TaskInv
<1>7. /\ \A m \in DOMAIN chan'[d] :
          IF chan'[d][m].prepare = None THEN chan'[d][m].token = None
          ELSE Task(chan'[d][m]) \in OkTasks'
      /\ \A i \in DOMAIN running'[d] :
           /\ running'[d][i].task \in OkTasks'
           /\ running'[d][i].task.token = active_prepare_token' =>
                running'[d][i].base = live'[d][active_layer_id']
      /\ prepared_tokens'[d] < next_prepare_token'
  BY <1>0, <1>1 DEF TaskInv
<1> QED BY <1>0, <1>4, <1>5, <1>6, <1>7 DEF TaskInv, Task

LEMMA TaskPrepare ==
  ASSUME TypeInv, NEW d \in Devices, TaskInv(d),
         BeginPrepare(d) \/ \E ok \in BOOLEAN : EndPrepare(d, ok)
  PROVE  TaskInv(d)'
<1>0. UNCHANGED <<chan, fwd, live, out, active_prepare_token, active_layer_id,
                  next_prepare_token, prepared_tokens, pending, awaiting,
                  expert_distribution>>
  BY DEF BeginPrepare, EndPrepare, mgr
<1>t. /\ running \in [Devices -> Seq(RunSet)] /\ tasks \in [Devices -> Seq(TaskSet)]
      /\ ready \in [Devices -> Token]
  BY DEF TypeInv, DevType
<1>1. OkTasks' = OkTasks
  BY <1>0 DEF OkTasks
<1>2. /\ tasks'[d] \in Seq(OkTasks) /\ ready'[d] < next_prepare_token
      /\ \A i \in DOMAIN running'[d] :
           /\ running'[d][i].task \in OkTasks
           /\ running'[d][i].task.token = active_prepare_token =>
                running'[d][i].base = live[d][active_layer_id]
  <2>1. CASE BeginPrepare(d)
    <3> DEFINE t == Head(tasks[d])
    <3>1. /\ tasks'[d] = Tail(tasks[d]) /\ ready' = ready /\ tasks[d] # <<>>
          /\ running'[d] = <<[task |-> t, base |-> live[d][t.layer]]>>
      BY <2>1, <1>t DEF BeginPrepare
    <3>2. t \in OkTasks /\ tasks'[d] \in Seq(OkTasks)
      <4> HIDE DEF OkTasks
      <4> QED BY <3>1, HeadTailProperties DEF TaskInv
    <3>3. t.token = active_prepare_token => t.layer = active_layer_id
      BY <3>2 DEF OkTasks
    <3> HIDE DEF t, OkTasks
    <3>4. \A i \in DOMAIN running'[d] :
             running'[d][i] = [task |-> t, base |-> live[d][t.layer]]
      BY <3>1
    <3>5. \A i \in DOMAIN running'[d] :
             running'[d][i].task = t /\ running'[d][i].base = live[d][t.layer]
      BY <3>4
    <3> QED BY <3>1, <3>2, <3>3, <3>5 DEF TaskInv
  <2>2. CASE \E ok \in BOOLEAN : EndPrepare(d, ok)
    <3>1. /\ tasks' = tasks /\ running[d] # <<>> /\ running'[d] = <<>>
          /\ ready'[d] \in {ready[d], Head(running[d]).task.token}
      BY <2>2, <1>t DEF EndPrepare
    <3>2. 1 \in DOMAIN running[d] /\ Head(running[d]) = running[d][1]
      BY <3>1, <1>t
    <3>3. Head(running[d]).task \in OkTasks
      BY <3>2 DEF TaskInv
    <3>4. Head(running[d]).task.token < next_prepare_token
      BY <3>3 DEF OkTasks
    <3> HIDE DEF OkTasks
    <3> QED BY <3>1, <3>4 DEF TaskInv
  <2> QED BY <2>1, <2>2
<1> HIDE DEF OkTasks
<1>3. /\ \A m \in DOMAIN chan'[d] :
          IF chan'[d][m].prepare = None THEN chan'[d][m].token = None
          ELSE Task(chan'[d][m]) \in OkTasks'
      /\ prepared_tokens'[d] < next_prepare_token' /\ fwd'[d].deferred \in Seq(OkTasks')
      /\ \A i \in DOMAIN out'[d] : out'[d][i] < next_prepare_token'
  BY <1>0, <1>1 DEF TaskInv
<1> QED BY <1>0, <1>1, <1>2, <1>3 DEF TaskInv, Task

----------------------------------------------------------------------------
(* The current attempt is a worker's last task *)

LEMMA LastFrame ==
  ASSUME NEW d \in Devices, LastInv(d),
         active_prepare_token' # None =>
           /\ UNCHANGED <<active_prepare_token, active_layer_id, expert_distribution>>
           /\ Reported(d)' => Reported(d),
         chan'[d] = chan[d], fwd'[d].deferred = fwd[d].deferred, tasks'[d] = tasks[d],
         running'[d] = running[d], staged'[d] = staged[d], live'[d] = live[d]
  PROVE  LastInv(d)'
<1>1. Len(fwd'[d].deferred) <= 1 /\ Len(running'[d]) <= 1
  BY DEF LastInv
<1>2. CASE active_prepare_token' = None
  BY <1>1, <1>2 DEF LastInv
<1>3. CASE active_prepare_token' # None
  <2>1. NoPrep(d)' <=> NoPrep(d)
    BY DEF NoPrep
  <2>2. Proposed(d, active_layer_id)' = Proposed(d, active_layer_id)
    BY <1>3 DEF Proposed
  <2> QED BY <1>1, <1>3, <2>1, <2>2 DEF LastInv
<1> QED BY <1>2, <1>3

LEMMA LastSend ==
  ASSUME TypeInv, NEW d \in Devices, TaskInv(d), LastInv(d),
         NEW info \in Infos, NEW warm \in BOOLEAN, Send(info, warm),
         UNCHANGED <<active_layer_id, expert_distribution, prepared_tokens>>,
         \/ info.prepare = None /\ info.token = None /\ active_prepare_token' = active_prepare_token
         \/ info.prepare # None /\ active_prepare_token' = next_prepare_token
  PROVE  LastInv(d)'
<1>a. Appended(chan[d], chan'[d], info)
  BY SendFacts
<1>b. UNCHANGED <<fwd, tasks, running, ready, staged, live, out>>
  BY DEF Send
<1>c. /\ \A m \in DOMAIN chan'[d] :
            \/ m \in DOMAIN chan[d] /\ chan'[d][m] = chan[d][m]
            \/ m = Len(chan[d]) + 1 /\ chan'[d][m] = info
      /\ \A m \in DOMAIN chan'[d] : m \in Nat /\ m <= Len(chan[d]) + 1
      /\ Len(chan[d]) \in Nat
  BY <1>a DEF Appended
<1>d. Len(fwd'[d].deferred) <= 1 /\ Len(running'[d]) <= 1
  BY <1>b DEF LastInv
<1>1. CASE info.prepare = None /\ info.token = None /\ active_prepare_token' = active_prepare_token
  <2>1. NoPrep(d) => NoPrep(d)'
    BY <1>1, <1>c DEF NoPrep
  <2>2. Reported(d)' <=> Reported(d)
    BY <1>b, <1>1 DEF Reported
  <2>3. Proposed(d, active_layer_id)' = Proposed(d, active_layer_id)
    BY <1>b DEF Proposed
  <2>4. ASSUME active_prepare_token # None,
               NEW m \in DOMAIN chan'[d], NEW n \in DOMAIN chan'[d],
               chan'[d][m].token = active_prepare_token, m < n
        PROVE  chan'[d][n].prepare = None
    <3>1. m \in DOMAIN chan[d] /\ chan'[d][m] = chan[d][m]
      BY <2>4, <1>1, <1>c
    <3>2. CASE chan'[d][n] = info
      BY <3>2, <1>1
    <3>3. CASE n \in DOMAIN chan[d] /\ chan'[d][n] = chan[d][n]
      BY <2>4, <3>1, <3>3 DEF LastInv
    <3> QED BY <1>c, <3>2, <3>3
  <2> QED BY <1>1, <1>b, <1>d, <2>1, <2>2, <2>3, <2>4 DEF LastInv
<1>2. CASE info.prepare # None /\ active_prepare_token' = next_prepare_token
  <2> DEFINE A == next_prepare_token
  <2>0. A \in Nat /\ A # None /\ ~(A < A) /\ active_prepare_token' = A
    BY <1>2, Consts DEF TypeInv, MgrType
  <2>1. \A k \in OkTasks : k.token # A
    BY <2>0 DEF OkTasks
  <2> HIDE DEF OkTasks
  <2>2. \A m \in DOMAIN chan[d] : chan[d][m].token # A
    BY <2>0, <2>1 DEF TaskInv, Task
  <2>3. /\ \A i \in DOMAIN fwd[d].deferred : fwd[d].deferred[i].token # A
        /\ \A i \in DOMAIN tasks[d] : tasks[d][i].token # A
        /\ \A i \in DOMAIN running[d] : running[d][i].task.token # A
    <3>1. /\ \A i \in DOMAIN fwd[d].deferred : fwd[d].deferred[i] \in OkTasks
          /\ \A i \in DOMAIN tasks[d] : tasks[d][i] \in OkTasks
          /\ \A i \in DOMAIN running[d] : running[d][i].task \in OkTasks
      BY DEF TaskInv
    <3> QED BY <3>1, <2>1
  <2>4. ~Reported(d)'
    <3>1. ready[d] # A /\ prepared_tokens[d] # A /\ \A i \in DOMAIN out[d] : out[d][i] # A
      BY <2>0 DEF TaskInv
    <3> QED BY <3>1, <2>0, <1>b DEF Reported
  <2>5. ASSUME NEW m \in DOMAIN chan'[d], NEW n \in DOMAIN chan'[d],
               chan'[d][m].token = A, m < n
        PROVE  FALSE
    BY <2>2, <2>5, <1>c
  <2> HIDE DEF A
  <2> QED BY <1>b, <1>d, <2>0, <2>3, <2>4, <2>5 DEF LastInv
<1> QED BY <1>1, <1>2

\* A worker that starts a step queues its task, or keeps it until the step's
\* transfer is over.
LEMMA LastStart ==
  ASSUME TypeInv, NEW d \in Devices, StepInv(d), TaskInv(d), LastInv(d), StartStep(d)
  PROVE  LastInv(d)'
<1>0. /\ UNCHANGED <<running, ready, staged, live, out, active_prepare_token, active_layer_id,
                     prepared_tokens, expert_distribution>>
      /\ chan[d] # <<>> /\ fwd[d].deferred = <<>>
  BY DEF StartStep, mgr, StepInv
<1> DEFINE info  == Head(chan[d])
           fresh == IF info.prepare = None THEN <<>> ELSE <<Task(info)>>
           more  == IF info.update # None THEN <<>> ELSE fresh
           defd  == IF info.update # None THEN fresh ELSE <<>>
<1>2. chan[d] \in Seq(Infos) /\ fwd \in [Devices -> FwdSet] /\ chan \in [Devices -> Seq(Infos)]
      /\ tasks \in [Devices -> Seq(TaskSet)]
  BY DEF TypeInv, DevType
<1>3. /\ chan'[d] = Tail(chan[d]) /\ tasks'[d] = tasks[d] \o more
      /\ fwd'[d].deferred = defd
  BY <1>2 DEF StartStep
<1>4. Dropped(chan[d], chan'[d]) /\ 1 \in DOMAIN chan[d] /\ info = chan[d][1]
  BY <1>0, <1>2, <1>3, TailFacts, DroppedAt DEF Dropped
<1>5. \A m \in DOMAIN chan'[d] : /\ m \in Nat /\ m + 1 \in DOMAIN chan[d] /\ 1 < m + 1
                                 /\ chan'[d][m] = chan[d][m + 1]
  BY <1>4, DroppedAt DEF Dropped
<1>6. NoPrep(d) => NoPrep(d)' /\ fresh = <<>>
  BY <1>4, <1>5 DEF NoPrep
<1>7. active_prepare_token # None /\ info.token = active_prepare_token => NoPrep(d)'
  BY <1>4, <1>5 DEF LastInv, NoPrep
<1>8. info.prepare # None => Task(info) \in TaskSet /\ Task(info).token = info.token
  <2> HIDE DEF info
  <2> QED BY <1>4 DEF TaskInv, OkTasks, Task
<1>9. \/ fresh = <<>>
      \/ info.prepare # None /\ fresh = <<Task(info)>> /\ Task(info) \in TaskSet
  BY <1>8
<1> HIDE DEF info, fresh
<1>10. /\ Len(defd) <= 1
       /\ \A i \in DOMAIN defd : i = 1 /\ defd[i] = Task(info) /\ fresh # <<>>
       /\ fresh = <<>> => defd = <<>> /\ more = <<>>
       /\ more # <<>> => defd = <<>> /\ more = <<Task(info)>>
  <2>1. CASE fresh = <<>>
    <3>1. defd = <<>> /\ more = <<>>
      BY <2>1
    <3> HIDE DEF defd, more
    <3> QED BY <2>1, <3>1
  <2>2. CASE fresh # <<>>
    <3>1. fresh = <<Task(info)>>
      BY <2>2, <1>9
    <3>2. Len(fresh) = 1 /\ \A i \in DOMAIN fresh : i = 1 /\ fresh[i] = Task(info)
      BY <3>1
    <3>3. \/ defd = fresh /\ more = <<>>
          \/ defd = <<>> /\ more = fresh
      OBVIOUS
    <3> HIDE DEF defd, more
    <3>4. CASE defd = fresh /\ more = <<>>
      <4>1. Len(defd) <= 1
        <5>1. Len(defd) = 1
          BY <3>2, <3>4, Zenon
        <5> QED BY <5>1
      <4>2. \A i \in DOMAIN defd : i = 1 /\ defd[i] = Task(info) /\ fresh # <<>>
        BY <2>2, <3>2, <3>4
      <4> QED BY <2>2, <3>4, <4>1, <4>2
    <3>5. CASE defd = <<>> /\ more = fresh
      BY <2>2, <3>1, <3>5
    <3> QED BY <3>3, <3>4, <3>5
  <2> QED BY <2>1, <2>2
<1> HIDE DEF more, defd
<1>11. \/ tasks'[d] = tasks[d]
       \/ Appended(tasks[d], tasks'[d], Task(info)) /\ fresh # <<>> /\ defd = <<>>
  <2>1. CASE more = <<>>
    BY <2>1, <1>2, <1>3
  <2>2. CASE more # <<>>
    <3>1. Task(info) \in TaskSet /\ fresh # <<>>
      BY <2>2, <1>9, <1>10
    <3>2. more = <<Task(info)>> /\ tasks[d] \in Seq(TaskSet) /\ <<Task(info)>> \in Seq(TaskSet)
          /\ Len(<<Task(info)>>) <= 1 /\ <<Task(info)>>[1] = Task(info)
          /\ <<Task(info)>> # <<>>
      BY <2>2, <1>10, <1>2, <3>1
    <3>3. Appended(tasks[d], tasks[d] \o <<Task(info)>>, Task(info))
      BY <3>2, ConcatOne
    <3> QED BY <1>3, <1>10, <2>2, <3>1, <3>2, <3>3
  <2> QED BY <2>1, <2>2
<1>12. Reported(d)' <=> Reported(d)
  BY <1>0 DEF Reported
<1>13. Proposed(d, active_layer_id)' = Proposed(d, active_layer_id)
  BY <1>0 DEF Proposed
<1>14. Task(info).token = info.token
  BY DEF Task
<1> DEFINE A == active_prepare_token
<1>15. ASSUME A # None
       PROVE  /\ \A m, n \in DOMAIN chan'[d] :
                   chan'[d][m].token = A /\ m < n => chan'[d][n].prepare = None
              /\ (\E i \in DOMAIN fwd'[d].deferred : fwd'[d].deferred[i].token = A) => NoPrep(d)'
              /\ \A i \in DOMAIN tasks'[d] :
                    tasks'[d][i].token = A =>
                      i = Len(tasks'[d]) /\ fwd'[d].deferred = <<>> /\ NoPrep(d)'
              /\ (\E i \in DOMAIN running'[d] : running'[d][i].task.token = A) =>
                    tasks'[d] = <<>> /\ fwd'[d].deferred = <<>> /\ NoPrep(d)'
              /\ Reported(d)' =>
                    /\ running'[d] = <<>> /\ tasks'[d] = <<>> /\ fwd'[d].deferred = <<>>
                    /\ NoPrep(d)'
                    /\ staged'[d][active_layer_id] = Proposed(d, active_layer_id)'
  <2>1. \A m, n \in DOMAIN chan'[d] :
           chan'[d][m].token = A /\ m < n => chan'[d][n].prepare = None
    <3>1. ASSUME NEW m \in DOMAIN chan'[d], NEW n \in DOMAIN chan'[d],
                 chan'[d][m].token = A, m < n
          PROVE  chan'[d][n].prepare = None
      <4>1. m + 1 \in DOMAIN chan[d] /\ n + 1 \in DOMAIN chan[d] /\ m + 1 < n + 1
            /\ chan'[d][m] = chan[d][m + 1] /\ chan'[d][n] = chan[d][n + 1]
        BY <3>1, <1>5
      <4> QED BY <4>1, <3>1, <1>15 DEF LastInv
    <3> QED BY <3>1
  <2>2. (\E i \in DOMAIN fwd'[d].deferred : fwd'[d].deferred[i].token = A) => NoPrep(d)'
    BY <1>3, <1>7, <1>10, <1>14, <1>15
  <2>3. ASSUME NEW i \in DOMAIN tasks'[d], tasks'[d][i].token = A
        PROVE  i = Len(tasks'[d]) /\ fwd'[d].deferred = <<>> /\ NoPrep(d)'
    <3>1. CASE i \in DOMAIN tasks[d] /\ tasks'[d][i] = tasks[d][i]
      <4>1. i = Len(tasks[d]) /\ NoPrep(d)
        BY <3>1, <2>3, <1>15 DEF LastInv
      <4>2. fresh = <<>> /\ NoPrep(d)' /\ defd = <<>> /\ tasks'[d] = tasks[d]
        BY <4>1, <1>6, <1>10, <1>11
      <4> QED BY <4>1, <4>2, <1>3
    <3>2. CASE ~(i \in DOMAIN tasks[d] /\ tasks'[d][i] = tasks[d][i])
      <4>1. Appended(tasks[d], tasks'[d], Task(info)) /\ defd = <<>>
        BY <3>2, <1>11
      <4>2. i = Len(tasks'[d]) /\ tasks'[d][i] = Task(info)
        BY <3>2, <4>1 DEF Appended
      <4> QED BY <4>1, <4>2, <2>3, <1>3, <1>7, <1>14, <1>15
    <3> QED BY <3>1, <3>2
  <2>4. (\E i \in DOMAIN running'[d] : running'[d][i].task.token = A) =>
                    tasks'[d] = <<>> /\ fwd'[d].deferred = <<>> /\ NoPrep(d)'
    <3>1. (\E i \in DOMAIN running[d] : running[d][i].task.token = A) => tasks[d] = <<>> /\ NoPrep(d)
      BY <1>15 DEF LastInv
    <3> QED BY <3>1, <1>0, <1>3, <1>6, <1>10, <1>11
  <2>5. Reported(d)' =>
                    /\ running'[d] = <<>> /\ tasks'[d] = <<>> /\ fwd'[d].deferred = <<>>
                    /\ NoPrep(d)'
                    /\ staged'[d][active_layer_id] = Proposed(d, active_layer_id)'
    <3>1. Reported(d) => /\ running[d] = <<>> /\ tasks[d] = <<>> /\ NoPrep(d)
                         /\ staged[d][active_layer_id] = Proposed(d, active_layer_id)
      BY <1>15 DEF LastInv
    <3> QED BY <3>1, <1>0, <1>3, <1>6, <1>10, <1>11, <1>12, <1>13
  <2> QED BY <2>1, <2>2, <2>3, <2>4, <2>5
<1>16. Len(fwd'[d].deferred) <= 1 /\ Len(running'[d]) <= 1
  BY <1>0, <1>3, <1>10 DEF LastInv
<1> QED BY <1>0, <1>15, <1>16 DEF LastInv

\* A transfer touches the layer that is being activated, not the active one.
LEMMA FinishElsewhere ==
  ASSUME TypeInv, MgrInv, FlightInv, NEW d \in Devices, StepInv(d), LiveInv(d), FinishStep(d),
         active_prepare_token # None
  PROVE  /\ live'[d][active_layer_id] = live[d][active_layer_id]
         /\ staged'[d][active_layer_id] = staged[d][active_layer_id]
<1>t. /\ live \in [Devices -> [Layers -> Plans]] /\ expert_distribution \in [Layers -> Plans]
      /\ staged \in [Devices -> [Layers -> StagedSet]] /\ NoPlan \in StagedSet
  BY DEF TypeInv, DevType, MgrType, StagedSet
<1>1. CASE fwd[d].update = None
  BY <1>1 DEF FinishStep
<1>2. CASE fwd[d].update # None
  <2>1. fwd[d].update = awaiting.layer /\ awaiting.layer \in Layers /\ ~Done(d)
    BY <1>2, ForwardUpdates DEF FinishStep
  <2>2. active_layer_id \in Layers /\ active_layer_id # awaiting.layer
    <3>1. active_layer_id # None /\ awaiting.layer < active_layer_id
      BY DEF MgrInv
    <3>2. active_layer_id \in LayerOrNone
      BY DEF TypeInv, MgrType
    <3> QED BY <3>1, <3>2, <2>1, Consts DEF LayerOrNone
  <2> DEFINE l == awaiting.layer
  <2>3. staged[d][l] = Proposed(d, l)
    BY <2>1, Consts DEF LiveInv
  <2>4. staged[d][l].plan = expert_distribution[l] /\ expert_distribution[l] \in Plans
    BY <2>1, <2>3, <1>t DEF Proposed
  <2>5. /\ live' = live \/ live' = [live EXCEPT ![d][l] = expert_distribution[l]]
        /\ staged' = staged \/ staged' = [staged EXCEPT ![d][l] = NoPlan]
    BY <2>1, <2>4 DEF FinishStep
  <2> HIDE DEF l
  <2>6. \A k \in Layers : k # l => live'[d][k] = live[d][k]
    BY <2>1, <2>4, <2>5, <1>t, ExceptExcept DEF l
  <2>7. \A k \in Layers : k # l => staged'[d][k] = staged[d][k]
    BY <2>1, <2>4, <2>5, <1>t, ExceptExcept DEF l
  <2> QED BY <2>2, <2>6, <2>7 DEF l
<1> QED BY <1>1, <1>2

LEMMA LastFinish ==
  ASSUME TypeInv, MgrInv, FlightInv, NEW d \in Devices, StepInv(d), LiveInv(d), LastInv(d),
         FinishStep(d)
  PROVE  LastInv(d)'
<1>0. UNCHANGED <<chan, running, ready, out, active_prepare_token, active_layer_id,
                  prepared_tokens, expert_distribution>>
  BY DEF FinishStep, mgr
<1>t. /\ fwd \in [Devices -> FwdSet] /\ tasks \in [Devices -> Seq(TaskSet)]
      /\ fwd[d].deferred \in Seq(TaskSet)
  BY DEF TypeInv, DevType, FwdSet
<1>2. tasks'[d] = tasks[d] \o fwd[d].deferred /\ fwd'[d].deferred = <<>>
  BY <1>t DEF FinishStep, Idle
<1> DEFINE q == fwd[d].deferred
<1>3. \/ q = <<>> /\ tasks'[d] = tasks[d]
      \/ Len(q) = 1 /\ q # <<>> /\ Appended(tasks[d], tasks'[d], q[1])
  <2>1. Len(q) <= 1
    BY DEF LastInv
  <2>2. \/ q = <<>> /\ tasks[d] \o q = tasks[d]
        \/ Len(q) = 1 /\ q[1] \in TaskSet /\ Appended(tasks[d], tasks[d] \o q, q[1])
    <3> HIDE DEF q
    <3> QED BY <1>t, <2>1, ConcatOne DEF q
  <2>3. Len(q) = 1 => q # <<>>
    OBVIOUS
  <2> QED BY <1>2, <2>2, <2>3
<1>4. NoPrep(d)' <=> NoPrep(d)
  BY <1>0 DEF NoPrep
<1>5. Reported(d)' <=> Reported(d)
  BY <1>0 DEF Reported
<1>6. active_prepare_token # None =>
        /\ Proposed(d, active_layer_id)' = Proposed(d, active_layer_id)
        /\ staged'[d][active_layer_id] = staged[d][active_layer_id]
  BY <1>0, FinishElsewhere DEF Proposed
<1> DEFINE A == active_prepare_token
<1>7. ASSUME A # None, NEW i \in DOMAIN tasks'[d], tasks'[d][i].token = A
      PROVE  i = Len(tasks'[d]) /\ NoPrep(d)
  <2>1. CASE i \in DOMAIN tasks[d] /\ tasks'[d][i] = tasks[d][i]
    <3>1. i = Len(tasks[d]) /\ q = <<>> /\ NoPrep(d)
      BY <2>1, <1>7 DEF LastInv
    <3> QED BY <3>1, <1>3
  <2>2. CASE ~(i \in DOMAIN tasks[d] /\ tasks'[d][i] = tasks[d][i])
    <3>1. Len(q) = 1 /\ Appended(tasks[d], tasks'[d], q[1])
      BY <2>2, <1>3
    <3>2. i = Len(tasks'[d]) /\ tasks'[d][i] = q[1]
      BY <2>2, <3>1 DEF Appended
    <3>3. 1 \in DOMAIN q
      BY <3>1, <1>t
    <3> QED BY <3>2, <3>3, <1>7 DEF LastInv
  <2> QED BY <2>1, <2>2
<1>8. ASSUME A # None,
             Reported(d) \/ \E i \in DOMAIN running[d] : running[d][i].task.token = A
      PROVE  tasks'[d] = <<>> /\ NoPrep(d)
  <2>1. tasks[d] = <<>> /\ q = <<>> /\ NoPrep(d)
    BY <1>8 DEF LastInv
  <2> QED BY <2>1, <1>3
<1> HIDE DEF q
<1>9. Len(fwd'[d].deferred) <= 1 /\ Len(running'[d]) <= 1
  BY <1>0, <1>2 DEF LastInv
<1>10. \A i \in DOMAIN fwd'[d].deferred : FALSE
  BY <1>2
<1>11. ASSUME A # None PROVE \A m, n \in DOMAIN chan'[d] :
                   chan'[d][m].token = A /\ m < n => chan'[d][n].prepare = None
  BY <1>0, <1>11 DEF LastInv
<1>12. A # None /\ Reported(d) => running[d] = <<>>
                                  /\ staged[d][active_layer_id] = Proposed(d, active_layer_id)
  BY DEF LastInv
<1> QED BY <1>0, <1>2, <1>4, <1>5, <1>6, <1>7, <1>8, <1>9, <1>10, <1>11, <1>12 DEF LastInv

LEMMA LastRecord ==
  ASSUME TypeInv, NEW d \in Devices, StepInv(d), LastInv(d), RecordOutput(d)
  PROVE  LastInv(d)'
<1>0. UNCHANGED <<chan, running, live, staged, tasks, active_prepare_token, active_layer_id,
                  prepared_tokens, expert_distribution>>
  BY DEF RecordOutput, mgr
<1>t. /\ fwd \in [Devices -> FwdSet] /\ out \in [Devices -> Seq(Token)]
      /\ ready \in [Devices -> Token]
  BY DEF TypeInv, DevType
<1>2. /\ fwd'[d].deferred = fwd[d].deferred
      /\ ready'[d] = None /\ out'[d] = Append(out[d], ready[d])
  BY <1>t DEF RecordOutput, Idle, StepInv
<1>3. Appended(out[d], out'[d], ready[d])
  BY <1>2, <1>t, AppendFacts
<1>4. \A i \in DOMAIN out'[d] : (i \in DOMAIN out[d] /\ out'[d][i] = out[d][i])
                                \/ out'[d][i] = ready[d]
  BY <1>3 DEF Appended
<1>5. active_prepare_token # None => (Reported(d)' => Reported(d))
  BY <1>0, <1>2, <1>4 DEF Reported
<1> QED BY <1>0, <1>2, <1>5, LastFrame

LEMMA LastBegin ==
  ASSUME TypeInv, NEW d \in Devices, LastInv(d), BeginPrepare(d)
  PROVE  LastInv(d)'
<1>0. /\ UNCHANGED <<chan, fwd, ready, live, out, active_prepare_token, active_layer_id,
                     prepared_tokens, expert_distribution>>
      /\ tasks[d] # <<>>
  BY DEF BeginPrepare, mgr
<1>t. running \in [Devices -> Seq(RunSet)] /\ tasks \in [Devices -> Seq(TaskSet)]
  BY DEF TypeInv, DevType
<1> DEFINE t == Head(tasks[d])
<1>1. /\ tasks'[d] = Tail(tasks[d])
      /\ running'[d] = <<[task |-> t, base |-> live[d][t.layer]]>>
  BY <1>t DEF BeginPrepare
<1>2. Dropped(tasks[d], tasks'[d]) /\ tasks'[d] \in Seq(TaskSet)
  BY <1>0, <1>1, <1>t, TailFacts, HeadTailProperties
<1>3. t = tasks[d][1] /\ 1 \in DOMAIN tasks[d]
  BY <1>2, DroppedAt DEF Dropped
<1> HIDE DEF t
<1>4. Len(running'[d]) <= 1 /\ \A i \in DOMAIN running'[d] : running'[d][i].task = t
  BY <1>1
<1>5. NoPrep(d)' <=> NoPrep(d)
  BY <1>0 DEF NoPrep
<1>6. Reported(d)' <=> Reported(d)
  BY <1>0 DEF Reported
<1> DEFINE A == active_prepare_token
<1>7. A # None => ~Reported(d)
  BY <1>0 DEF LastInv
<1>8. ASSUME A # None, NEW i \in DOMAIN tasks'[d], tasks'[d][i].token = A
      PROVE  i = Len(tasks'[d]) /\ fwd[d].deferred = <<>> /\ NoPrep(d)
  <2>1. i \in Nat /\ i + 1 \in DOMAIN tasks[d] /\ tasks'[d][i] = tasks[d][i + 1]
    BY <1>2, DroppedAt
  <2>2. i + 1 = Len(tasks[d]) /\ fwd[d].deferred = <<>> /\ NoPrep(d)
    BY <2>1, <1>8 DEF LastInv
  <2>3. Len(tasks'[d]) = Len(tasks[d]) - 1 /\ Len(tasks[d]) \in Nat
    BY <1>2 DEF Dropped
  <2> QED BY <2>1, <2>2, <2>3
<1>9. ASSUME A # None, t.token = A
      PROVE  tasks'[d] = <<>> /\ fwd[d].deferred = <<>> /\ NoPrep(d)
  <2>1. Len(tasks[d]) = 1 /\ fwd[d].deferred = <<>> /\ NoPrep(d)
    BY <1>3, <1>9 DEF LastInv
  <2>2. Len(tasks'[d]) = 0
    BY <2>1, <1>2 DEF Dropped
  <2> QED BY <2>1, <2>2, <1>2, EmptySeq
<1>10. ASSUME A # None
       PROVE  /\ \A m, n \in DOMAIN chan'[d] :
                   chan'[d][m].token = A /\ m < n => chan'[d][n].prepare = None
              /\ (\E i \in DOMAIN fwd'[d].deferred : fwd'[d].deferred[i].token = A) => NoPrep(d)'
  BY <1>0, <1>5, <1>10 DEF LastInv
<1>11. Len(fwd'[d].deferred) <= 1
  BY <1>0 DEF LastInv
<1> QED BY <1>0, <1>4, <1>5, <1>6, <1>7, <1>8, <1>9, <1>10, <1>11 DEF LastInv

LEMMA LastEnd ==
  ASSUME TypeInv, MgrInv, NEW d \in Devices, TaskInv(d), LastInv(d), NEW ok \in BOOLEAN,
         EndPrepare(d, ok)
  PROVE  LastInv(d)'
<1>0. /\ UNCHANGED <<chan, fwd, tasks, live, out, active_prepare_token, active_layer_id,
                     prepared_tokens, expert_distribution>>
      /\ running[d] # <<>>
  BY DEF EndPrepare, mgr
<1>t. /\ running \in [Devices -> Seq(RunSet)] /\ ready \in [Devices -> Token]
      /\ staged \in [Devices -> [Layers -> StagedSet]]
  BY DEF TypeInv, DevType
<1> DEFINE r == running[d][1]
           l == r.task.layer
           v == [plan |-> r.task.plan, base |-> r.base]
           A == active_prepare_token
<1>1. 1 \in DOMAIN running[d] /\ Head(running[d]) = r /\ r \in RunSet
  BY <1>0, <1>t
<1>2. running'[d] = <<>>
  BY <1>t DEF EndPrepare
<1>3. \/ ready' = ready
      \/ ready'[d] = r.task.token /\ staged' = [staged EXCEPT ![d][l] = v]
  BY <1>1, <1>t DEF EndPrepare
<1>4. r.task \in OkTasks /\ (r.task.token = A => r.base = live[d][active_layer_id])
  BY <1>1 DEF TaskInv
<1>5. NoPrep(d)' <=> NoPrep(d)
  BY <1>0 DEF NoPrep
<1>6. A # None => ~Reported(d)
  BY <1>0 DEF LastInv
<1>7. ASSUME A # None, Reported(d)'
      PROVE  /\ tasks[d] = <<>> /\ fwd[d].deferred = <<>> /\ NoPrep(d)
             /\ staged'[d][active_layer_id] = Proposed(d, active_layer_id)
  <2>1. ready'[d] = r.task.token /\ r.task.token = A /\ staged' = [staged EXCEPT ![d][l] = v]
    BY <1>0, <1>3, <1>6, <1>7 DEF Reported
  <2>2. tasks[d] = <<>> /\ fwd[d].deferred = <<>> /\ NoPrep(d)
    BY <2>1, <1>1, <1>7 DEF LastInv
  <2>3. l = active_layer_id /\ r.task.plan = expert_distribution[active_layer_id] /\ l \in Layers
    BY <2>1, <1>4 DEF OkTasks, TaskSet
  <2>4. v = Proposed(d, active_layer_id)
    BY <2>1, <2>3, <1>4 DEF Proposed
  <2>5. v \in StagedSet
    BY <1>1 DEF StagedSet, RunSet, TaskSet
  <2> HIDE DEF l, v
  <2>6. staged'[d][l] = v
    BY <2>1, <2>3, <2>5, <1>t, ExceptExcept
  <2> QED BY <2>2, <2>3, <2>4, <2>6
<1>8. Proposed(d, active_layer_id)' = Proposed(d, active_layer_id)
  BY <1>0 DEF Proposed
<1>9. ASSUME A # None
      PROVE  /\ \A m, n \in DOMAIN chan'[d] :
                   chan'[d][m].token = A /\ m < n => chan'[d][n].prepare = None
             /\ (\E i \in DOMAIN fwd'[d].deferred : fwd'[d].deferred[i].token = A) => NoPrep(d)'
             /\ \A i \in DOMAIN tasks'[d] :
                    tasks'[d][i].token = A =>
                      i = Len(tasks'[d]) /\ fwd'[d].deferred = <<>> /\ NoPrep(d)'
  BY <1>0, <1>5, <1>9 DEF LastInv
<1>10. Len(fwd'[d].deferred) <= 1 /\ Len(running'[d]) <= 1
  BY <1>0, <1>2 DEF LastInv
<1>11. \A i \in DOMAIN running'[d] : FALSE
  BY <1>2
<1> HIDE DEF r, v, l
<1> QED BY <1>0, <1>2, <1>5, <1>7, <1>8, <1>9, <1>10, <1>11 DEF LastInv

----------------------------------------------------------------------------
(* The invariant *)

LEMMA TypeNext ==
  ASSUME IInv, [Next]_vars
  PROVE  TypeInv'
<1>0. TypeInv /\ MgrInv /\ FlightInv /\ \A d \in Devices : DevInv(d)
  BY DEF IInv
<1>1. CASE RebalanceSnapshot \/ RebalanceSkip
  BY <1>0, <1>1, RebalanceType
<1>2. CASE Rebalance
  BY <1>0, <1>2, RoundType DEF Rebalance
<1>3. CASE ManagerReady \/ ManagerTimeout
  BY <1>0, <1>3, ManagerType
<1>4. CASE DispatchDecode \/ DispatchOther \/ DispatchWarmup
  BY <1>0, <1>4, DispatchType
<1>5. CASE CollectPrepared \/ CollectLoad
  BY <1>0, <1>5, CollectType
<1>6. ASSUME NEW d \in Devices,
             \/ StartStep(d) \/ FinishStep(d) \/ RecordOutput(d) \/ BeginPrepare(d)
             \/ \E ok \in BOOLEAN : EndPrepare(d, ok)
      PROVE  TypeInv'
  <2>1. TaskInv(d) /\ StepInv(d) /\ LiveInv(d)
    BY <1>0 DEF DevInv
  <2> QED BY <1>0, <1>6, <2>1, DeviceType
<1>7. CASE UNCHANGED vars
  BY <1>0, <1>7 DEF TypeInv, MgrType, PolType, EngType, DevType, vars, mgr, pol, eng, dev
<1> QED BY <1>1, <1>2, <1>3, <1>4, <1>5, <1>6, <1>7 DEF Next

\* Nothing that worker d's part reads changes.
LEMMA DevFrame ==
  ASSUME TypeInv, NEW d \in Devices, DevInv(d),
         UNCHANGED <<active_layer_id, active_prepare_token, next_prepare_token, pending,
                     awaiting, expert_distribution, active_expert_distribution,
                     prepared_tokens, flight>>,
         chan'[d] = chan[d], fwd'[d] = fwd[d], tasks'[d] = tasks[d], running'[d] = running[d],
         ready'[d] = ready[d], staged'[d] = staged[d], live'[d] = live[d], out'[d] = out[d]
  PROVE  DevInv(d)'
<1>0. StepInv(d) /\ TaskInv(d) /\ LastInv(d) /\ LiveInv(d)
  BY DEF DevInv
<1>1. StepInv(d)'
  BY <1>0, StepFrame
<1>2. TaskInv(d)'
  <2>1. OkTasks \subseteq OkTasks'
    BY DEF OkTasks
  <2> HIDE DEF OkTasks
  <2> QED BY <1>0, <2>1, TaskFrame
<1>3. LastInv(d)'
  <2>1. Reported(d)' <=> Reported(d)
    BY DEF Reported
  <2> QED BY <1>0, <2>1, LastFrame
<1>4. LiveInv(d)'
  <2>1. Done(d)' <=> Done(d)
    BY DoneFrame DEF StepsLeft
  <2> QED BY <1>0, <2>1, LiveFrame
<1> QED BY <1>1, <1>2, <1>3, <1>4 DEF DevInv

LEMMA DevManager ==
  ASSUME TypeInv, MgrInv, FlightInv, NEW d \in Devices, DevInv(d),
         \/ ManagerReady \/ ManagerTimeout \/ CollectLoad
         \/ \E changed \in SUBSET Layers, p \in Plans : RebalanceRound(changed, p)
  PROVE  DevInv(d)'
<1>0. StepInv(d) /\ TaskInv(d) /\ LastInv(d) /\ LiveInv(d)
  BY DEF DevInv
<1>1. TaskInv(d)'
  BY <1>0, TaskManager
<1>2. UNCHANGED <<flight, chan, fwd, tasks, running, ready, staged, live, out>>
  BY DEF ManagerReady, ManagerTimeout, CollectLoad, RebalanceRound, dev, eng
<1>3. LastInv(d)'
  <2>1. active_prepare_token' # None =>
          /\ UNCHANGED <<active_prepare_token, active_layer_id, expert_distribution,
                         prepared_tokens>>
    BY DEF ManagerReady, ManagerTimeout, CollectLoad, RebalanceRound, MgrInv
  <2>2. active_prepare_token' # None => (Reported(d)' => Reported(d))
    BY <1>2, <2>1 DEF Reported
  <2> QED BY <1>0, <1>2, <2>1, <2>2, LastFrame
<1>4. StepInv(d)'
  <2>1. CASE CollectLoad
    BY <1>0, <2>1, StepLoad
  <2>2. CASE ~CollectLoad
    <3>1. awaiting' = awaiting
      BY <2>2 DEF ManagerReady, ManagerTimeout, RebalanceRound
    <3> QED BY <1>0, <1>2, <3>1, StepFrame
  <2> QED BY <2>1, <2>2
<1>5. LiveInv(d)'
  <2>1. CASE ManagerReady
    BY <1>0, <2>1, LiveReady
  <2>2. CASE ManagerTimeout
    <3>1. Done(d)' <=> Done(d)
      BY <1>2, DoneFrame DEF StepsLeft
    <3>2. UNCHANGED <<awaiting, pending, expert_distribution, active_expert_distribution>>
      BY <2>2 DEF ManagerTimeout
    <3> QED BY <1>0, <1>2, <3>1, <3>2, LiveFrame
  <2>3. CASE CollectLoad
    BY <1>0, <2>3, LiveLoad
  <2>4. CASE \E changed \in SUBSET Layers, p \in Plans : RebalanceRound(changed, p)
    BY <1>0, <2>4, LiveRound
  <2> QED BY <2>1, <2>2, <2>3, <2>4
<1> QED BY <1>1, <1>3, <1>4, <1>5 DEF DevInv

LEMMA DevDecode ==
  ASSUME TypeInv, MgrInv, MgrInv', FlightInv, NEW d \in Devices, DevInv(d), DispatchDecode
  PROVE  DevInv(d)'
<1> DEFINE info == GetEplbInfo
<1>0. StepInv(d) /\ TaskInv(d) /\ LastInv(d) /\ LiveInv(d)
  BY DEF DevInv
<1>1. /\ info \in Infos /\ Send(info, FALSE)
      /\ UNCHANGED <<active_layer_id, prepared_tokens, expert_distribution,
                     active_expert_distribution>>
  BY InfoType DEF DispatchDecode
<1>2. next_prepare_token \in Nat
  BY DEF TypeInv, MgrType
<1>3. \/ info.activation = None /\ info.update = None /\ UNCHANGED <<awaiting, pending>>
      \/ /\ info.activation # None /\ info.update # None
         /\ awaiting.layer = None /\ awaiting.token = None
         /\ awaiting' = pending /\ pending'.layer = None /\ info.update = awaiting'.layer
  BY DecodeFacts
<1>4. \/ /\ info.prepare = None /\ info.token = None
         /\ UNCHANGED <<active_prepare_token, next_prepare_token>>
      \/ /\ info.prepare # None /\ active_prepare_token' = next_prepare_token
         /\ next_prepare_token' = next_prepare_token + 1
  BY DecodeFacts
<1>5. /\ OkTasks \subseteq OkTasks'
      /\ IF info.prepare = None THEN info.token = None ELSE Task(info) \in OkTasks'
  BY DecodeTasks
<1> HIDE DEF info, OkTasks
<1>6. StepInv(d)'
  <2>1. info.update = IF info.activation = None THEN None ELSE awaiting'.layer
    BY <1>3
  <2> QED BY <1>0, <1>1, <1>3, <2>1, StepSend
<1>7. LiveInv(d)'
  BY <1>0, <1>1, <1>3, LiveSend
<1>8. TaskInv(d)'
  <2>1. next_prepare_token' \in Nat /\ next_prepare_token <= next_prepare_token'
    BY <1>2, <1>4
  <2>2. \/ UNCHANGED <<active_prepare_token, active_layer_id>>
        \/ active_prepare_token' = next_prepare_token
    BY <1>1, <1>4
  <2> QED BY <1>0, <1>1, <1>5, <2>1, <2>2, TaskSend
<1>9. LastInv(d)'
  BY <1>0, <1>1, <1>4, LastSend
<1> QED BY <1>6, <1>7, <1>8, <1>9 DEF DevInv

LEMMA DevOther ==
  ASSUME TypeInv, MgrInv, FlightInv, NEW d \in Devices, DevInv(d),
         DispatchOther \/ DispatchWarmup
  PROVE  DevInv(d)'
<1> DEFINE info == NoCommand
<1>0. StepInv(d) /\ TaskInv(d) /\ LastInv(d) /\ LiveInv(d)
  BY DEF DevInv
<1>1. /\ info \in Infos /\ \E warm \in BOOLEAN : Send(info, warm)
      /\ UNCHANGED <<active_layer_id, prepared_tokens, expert_distribution, pending, awaiting,
                     active_expert_distribution, active_prepare_token, next_prepare_token>>
  BY InfoType DEF DispatchOther, DispatchWarmup, mgr
<1>2. next_prepare_token \in Nat
  BY DEF TypeInv, MgrType
<1>3. /\ info.prepare = None /\ info.token = None /\ info.update = None
      /\ info.activation = None
  BY DEF NoCommand
<1>4. PICK warm \in BOOLEAN : Send(info, warm)
  BY <1>1
<1>5. OkTasks \subseteq OkTasks'
  BY <1>1 DEF OkTasks
<1> HIDE DEF info, OkTasks
<1>6. StepInv(d)'
  BY <1>0, <1>1, <1>3, <1>4, StepSend
<1>7. LiveInv(d)'
  BY <1>0, <1>1, <1>3, <1>4, LiveSend
<1>8. TaskInv(d)'
  <2>1. next_prepare_token' \in Nat /\ next_prepare_token <= next_prepare_token'
    BY <1>1, <1>2
  <2> QED BY <1>0, <1>1, <1>3, <1>4, <1>5, <2>1, TaskSend
<1>9. LastInv(d)'
  BY <1>0, <1>1, <1>3, <1>4, LastSend
<1> QED BY <1>6, <1>7, <1>8, <1>9 DEF DevInv

LEMMA DevCollect ==
  ASSUME TypeInv, MgrInv, FlightInv, NEW d \in Devices, DevInv(d), CollectPrepared
  PROVE  DevInv(d)'
<1>0. StepInv(d) /\ TaskInv(d) /\ LastInv(d) /\ LiveInv(d)
  BY DEF DevInv
<1>1. /\ UNCHANGED <<chan, fwd, tasks, running, ready, staged, live, active_prepare_token,
                     active_layer_id, expert_distribution, active_expert_distribution,
                     pending, awaiting>>
  BY DEF CollectPrepared
<1>2. StepInv(d)' /\ TaskInv(d)'
  BY <1>0, StepCollect, TaskCollect
<1>3. LiveInv(d)'
  BY <1>0, <1>1, DoneCollect, LiveFrame
<1>4. LastInv(d)'
  <2>1. Dropped(out[d], out'[d])
    BY CollectFacts
  <2>2. /\ 1 \in DOMAIN out[d] /\ Head(out[d]) = out[d][1]
        /\ \A i \in DOMAIN out'[d] : i + 1 \in DOMAIN out[d] /\ out'[d][i] = out[d][i + 1]
    BY <2>1, DroppedAt DEF Dropped
  <2>3. \/ prepared_tokens'[d] = prepared_tokens[d]
        \/ out[d][1] = active_prepare_token
    BY <2>2 DEF CollectPrepared, TokenMatches
  <2>4. Reported(d)' => Reported(d)
    BY <1>1, <2>2, <2>3 DEF Reported
  <2> QED BY <1>0, <1>1, <2>4, LastFrame
<1> QED BY <1>2, <1>3, <1>4 DEF DevInv

LEMMA DevDevice ==
  ASSUME TypeInv, MgrInv, FlightInv, NEW d \in Devices, DevInv(d),
         \/ StartStep(d) \/ FinishStep(d) \/ RecordOutput(d) \/ BeginPrepare(d)
         \/ \E ok \in BOOLEAN : EndPrepare(d, ok)
  PROVE  DevInv(d)'
<1>0. StepInv(d) /\ TaskInv(d) /\ LastInv(d) /\ LiveInv(d)
  BY DEF DevInv
<1>1. StepInv(d)'
  BY <1>0, StepDevice
<1>2. LiveInv(d)'
  BY <1>0, LiveStart, LiveFinish, LivePrepare
<1>3. TaskInv(d)'
  BY <1>0, TaskStart, TaskFinish, TaskRecord, TaskPrepare
<1>4. LastInv(d)'
  BY <1>0, LastStart, LastFinish, LastRecord, LastBegin, LastEnd
<1> QED BY <1>1, <1>2, <1>3, <1>4 DEF DevInv

\* The step of another worker.
LEMMA DevElse ==
  ASSUME TypeInv, NEW d \in Devices, DevInv(d), NEW e \in Devices, e # d,
         \/ StartStep(e) \/ FinishStep(e) \/ RecordOutput(e) \/ BeginPrepare(e)
         \/ \E ok \in BOOLEAN : EndPrepare(e, ok)
  PROVE  DevInv(d)'
<1>1. UNCHANGED <<active_layer_id, active_prepare_token, next_prepare_token, pending,
                  awaiting, expert_distribution, active_expert_distribution,
                  prepared_tokens, flight>>
  BY DEF StartStep, FinishStep, RecordOutput, BeginPrepare, EndPrepare, mgr, eng
<1>2. /\ chan'[d] = chan[d] /\ fwd'[d] = fwd[d] /\ tasks'[d] = tasks[d]
      /\ running'[d] = running[d] /\ ready'[d] = ready[d] /\ out'[d] = out[d]
      /\ staged'[d] = staged[d] /\ live'[d] = live[d]
  BY DEF StartStep, FinishStep, RecordOutput, BeginPrepare, EndPrepare, TypeInv, DevType
<1> QED BY <1>1, <1>2, DevFrame

LEMMA DevNext ==
  ASSUME TypeInv, MgrInv, MgrInv', FlightInv, NEW d \in Devices, DevInv(d), [Next]_vars
  PROVE  DevInv(d)'
<1>1. CASE RebalanceSnapshot \/ RebalanceSkip \/ UNCHANGED vars
  <2>1. UNCHANGED <<active_layer_id, active_prepare_token, next_prepare_token, pending,
                    awaiting, expert_distribution, active_expert_distribution,
                    prepared_tokens, flight, chan, fwd, tasks, running, ready, staged,
                    live, out>>
    BY <1>1 DEF RebalanceSnapshot, RebalanceSkip, vars, mgr, eng, dev
  <2> QED BY <2>1, DevFrame
<1>2. CASE ManagerReady \/ ManagerTimeout \/ CollectLoad \/ Rebalance
  BY <1>2, DevManager DEF Rebalance
<1>3. CASE DispatchDecode
  BY <1>3, DevDecode
<1>4. CASE DispatchOther \/ DispatchWarmup
  BY <1>4, DevOther
<1>5. CASE CollectPrepared
  BY <1>5, DevCollect
<1>6. ASSUME NEW e \in Devices,
             \/ StartStep(e) \/ FinishStep(e) \/ RecordOutput(e) \/ BeginPrepare(e)
             \/ \E ok \in BOOLEAN : EndPrepare(e, ok)
      PROVE  DevInv(d)'
  BY <1>6, DevDevice, DevElse
<1> QED BY <1>1, <1>2, <1>3, <1>4, <1>5, <1>6 DEF Next

LEMMA InitInv == Init => IInv
<1> SUFFICES ASSUME Init PROVE IInv
  OBVIOUS
<1>1. TypeInv
  BY InitType
<1>2. MgrInv
  BY DEF Init, MgrInv
<1>3. FlightInv
  BY DEF Init, FlightInv
<1>4. ASSUME NEW d \in Devices PROVE DevInv(d)
  <2>0. /\ flight = <<>> /\ chan[d] = <<>> /\ out[d] = <<>> /\ fwd[d] = Idle
        /\ tasks[d] = <<>> /\ running[d] = <<>> /\ ready[d] = None
        /\ prepared_tokens[d] = None /\ active_prepare_token = None
        /\ next_prepare_token = 1
    BY DEF Init
  <2>1. StepInv(d)
    BY <2>0 DEF StepInv, Busy, Idle
  <2>2. TaskInv(d)
    <3>1. None < 1
      BY DEF None
    <3>2. <<>> \in Seq(OkTasks) /\ fwd[d].deferred = <<>>
      BY <2>0, EmptySeq DEF Idle
    <3> HIDE DEF OkTasks
    <3> QED BY <2>0, <3>1, <3>2 DEF TaskInv
  <2>3. LastInv(d)
    BY <2>0 DEF LastInv, Idle
  <2>4. LiveInv(d)
    BY Consts DEF Init, LiveInv
  <2> QED BY <2>1, <2>2, <2>3, <2>4 DEF DevInv
<1> QED BY <1>1, <1>2, <1>3, <1>4 DEF IInv

LEMMA NextInv ==
  ASSUME IInv, [Next]_vars
  PROVE  IInv'
<1>0. TypeInv /\ MgrInv /\ FlightInv /\ \A d \in Devices : DevInv(d)
  BY DEF IInv
<1>1. TypeInv' /\ MgrInv' /\ FlightInv'
  BY <1>0, TypeNext, MgrNext, FlightNext
<1>2. \A d \in Devices : DevInv(d)'
  BY <1>0, <1>1, DevNext
<1> QED BY <1>1, <1>2 DEF IInv

LEMMA AlwaysInv == Spec => []IInv
BY InitInv, NextInv, PTL DEF Spec

\* Workers that have completed the same steps have switched the same layers.
LEMMA SameDone ==
  ASSUME NEW d \in Devices, NEW e \in Devices, StepsLeft(d) = StepsLeft(e)
  PROVE  Done(d) <=> Done(e)
BY DEF Done

\* Two EP ranks that have completed the same steps route with one placement,
\* whatever prepares ran, failed or timed out on each of them, and whatever the
\* number of ranks, layers and warm-up steps (finish_eplb_step).
THEOREM RanksSwitchTogether == Spec => []SameStepSamePlacement
<1>1. IInv => SameStepSamePlacement
  <2> SUFFICES ASSUME IInv, NEW d \in Devices, NEW e \in Devices, StepsLeft(d) = StepsLeft(e)
               PROVE  live[d] = live[e]
    BY DEF SameStepSamePlacement
  <2>1. LiveInv(d) /\ LiveInv(e) /\ live \in [Devices -> [Layers -> Plans]]
    BY DEF IInv, DevInv, TypeInv, DevType
  <2>2. \A l \in Layers : live[d][l] = live[e][l]
    BY <2>1, SameDone DEF LiveInv
  <2> QED BY <2>1, <2>2
<1> QED BY <1>1, AlwaysInv, PTL

\* When no activation is under way, the placement that the manager labels its
\* load samples with is live on every rank (update_expert_load).
THEOREM ManagerBelievesTruth == Spec => []ManagerKnowsPlacement
<1>1. IInv => ManagerKnowsPlacement
  <2> SUFFICES ASSUME IInv, awaiting.layer = None, NEW d \in Devices
               PROVE  live[d] = active_expert_distribution
    BY DEF ManagerKnowsPlacement
  <2>1. LiveInv(d) /\ live[d] \in [Layers -> Plans]
        /\ active_expert_distribution \in [Layers -> Plans]
    BY DEF IInv, DevInv, TypeInv, DevType, MgrType
  <2>2. \A l \in Layers : live[d][l] = active_expert_distribution[l]
    BY <2>1, Consts DEF LiveInv
  <2> QED BY <2>1, <2>2
<1> QED BY <1>1, AlwaysInv, PTL

\* A worker that transfers a layer has staged the plan the manager last proposed
\* for it, computed from the placement that is live there, and no prepare can be
\* rewriting it (start_expert_weight_transfer).
THEOREM TransfersCurrentPlan == Spec => []TransfersProposedPlan
<1>1. IInv => TransfersProposedPlan
  <2> SUFFICES ASSUME IInv, NEW d \in Devices, fwd[d].pc = "forward", fwd[d].update # None
               PROVE  staged[d][fwd[d].update] =
                        [plan |-> expert_distribution[fwd[d].update],
                         base |-> live[d][fwd[d].update]]
    BY DEF TransfersProposedPlan
  <2>1. TypeInv /\ FlightInv /\ MgrInv /\ StepInv(d) /\ LiveInv(d)
    BY DEF IInv, DevInv
  <2>2. fwd[d].update = awaiting.layer /\ awaiting.layer \in Layers /\ ~Done(d)
    BY <2>1, ForwardUpdates
  <2>3. staged[d][awaiting.layer] = Proposed(d, awaiting.layer)
    BY <2>1, <2>2, Consts DEF LiveInv
  <2> QED BY <2>2, <2>3 DEF Proposed
<1> QED BY <1>1, AlwaysInv, PTL

----------------------------------------------------------------------------
(* The policy's books *)

\* Nothing that the books read changes.
LEMMA PolicyFrame ==
  ASSUME PolicyInv,
         UNCHANGED <<active_layer_id, enable_update_vec, pending, awaiting, rollback,
                     assignment, expert_distribution, active_expert_distribution>>
  PROVE  PolicyInv'
BY DEF PolicyInv, InRound

LEMMA PolicyRound ==
  ASSUME TypeInv, MgrInv, PolicyInv, NEW changed \in SUBSET Layers, NEW p \in Plans,
         RebalanceRound(changed, p)
  PROVE  PolicyInv'
<1>1. active_layer_id = None /\ pending.layer = None /\ awaiting.layer = None
  BY DEF MgrInv, RebalanceRound
<1>2. \A l \in Layers : ~InRound(l)
  BY <1>1, Consts DEF InRound
<1>3. \A l \in Layers : rollback[l] = None /\ assignment[l] = active_expert_distribution[l]
  BY <1>2 DEF PolicyInv
<1>4. /\ awaiting' = awaiting /\ active_expert_distribution' = active_expert_distribution
      /\ enable_update_vec' = changed /\ active_layer_id' = find_next_true(changed, 0)
      /\ \A l \in Layers :
           /\ rollback'[l] = IF l \in changed THEN assignment[l] ELSE rollback[l]
           /\ assignment'[l] = IF l \in changed THEN p ELSE assignment[l]
           /\ l \in changed => expert_distribution'[l] = p
  BY DEF RebalanceRound
<1>5. pending'.layer = None
  BY DEF RebalanceRound, TypeInv, MgrType, Slots
<1>6. /\ active_layer_id' = None => changed = {}
      /\ active_layer_id' # None =>
           /\ active_layer_id' \in changed
           /\ \A l \in changed : l >= active_layer_id'
  <2>1. LET n == find_next_true(changed, 0)
        IN /\ n = None => \A l \in changed : l < 0
           /\ n # None => /\ n \in changed /\ n >= 0
                          /\ \A l \in changed : l >= 0 => l >= n
    BY NextLayer
  <2>2. \A l \in changed : l >= 0 /\ ~(l < 0)
    BY Consts
  <2> QED BY <2>1, <2>2, <1>4
<1>7. \A l \in Layers : InRound(l)' <=> l \in changed
  BY <1>1, <1>4, <1>5, <1>6, Consts DEF InRound
<1>8. \A l \in Layers : assignment[l] # None
  BY Consts DEF TypeInv, PolType
<1> QED BY <1>3, <1>4, <1>6, <1>7, <1>8 DEF PolicyInv

LEMMA PolicyReady ==
  ASSUME TypeInv, MgrInv, PolicyInv, pending.layer = None, ManagerReady
  PROVE  PolicyInv'
<1> DEFINE a == active_layer_id
<1>0. a \in Layers /\ a + 1 \in Nat /\ a \in enable_update_vec /\ a # None /\ a \in Nat
  BY Consts DEF ManagerReady, TypeInv, MgrType, LayerOrNone, PolicyInv
<1>1. /\ pending'.layer = a /\ active_layer_id' = find_next_true(enable_update_vec, a + 1)
      /\ UNCHANGED <<awaiting, enable_update_vec, rollback, assignment, expert_distribution,
                     active_expert_distribution>>
  BY DEF ManagerReady, pol
<1>2. LET n == active_layer_id'
      IN /\ n = None => \A l \in enable_update_vec : l < a + 1
         /\ n # None => /\ n \in enable_update_vec /\ n >= a + 1
                        /\ \A l \in enable_update_vec : l >= a + 1 => l >= n
  BY <1>0, <1>1, NextLayer DEF TypeInv, MgrType
<1>3. active_layer_id' \in Int /\ Layers \subseteq Nat
  BY <1>0, <1>1, NextLayer, Consts DEF TypeInv, MgrType
<1> HIDE DEF a
<1>4. \A l \in Layers :
        ((active_layer_id' # None /\ l \in enable_update_vec /\ l >= active_layer_id') \/ l = a)
          <=> l \in enable_update_vec /\ l >= a
  BY <1>0, <1>2, <1>3
<1>5. \A l \in Layers : InRound(l)' <=> InRound(l)
  BY <1>0, <1>1, <1>4, Consts DEF InRound, a
<1> QED BY <1>1, <1>2, <1>5 DEF PolicyInv

LEMMA PolicyTimeout ==
  ASSUME TypeInv, MgrInv, PolicyInv, ManagerTimeout
  PROVE  PolicyInv'
<1> DEFINE a == active_layer_id
           vec == enable_update_vec'
<1>0. a \in Layers /\ a + 1 \in Nat /\ a \in enable_update_vec /\ a # None /\ a \in Nat
  BY Consts DEF ManagerTimeout, TypeInv, MgrType, LayerOrNone, PolicyInv
<1>1. /\ active_layer_id' = find_next_true(vec, a + 1)
      /\ vec = enable_update_vec \ {a} /\ vec \in SUBSET Layers
      /\ UNCHANGED <<awaiting, pending, expert_distribution, active_expert_distribution>>
  BY DEF ManagerTimeout, TypeInv, MgrType
<1>2. LET n == active_layer_id'
      IN /\ n = None => \A l \in vec : l < a + 1
         /\ n # None => /\ n \in vec /\ n >= a + 1
                        /\ \A l \in vec : l >= a + 1 => l >= n
  BY <1>0, <1>1, NextLayer
<1>3. active_layer_id' \in Int /\ Layers \subseteq Nat
  BY <1>0, <1>1, NextLayer, Consts
<1>4. InRound(a) /\ rollback[a] # None /\ rollback[a] = active_expert_distribution[a]
  BY <1>0 DEF InRound, PolicyInv
<1>5. /\ \A l \in Layers : rollback'[l] = IF l = a THEN None ELSE rollback[l]
      /\ \A l \in Layers : assignment'[l] = IF l = a THEN rollback[a] ELSE assignment[l]
  BY <1>0, <1>4 DEF ManagerTimeout, abort_layer, TypeInv, PolType
<1>6. pending.layer # a /\ awaiting.layer # a
  <2>1. pending.layer < a /\ awaiting.layer < a
    BY <1>0 DEF MgrInv
  <2> QED BY <2>1, <1>0
<1> HIDE DEF a
<1>7. \A l \in Layers :
        (active_layer_id' # None /\ l \in vec /\ l >= active_layer_id')
          <=> l \in enable_update_vec /\ l >= a /\ l # a
  <2> DEFINE n == active_layer_id'
  <2>1. ASSUME NEW l \in Layers
        PROVE  (n # None /\ l \in vec /\ l >= n) <=> (l \in vec /\ l >= a + 1)
    <3> HIDE DEF vec, n
    <3> QED BY <1>0, <1>2, <1>3 DEF n
  <2>2. \A l \in Layers : l >= a + 1 <=> l >= a /\ l # a
    BY <1>0, <1>3
  <2> HIDE DEF n
  <2> QED BY <1>1, <2>1, <2>2 DEF n
<1>8. \A l \in Layers : InRound(l)' <=> InRound(l) /\ l # a
  BY <1>0, <1>1, <1>6, <1>7 DEF InRound, a
<1>9. active_layer_id' # None => active_layer_id' \in enable_update_vec'
  BY <1>2
<1> HIDE DEF vec
<1> QED BY <1>1, <1>4, <1>5, <1>8, <1>9 DEF PolicyInv

LEMMA PolicyDecode ==
  ASSUME TypeInv, MgrInv, PolicyInv, DispatchDecode
  PROVE  PolicyInv'
<1> DEFINE info == GetEplbInfo
<1>1. UNCHANGED <<active_layer_id, enable_update_vec, rollback, assignment,
                  expert_distribution, active_expert_distribution>>
  BY DEF DispatchDecode, pol
<1>2. \/ UNCHANGED <<awaiting, pending>>
      \/ awaiting.layer = None /\ awaiting' = pending /\ pending'.layer = None
  BY DecodeFacts
<1>3. \A l \in Layers : InRound(l)' <=> InRound(l)
  BY <1>1, <1>2, Consts DEF InRound
<1> QED BY <1>1, <1>3 DEF PolicyInv

LEMMA PolicyLoad ==
  ASSUME TypeInv, MgrInv, PolicyInv, CollectLoad
  PROVE  PolicyInv'
<1>1. UNCHANGED <<active_layer_id, enable_update_vec, pending, assignment,
                  expert_distribution>>
  BY DEF CollectLoad
<1>2. CASE ~Acknowledged
  BY <1>1, <1>2, PolicyFrame DEF CollectLoad
<1>3. CASE Acknowledged
  <2> DEFINE a == awaiting.layer
  <2>1. a \in Layers /\ a # None /\ a \in Nat
    BY <1>3, Consts DEF Acknowledged, TypeInv, MgrType, Slots, LayerOrNone
  <2>2. /\ awaiting'.layer = None
        /\ \A l \in Layers : rollback'[l] = IF l = a THEN None ELSE rollback[l]
        /\ \A l \in Layers : active_expert_distribution'[l] =
                    IF l = a THEN expert_distribution[a] ELSE active_expert_distribution[l]
    BY <1>3, <2>1 DEF CollectLoad, TypeInv, MgrType, PolType
  <2>3. pending.layer # a /\ (active_layer_id # None => ~(a >= active_layer_id))
    <3>1. /\ pending.layer # None => a < pending.layer
          /\ active_layer_id # None => a < active_layer_id
      BY DEF MgrInv
    <3>2. active_layer_id \in Int /\ pending.layer \in Int
      BY Consts DEF TypeInv, MgrType, Slots
    <3> QED BY <3>1, <3>2, <2>1
  <2>4. InRound(a)
    BY DEF InRound
  <2>5. assignment[a] = expert_distribution[a]
    BY <2>1, <2>4 DEF PolicyInv
  <2>6. \A l \in Layers : InRound(l)' <=> InRound(l) /\ l # a
    BY <1>1, <2>1, <2>2, <2>3, Consts DEF InRound
  <2> HIDE DEF a
  <2> QED BY <1>1, <2>2, <2>5, <2>6 DEF PolicyInv
<1> QED BY <1>2, <1>3

LEMMA PolicyNext ==
  ASSUME TypeInv, MgrInv, PolicyInv, active_prepare_token # None => pending.layer = None,
         [Next]_vars
  PROVE  PolicyInv'
<1>1. CASE Rebalance
  BY <1>1, PolicyRound DEF Rebalance
<1>2. CASE ManagerReady
  BY <1>2, PolicyReady DEF ManagerReady
<1>3. CASE ManagerTimeout
  BY <1>3, PolicyTimeout
<1>4. CASE DispatchDecode
  BY <1>4, PolicyDecode
<1>5. CASE CollectLoad
  BY <1>5, PolicyLoad
<1>6. CASE \/ RebalanceSnapshot \/ RebalanceSkip \/ DispatchOther \/ DispatchWarmup
           \/ CollectPrepared \/ UNCHANGED vars
           \/ \E d \in Devices :
                \/ StartStep(d) \/ FinishStep(d) \/ RecordOutput(d) \/ BeginPrepare(d)
                \/ \E ok \in BOOLEAN : EndPrepare(d, ok)
  <2>1. UNCHANGED <<active_layer_id, enable_update_vec, pending, awaiting, rollback,
                    assignment, expert_distribution, active_expert_distribution>>
    BY <1>6 DEF RebalanceSnapshot, RebalanceSkip, DispatchOther, DispatchWarmup,
                CollectPrepared, vars, mgr, pol, StartStep, FinishStep, RecordOutput,
                BeginPrepare, EndPrepare
  <2> QED BY <2>1, PolicyFrame
<1> QED BY <1>1, <1>2, <1>3, <1>4, <1>5, <1>6 DEF Next

----------------------------------------------------------------------------
(* The engine's tokens without warm-up steps under overlap *)

LEMMA PairFrame ==
  ASSUME PairInv,
         UNCHANGED <<flight, tokens, warmups, collecting, active_prepare_token, pending,
                     awaiting>>
  PROVE  PairInv'
BY DEF PairInv

\* An activation stays in flight when another step is sent.
LEMMA SendKeeps ==
  ASSUME TypeInv, NEW info \in Infos, NEW warm \in BOOLEAN, Send(info, warm),
         \/ \E j \in DOMAIN flight : flight[j].activation # None
         \/ info.activation # None
  PROVE  \E j \in DOMAIN flight' : flight'[j].activation # None
<1>1. Appended(flight, flight', [warm |-> warm, activation |-> info.activation])
  BY SendFacts
<1>2. CASE info.activation # None
  <2>1. Len(flight) + 1 \in DOMAIN flight' /\ flight'[Len(flight) + 1].activation # None
    BY <1>1, <1>2 DEF Appended
  <2> QED BY <2>1
<1>3. CASE \E j \in DOMAIN flight : flight[j].activation # None
  <2>1. PICK j \in DOMAIN flight : flight[j].activation # None
    BY <1>3
  <2>2. j \in DOMAIN flight' /\ flight'[j] = flight[j]
    BY <1>1 DEF Appended
  <2> QED BY <2>1, <2>2
<1> QED BY <1>2, <1>3

\* The steps in flight and the tokens of the engine grow together.
LEMMA PairLengths ==
  ASSUME TypeInv, PairInv, Overlap, NEW info \in Infos, Send(info, FALSE), warmups' = warmups
  PROVE  /\ warmups' = 0 /\ Len(tokens') = Len(flight')
         /\ \A j \in DOMAIN flight' : ~flight'[j].warm
<1>1. /\ Appended(flight, flight', [warm |-> FALSE, activation |-> info.activation])
      /\ Appended(tokens, tokens', info.activation)
  BY SendFacts
<1>2. warmups = 0 /\ Len(tokens) = Len(flight) /\ \A j \in DOMAIN flight : ~flight[j].warm
  BY DEF PairInv
<1>3. Len(tokens') = Len(flight')
  BY <1>1, <1>2 DEF Appended
<1>4. ASSUME NEW j \in DOMAIN flight' PROVE ~flight'[j].warm
  <2>1. \/ j \in DOMAIN flight /\ flight'[j] = flight[j]
        \/ flight'[j] = [warm |-> FALSE, activation |-> info.activation]
    BY <1>1 DEF Appended
  <2> QED BY <2>1, <1>2
<1> QED BY <1>2, <1>3, <1>4

LEMMA PairDispatch ==
  ASSUME TypeInv, MgrInv, FlightInv, PairInv, NEW info \in Infos, NEW warm \in BOOLEAN,
         Send(info, warm), collecting.pc = "no",
         (~warm /\ warmups' = warmups) \/ ~Overlap,
         \/ info.activation = None /\ UNCHANGED <<awaiting, pending>>
         \/ /\ info.activation # None /\ awaiting.layer = None
            /\ awaiting' = pending /\ pending'.layer = None,
         \/ active_prepare_token' = active_prepare_token
         \/ awaiting.layer = None /\ pending.layer # None => info.activation # None
  PROVE  PairInv'
<1>0. collecting' = collecting /\ collecting.token = None
  BY DEF Send, FlightInv
<1>1. awaiting.layer # None => awaiting.token # None /\ pending.layer = None
  BY <1>0 DEF MgrInv, PairInv
<1>2. awaiting.layer # None => \E j \in DOMAIN flight : flight[j].activation # None
  BY <1>0, <1>1 DEF PairInv
<1>3. awaiting'.layer # None => \E j \in DOMAIN flight' : flight'[j].activation # None
  <2>1. CASE info.activation = None /\ UNCHANGED <<awaiting, pending>>
    BY <2>1, <1>2, SendKeeps
  <2>2. CASE info.activation # None
    BY <2>2, SendKeeps
  <2> QED BY <2>1, <2>2
<1>4. ~(pending'.layer # None /\ awaiting'.layer # None)
  BY <1>1
<1>5. active_prepare_token' # None => pending'.layer = None
  BY <1>1 DEF PairInv
<1>6. Overlap => /\ warmups' = 0 /\ Len(tokens') = Len(flight')
                 /\ \A j \in DOMAIN flight' : ~flight'[j].warm
  BY PairLengths
<1> QED BY <1>3, <1>4, <1>5, <1>6 DEF PairInv

LEMMA PairCollect ==
  ASSUME TypeInv, MgrInv, FlightInv, PairInv, CollectPrepared
  PROVE  PairInv'
<1>0. /\ UNCHANGED <<active_prepare_token, pending, awaiting, warmups>>
      /\ collecting.pc = "no" /\ collecting.token = None
  BY DEF CollectPrepared, FlightInv
<1>a. Dropped(flight, flight')
  BY CollectFacts
<1>b. /\ 1 \in DOMAIN flight /\ Head(flight) = flight[1]
      /\ \A j \in DOMAIN flight' : j + 1 \in DOMAIN flight /\ flight'[j] = flight[j + 1]
  BY <1>a, DroppedAt DEF Dropped
<1>1. Overlap => /\ warmups' = 0 /\ Len(tokens') = Len(flight')
                 /\ \A j \in DOMAIN flight' : ~flight'[j].warm
  <2> SUFFICES ASSUME Overlap
               PROVE  /\ warmups' = 0 /\ Len(tokens') = Len(flight')
                      /\ \A j \in DOMAIN flight' : ~flight'[j].warm
    OBVIOUS
  <2>1. warmups = 0 /\ Len(tokens) = Len(flight) /\ \A j \in DOMAIN flight : ~flight[j].warm
    BY DEF PairInv
  <2>2. Dropped(tokens, tokens')
    BY <2>1, <1>b, CollectFacts
  <2>3. Len(tokens') = Len(flight')
    BY <1>a, <2>1, <2>2 DEF Dropped
  <2> QED BY <1>0, <1>b, <2>1, <2>3
<1>2. awaiting.layer # None => awaiting.token # None
  BY DEF MgrInv
<1>3. ~(pending.layer # None /\ awaiting.layer # None)
  BY <1>0, <1>2 DEF PairInv
<1>4. ASSUME awaiting.layer # None
      PROVE  \/ collecting'.token = awaiting.token
             \/ \E j \in DOMAIN flight' : flight'[j].activation # None
  <2>1. PICK j \in DOMAIN flight : flight[j].activation # None
    BY <1>0, <1>2, <1>4 DEF PairInv
  <2>2. flight[j].activation = awaiting.token /\ ~flight[j].warm
    BY <2>1 DEF FlightInv
  <2>3. CASE j = 1
    <3>1. CompletedToken = awaiting.token
      <4>1. CASE ~Overlap
        BY <4>1, <2>2, <2>3, <1>b DEF CompletedToken
      <4>2. CASE Overlap
        <5>1. Len(tokens) = Len(flight)
          BY <4>2 DEF PairInv
        <5>2. tokens[1 + (Len(tokens) - Len(flight))] = flight[1].activation
          BY <4>2, <1>b DEF FlightInv
        <5>3. 1 + (Len(tokens) - Len(flight)) = 1
          BY <5>1, SeqFacts
        <5>4. Dropped(tokens, tokens')
          BY <4>2, <2>2, <2>3, <1>b, CollectFacts
        <5>5. Head(tokens) = tokens[1]
          BY <5>4 DEF Dropped
        <5> QED BY <4>2, <5>2, <5>3, <5>5, <2>2, <2>3, <1>b DEF CompletedToken
      <4> QED BY <4>1, <4>2
    <3>2. collecting'.token = CompletedToken
      BY <2>2, <2>3, <1>b DEF CollectPrepared
    <3> QED BY <3>1, <3>2
  <2>4. CASE j # 1
    <3>1. j - 1 \in DOMAIN flight' /\ (j - 1) + 1 = j
      BY <2>4, <1>a DEF Dropped
    <3> QED BY <3>1, <2>1, <1>b
  <2> QED BY <2>3, <2>4
<1> QED BY <1>0, <1>1, <1>3, <1>4 DEF PairInv

LEMMA PairLoad ==
  ASSUME TypeInv, MgrInv, PairInv, CollectLoad
  PROVE  PairInv'
<1>0. UNCHANGED <<active_prepare_token, pending, flight, tokens, warmups>>
  BY DEF CollectLoad
<1>1. CASE Acknowledged
  <2>1. awaiting'.layer = None
    BY <1>1 DEF CollectLoad
  <2> QED BY <1>0, <2>1 DEF PairInv
<1>2. CASE ~Acknowledged
  <2>1. awaiting' = awaiting
    BY <1>2 DEF CollectLoad
  <2>2. awaiting.layer # None => collecting.token # awaiting.token
    BY <1>2 DEF Acknowledged
  <2> QED BY <1>0, <2>1, <2>2 DEF PairInv
<1> QED BY <1>1, <1>2

\* Every worker has reported the attempt: it has been collected behind the
\* activation in flight, which is therefore being acknowledged.
LEMMA PairReady ==
  ASSUME TypeInv, MgrInv, PairInv, \A d \in Devices : BehindInv(d), ManagerReady
  PROVE  PairInv'
<1>0. /\ UNCHANGED <<awaiting, flight, tokens, warmups, collecting>>
      /\ active_prepare_token' = None /\ active_prepare_token # None /\ all_prepared
  BY DEF ManagerReady, eng
<1>1. PICK d \in Devices : TRUE
  BY EplbAssumption
<1>2. Upto(Acts, 0)
  BY <1>0, <1>1 DEF BehindInv, all_prepared
<1>3. \A j \in DOMAIN flight : ~(j <= 0)
  BY SeqFacts
<1>4. \A j \in DOMAIN flight : flight[j].activation = None
  BY <1>2, <1>3 DEF Acts, Upto
<1>5. awaiting.layer # None => collecting.token = awaiting.token
  BY <1>4 DEF PairInv
<1> QED BY <1>0, <1>5 DEF PairInv

LEMMA PairNext ==
  ASSUME TypeInv, MgrInv, FlightInv, PairInv, \A d \in Devices : BehindInv(d), [Next]_vars
  PROVE  PairInv'
<1>1. CASE Rebalance
  <2>1. PICK changed \in SUBSET Layers, p \in Plans : RebalanceRound(changed, p)
    BY <1>1 DEF Rebalance
  <2>2. UNCHANGED <<flight, tokens, warmups, collecting, active_prepare_token, awaiting>>
    BY <2>1 DEF RebalanceRound, eng
  <2>3. pending'.layer = None
    BY <2>1 DEF RebalanceRound, TypeInv, MgrType, Slots
  <2> QED BY <2>2, <2>3 DEF PairInv
<1>2. CASE ManagerReady
  BY <1>2, PairReady
<1>3. CASE ManagerTimeout
  <2>1. /\ UNCHANGED <<flight, tokens, warmups, collecting, pending, awaiting>>
        /\ active_prepare_token' = None
    BY <1>3 DEF ManagerTimeout, eng
  <2> QED BY <2>1 DEF PairInv
<1>4. CASE DispatchDecode
  <2> DEFINE info == GetEplbInfo
  <2>1. /\ info \in Infos /\ Send(info, FALSE) /\ warmups' = warmups /\ collecting.pc = "no"
    BY <1>4, InfoType DEF DispatchDecode, CanSend
  <2>2. \/ info.activation = None /\ UNCHANGED <<awaiting, pending>>
        \/ /\ info.activation # None /\ awaiting.layer = None
           /\ awaiting' = pending /\ pending'.layer = None
    BY <1>4, DecodeFacts
  <2>3. awaiting.layer = None /\ pending.layer # None => info.activation # None
    BY <1>4, DecodeFacts DEF Activates
  <2> HIDE DEF info
  <2> QED BY <2>1, <2>2, <2>3, PairDispatch
<1>5. CASE DispatchOther \/ DispatchWarmup
  <2>1. UNCHANGED <<awaiting, pending, active_prepare_token>> /\ collecting.pc = "no"
    BY <1>5 DEF DispatchOther, DispatchWarmup, mgr, CanSend
  <2>2. NoCommand \in Infos /\ NoCommand.activation = None
    BY InfoType DEF NoCommand
  <2>3. PICK warm \in BOOLEAN :
          Send(NoCommand, warm) /\ ((~warm /\ warmups' = warmups) \/ ~Overlap)
    <3>1. CASE DispatchOther
      BY <3>1 DEF DispatchOther
    <3>2. CASE DispatchWarmup
      <4>1. Send(NoCommand, TRUE) /\ warmups > 0
        BY <3>2 DEF DispatchWarmup
      <4>2. ~Overlap
        BY <4>1 DEF PairInv
      <4> QED BY <4>1, <4>2
    <3> QED BY <1>5, <3>1, <3>2
  <2> QED BY <2>1, <2>2, <2>3, PairDispatch
<1>6. CASE CollectPrepared
  BY <1>6, PairCollect
<1>7. CASE CollectLoad
  BY <1>7, PairLoad
<1>8. CASE \/ RebalanceSnapshot \/ RebalanceSkip \/ UNCHANGED vars
           \/ \E d \in Devices :
                \/ StartStep(d) \/ FinishStep(d) \/ RecordOutput(d) \/ BeginPrepare(d)
                \/ \E ok \in BOOLEAN : EndPrepare(d, ok)
  <2>1. UNCHANGED <<flight, tokens, warmups, collecting, active_prepare_token, pending,
                    awaiting>>
    BY <1>8 DEF RebalanceSnapshot, RebalanceSkip, vars, mgr, eng, StartStep, FinishStep,
                RecordOutput, BeginPrepare, EndPrepare
  <2> QED BY <2>1, PairFrame
<1> QED BY <1>1, <1>2, <1>3, <1>4, <1>5, <1>6, <1>7, <1>8 DEF Next

----------------------------------------------------------------------------
(* The current attempt travels behind the activation in flight *)

LEMMA BehindFrame ==
  ASSUME NEW d \in Devices, BehindInv(d), flight' = flight, chan'[d] = chan[d],
         active_prepare_token' # None =>
           /\ active_prepare_token' = active_prepare_token
           /\ Held(d)' => Held(d)
           /\ out'[d] = out[d] /\ prepared_tokens'[d] = prepared_tokens[d]
  PROVE  BehindInv(d)'
<1>1. Acts' = Acts
  BY DEF Acts
<1> QED BY <1>1 DEF BehindInv

LEMMA BehindSend ==
  ASSUME TypeInv, NEW d \in Devices, StepInv(d), TaskInv(d), BehindInv(d),
         NEW info \in Infos, NEW warm \in BOOLEAN, Send(info, warm),
         prepared_tokens' = prepared_tokens,
         \/ /\ info.token = None /\ active_prepare_token' = active_prepare_token
            /\ active_prepare_token # None => info.activation = None
         \/ active_prepare_token' = next_prepare_token
  PROVE  BehindInv(d)'
<1>a. Appended(flight, flight', [warm |-> warm, activation |-> info.activation])
  BY SendFacts
<1>b. Appended(chan[d], chan'[d], info)
  BY SendFacts
<1>c. UNCHANGED <<fwd, tasks, running, ready, out>>
  BY DEF Send
<1> DEFINE F == Len(flight)
           C == Len(chan[d])
<1>d. F \in Nat /\ C \in Nat /\ Len(flight') = F + 1 /\ Len(chan'[d]) = C + 1
      /\ DOMAIN flight' = 1 .. F + 1 /\ DOMAIN flight = 1 .. F
      /\ flight'[F + 1].activation = info.activation
      /\ \A j \in 1 .. F : flight'[j] = flight[j]
      /\ DOMAIN chan'[d] = 1 .. C + 1
  BY <1>a, <1>b DEF Appended
<1>1. CASE /\ info.token = None /\ active_prepare_token' = active_prepare_token
           /\ active_prepare_token # None => info.activation = None
  <2> SUFFICES ASSUME active_prepare_token # None PROVE BehindInv(d)'
    BY <1>1 DEF BehindInv
  <2>1. info.activation = None
    BY <1>1
  <2>2. ASSUME NEW i, Upto(Acts, i) PROVE Upto(Acts', i)
    <3> SUFFICES ASSUME NEW j \in DOMAIN flight', flight'[j].activation # None
                 PROVE  j <= i
      BY DEF Acts, Upto
    <3>1. j \in DOMAIN flight /\ flight'[j] = flight[j]
      <4> HIDE DEF F, C
      <4> QED BY <1>d, <2>1
    <3> QED BY <2>2, <3>1 DEF Acts, Upto
  <2>3. Held(d)' <=> Held(d)
    BY <1>1, <1>c DEF Held
  <2>4. Len(flight') - Len(chan'[d]) = F - C
    <3> HIDE DEF F, C
    <3> QED BY <1>d
  <2>5. ASSUME NEW m \in DOMAIN chan'[d], chan'[d][m].token = active_prepare_token
        PROVE  m \in DOMAIN chan[d] /\ chan'[d][m] = chan[d][m]
    BY <1>b, <1>1, <2>5 DEF Appended
  <2>6. \A m \in DOMAIN chan'[d] :
         chan'[d][m].token = active_prepare_token => Upto(Acts', F - C + m)
    BY <2>2, <2>5 DEF BehindInv
  <2>7. /\ Held(d)' => Upto(Acts', F - C)
        /\ \A i \in DOMAIN out'[d] : out'[d][i] = active_prepare_token => Upto(Acts', i)
        /\ prepared_tokens'[d] = active_prepare_token => Upto(Acts', 0)
    BY <1>c, <2>2, <2>3 DEF BehindInv
  <2> QED BY <1>1, <2>4, <2>6, <2>7 DEF BehindInv
<1>2. CASE active_prepare_token' = next_prepare_token
  <2> DEFINE A == next_prepare_token
  <2>0. A \in Nat /\ A # None /\ ~(A < A) /\ active_prepare_token' = A
    BY <1>2, Consts DEF TypeInv, MgrType
  <2>1. \A k \in OkTasks : k.token # A
    BY <2>0 DEF OkTasks
  <2> HIDE DEF OkTasks
  <2>2. \A m \in DOMAIN chan[d] : chan[d][m].token # A
    BY <2>0, <2>1 DEF TaskInv, Task
  <2>3. ~Held(d)'
    <3>1. /\ \A i \in DOMAIN fwd[d].deferred : fwd[d].deferred[i] \in OkTasks
          /\ \A i \in DOMAIN tasks[d] : tasks[d][i] \in OkTasks
          /\ \A i \in DOMAIN running[d] : running[d][i].task \in OkTasks
          /\ ready[d] # A
      BY <2>0 DEF TaskInv
    <3> QED BY <3>1, <2>0, <2>1, <1>c DEF Held
  <2>4. prepared_tokens'[d] # A /\ \A i \in DOMAIN out'[d] : out'[d][i] # A
    BY <2>0, <1>c DEF TaskInv
  <2>5. ASSUME NEW m \in DOMAIN chan'[d], chan'[d][m].token = A
        PROVE  Upto(Acts', Len(flight') - Len(chan'[d]) + m)
    <3>1. m = C + 1
      BY <2>2, <2>5, <1>b DEF Appended
    <3>2. Len(flight') - Len(chan'[d]) + m = F + 1
      <4> HIDE DEF F, C
      <4> QED BY <1>d, <3>1
    <3>3. \A j \in DOMAIN flight' : j <= F + 1
      <4> HIDE DEF F, C
      <4> QED BY <1>d
    <3> QED BY <3>2, <3>3 DEF Acts, Upto
  <2> HIDE DEF A
  <2> QED BY <2>0, <2>3, <2>4, <2>5 DEF BehindInv
<1> QED BY <1>1, <1>2

LEMMA BehindCollect ==
  ASSUME TypeInv, FlightInv, NEW d \in Devices, StepInv(d), BehindInv(d), CollectPrepared
  PROVE  BehindInv(d)'
<1>a. Dropped(flight, flight') /\ Dropped(out[d], out'[d])
  BY CollectFacts
<1>b. UNCHANGED <<chan, fwd, tasks, running, ready, active_prepare_token>>
  BY DEF CollectPrepared
<1> DEFINE F == Len(flight)
           C == Len(chan[d])
           A == active_prepare_token
<1>c. F \in Nat /\ C \in Nat /\ Len(flight') = F - 1 /\ C <= F
      /\ \A m \in DOMAIN chan[d] : m \in Nat
  BY <1>a, SeqFacts, StepIndex DEF Dropped
<1>1. \A j \in DOMAIN flight' : j \in Nat /\ j + 1 \in DOMAIN flight /\ flight'[j] = flight[j + 1]
  BY <1>a, DroppedAt
<1>2. ASSUME NEW i \in Int, Upto(Acts, i) PROVE Upto(Acts', i - 1)
  BY <1>1, <1>2 DEF Acts, Upto
<1>3. Upto(Acts, 0) => Upto(Acts', 0)
  <2>1. ASSUME Upto(Acts, 0), NEW j \in DOMAIN flight', flight'[j].activation # None
        PROVE  j <= 0
    BY <1>1, <2>1 DEF Acts, Upto
  <2> QED BY <2>1 DEF Acts, Upto
<1> SUFFICES ASSUME A # None PROVE BehindInv(d)'
  BY <1>b DEF BehindInv
<1>4. ASSUME NEW m \in DOMAIN chan'[d], chan'[d][m].token = A
      PROVE  Upto(Acts', Len(flight') - Len(chan'[d]) + m)
  <2>1. Upto(Acts, F - C + m) /\ chan' = chan
    BY <1>4, <1>b DEF BehindInv
  <2>2. F - C + m \in Int /\ (F - 1) - C + m = (F - C + m) - 1
    <3> HIDE DEF F, C
    <3> QED BY <1>c, <1>b
  <2>3. Upto(Acts', (F - C + m) - 1)
    BY <2>1, <2>2, <1>2
  <2> QED BY <2>1, <2>2, <2>3, <1>c
<1>5. Held(d)' => Upto(Acts', Len(flight') - Len(chan'[d]))
  <2>1. Held(d)' => Held(d)
    BY <1>b DEF Held
  <2>2. Held(d) => Upto(Acts, F - C)
    BY DEF BehindInv
  <2>3. F - C \in Int /\ (F - 1) - C = (F - C) - 1
    <3> HIDE DEF F, C
    <3> QED BY <1>c
  <2>4. Held(d)' => Upto(Acts', (F - C) - 1)
    BY <2>1, <2>2, <2>3, <1>2
  <2> QED BY <2>3, <2>4, <1>b, <1>c
<1>6. ASSUME NEW i \in DOMAIN out'[d], out'[d][i] = A PROVE Upto(Acts', i)
  <2>1. i \in Nat /\ i + 1 \in DOMAIN out[d] /\ out'[d][i] = out[d][i + 1]
    BY <1>a, DroppedAt
  <2>2. Upto(Acts, i + 1)
    BY <2>1, <1>6 DEF BehindInv
  <2>3. i + 1 \in Int /\ (i + 1) - 1 = i
    BY <2>1
  <2> QED BY <2>2, <2>3, <1>2
<1>7. ASSUME prepared_tokens'[d] = A PROVE Upto(Acts', 0)
  <2>1. CASE prepared_tokens[d] = A
    BY <2>1, <1>3 DEF BehindInv
  <2>2. CASE prepared_tokens[d] # A
    <3>1. 1 \in DOMAIN out[d] /\ out[d][1] = A
      BY <2>2, <1>7, <1>a, DroppedAt DEF CollectPrepared, TokenMatches, Dropped
    <3>2. Upto(Acts, 1)
      BY <3>1 DEF BehindInv
    <3>3. 1 - 1 = 0 /\ 1 \in Int
      OBVIOUS
    <3> QED BY <3>2, <3>3, <1>2
  <2> QED BY <2>1, <2>2
<1> QED BY <1>b, <1>4, <1>5, <1>6, <1>7 DEF BehindInv

LEMMA BehindStart ==
  ASSUME TypeInv, NEW d \in Devices, StepInv(d), TaskInv(d), BehindInv(d), StartStep(d)
  PROVE  BehindInv(d)'
<1>0. /\ UNCHANGED <<flight, running, ready, out, active_prepare_token, prepared_tokens>>
      /\ chan[d] # <<>>
  BY DEF StartStep, mgr, eng
<1> DEFINE info  == Head(chan[d])
           fresh == IF info.prepare = None THEN <<>> ELSE <<Task(info)>>
           A == active_prepare_token
           F == Len(flight)
           C == Len(chan[d])
<1>2. chan[d] \in Seq(Infos) /\ fwd \in [Devices -> FwdSet] /\ chan \in [Devices -> Seq(Infos)]
      /\ tasks \in [Devices -> Seq(TaskSet)]
  BY DEF TypeInv, DevType
<1>3. /\ chan'[d] = Tail(chan[d])
      /\ tasks'[d] = tasks[d] \o IF info.update # None THEN <<>> ELSE fresh
      /\ fwd'[d].deferred = IF info.update # None THEN fresh ELSE <<>>
  BY <1>2 DEF StartStep
<1>4. Dropped(chan[d], chan'[d]) /\ 1 \in DOMAIN chan[d] /\ info = chan[d][1]
  BY <1>0, <1>2, <1>3, TailFacts, DroppedAt DEF Dropped
<1>5. \A m \in DOMAIN chan'[d] : /\ m \in Nat /\ m + 1 \in DOMAIN chan[d]
                                 /\ chan'[d][m] = chan[d][m + 1]
  BY <1>4, DroppedAt
<1>6. F \in Nat /\ C \in Nat /\ Len(chan'[d]) = C - 1 /\ flight' = flight
  BY <1>0, <1>4, SeqFacts DEF Dropped
<1>7. Acts' = Acts
  BY <1>0 DEF Acts
<1>8. \/ fresh = <<>>
      \/ fresh = <<Task(info)>> /\ Task(info) \in TaskSet /\ Task(info).token = info.token
  <2>1. info.prepare # None => Task(info) \in TaskSet /\ Task(info).token = info.token
    <3> HIDE DEF info
    <3> QED BY <1>4 DEF TaskInv, OkTasks, Task
  <2> QED BY <2>1
<1> SUFFICES ASSUME A # None PROVE BehindInv(d)'
  BY <1>0 DEF BehindInv
<1> HIDE DEF info, fresh
<1>9. Held(d)' => Held(d) \/ info.token = A
  <2>1. ASSUME NEW i \in DOMAIN fwd'[d].deferred, fwd'[d].deferred[i].token = A
        PROVE  info.token = A
    BY <1>3, <1>8, <2>1
  <2>2. ASSUME NEW i \in DOMAIN tasks'[d], tasks'[d][i].token = A
        PROVE  Held(d) \/ info.token = A
    <3>1. CASE tasks'[d] = tasks[d]
      BY <3>1, <2>2 DEF Held
    <3>2. CASE tasks'[d] # tasks[d]
      <4>1. tasks[d] \o <<>> = tasks[d]
        BY <1>2
      <4>2. tasks'[d] = tasks[d] \o <<Task(info)>> /\ Task(info) \in TaskSet
            /\ Task(info).token = info.token
        BY <3>2, <4>1, <1>3, <1>8
      <4>3. /\ tasks[d] \in Seq(TaskSet) /\ <<Task(info)>> \in Seq(TaskSet)
            /\ Len(<<Task(info)>>) <= 1 /\ <<Task(info)>>[1] = Task(info)
            /\ <<Task(info)>> # <<>>
        BY <4>2, <1>2
      <4>4. Appended(tasks[d], tasks'[d], Task(info))
        BY <4>2, <4>3, ConcatOne
      <4>5. (i \in DOMAIN tasks[d] /\ tasks'[d][i] = tasks[d][i]) \/ tasks'[d][i] = Task(info)
        BY <4>4 DEF Appended
      <4> QED BY <4>2, <4>5, <2>2 DEF Held
    <3> QED BY <3>1, <3>2
  <2> QED BY <2>1, <2>2, <1>0 DEF Held
<1>10. ASSUME NEW m \in DOMAIN chan'[d], chan'[d][m].token = A
       PROVE  Upto(Acts', Len(flight') - Len(chan'[d]) + m)
  <2>1. Upto(Acts, F - C + (m + 1))
    BY <1>5, <1>10 DEF BehindInv
  <2>2. F - (C - 1) + m = F - C + (m + 1)
    <3>1. m \in Nat
      BY <1>5
    <3> HIDE DEF F, C
    <3> QED BY <1>6, <3>1
  <2> QED BY <2>1, <2>2, <1>6, <1>7
<1>11. ASSUME Held(d)' PROVE Upto(Acts', Len(flight') - Len(chan'[d]))
  <2>1. F - (C - 1) = F - C + 1 /\ F - C \in Int
    <3> HIDE DEF F, C
    <3> QED BY <1>6
  <2>2. Upto(Acts, F - C + 1)
    <3>1. CASE info.token = A
      BY <3>1, <1>4 DEF BehindInv
    <3>2. CASE Held(d)
      <4>1. Upto(Acts, F - C)
        BY <3>2 DEF BehindInv
      <4>2. \A j \in DOMAIN flight : j \in Int
        BY SeqFacts
      <4>3. \A j \in DOMAIN flight : j <= F - C => j <= F - C + 1
        <5> HIDE DEF F, C
        <5> QED BY <2>1, <4>2
      <4> QED BY <4>1, <4>3 DEF Acts, Upto
    <3> QED BY <1>9, <1>11, <3>1, <3>2
  <2> QED BY <2>1, <2>2, <1>6, <1>7
<1>12. /\ \A i \in DOMAIN out'[d] : out'[d][i] = A => Upto(Acts', i)
       /\ prepared_tokens'[d] = A => Upto(Acts', 0)
  BY <1>0, <1>7 DEF BehindInv
<1> QED BY <1>0, <1>10, <1>11, <1>12 DEF BehindInv

LEMMA BehindFinish ==
  ASSUME TypeInv, NEW d \in Devices, BehindInv(d), LastInv(d), FinishStep(d)
  PROVE  BehindInv(d)'
<1>0. UNCHANGED <<flight, chan, running, ready, out, active_prepare_token, prepared_tokens>>
  BY DEF FinishStep, mgr, eng
<1>t. /\ fwd \in [Devices -> FwdSet] /\ tasks \in [Devices -> Seq(TaskSet)]
      /\ fwd[d].deferred \in Seq(TaskSet) /\ Len(fwd[d].deferred) <= 1
  BY DEF TypeInv, DevType, FwdSet, LastInv
<1> DEFINE q == fwd[d].deferred
<1>1. tasks'[d] = tasks[d] \o q /\ fwd'[d].deferred = <<>>
  BY <1>t DEF FinishStep, Idle
<1>2. \/ tasks'[d] = tasks[d]
      \/ Len(q) = 1 /\ Appended(tasks[d], tasks'[d], q[1])
  <2> HIDE DEF q
  <2> QED BY <1>1, <1>t, ConcatOne DEF q
<1>3. ASSUME NEW i \in DOMAIN tasks'[d], tasks'[d][i].token = active_prepare_token
      PROVE  Held(d)
  <2>1. CASE i \in DOMAIN tasks[d] /\ tasks'[d][i] = tasks[d][i]
    BY <1>3, <2>1 DEF Held
  <2>2. CASE ~(i \in DOMAIN tasks[d] /\ tasks'[d][i] = tasks[d][i])
    <3>1. Len(q) = 1 /\ Appended(tasks[d], tasks'[d], q[1])
      BY <2>2, <1>2
    <3>2. tasks'[d][i] = q[1]
      BY <2>2, <3>1 DEF Appended
    <3>3. 1 \in DOMAIN q
      BY <3>1, <1>t
    <3> QED BY <3>2, <3>3, <1>3 DEF Held
  <2> QED BY <2>1, <2>2
<1>4. \A i \in DOMAIN fwd'[d].deferred : FALSE
  BY <1>1
<1> HIDE DEF q
<1>5. Held(d)' => Held(d)
  <2>1. ASSUME NEW i \in DOMAIN running'[d], running'[d][i].task.token = active_prepare_token
        PROVE  Held(d)
    BY <1>0, <2>1 DEF Held
  <2>2. ready'[d] = active_prepare_token => Held(d)
    BY <1>0 DEF Held
  <2> QED BY <1>0, <1>3, <1>4, <2>1, <2>2 DEF Held
<1> QED BY <1>0, <1>5, BehindFrame

LEMMA BehindRecord ==
  ASSUME TypeInv, NEW d \in Devices, StepInv(d), BehindInv(d), RecordOutput(d)
  PROVE  BehindInv(d)'
<1>0. UNCHANGED <<flight, chan, running, tasks, active_prepare_token, prepared_tokens>>
  BY DEF RecordOutput, mgr, eng
<1>t. /\ fwd \in [Devices -> FwdSet] /\ out \in [Devices -> Seq(Token)]
      /\ ready \in [Devices -> Token] /\ fwd[d].pc = "finished"
  BY DEF TypeInv, DevType, RecordOutput
<1>2. /\ fwd'[d].deferred = <<>> /\ ready'[d] = None /\ out'[d] = Append(out[d], ready[d])
  BY <1>t DEF RecordOutput, Idle
<1>3. Appended(out[d], out'[d], ready[d])
  BY <1>2, <1>t, AppendFacts
<1> DEFINE A == active_prepare_token
<1> SUFFICES ASSUME A # None PROVE BehindInv(d)'
  BY <1>0 DEF BehindInv
<1>4. Acts' = Acts
  BY <1>0 DEF Acts
<1>5. Held(d)' => Held(d)
  <2>1. \A i \in DOMAIN fwd'[d].deferred : FALSE
    BY <1>2
  <2> QED BY <1>0, <1>2, <2>1 DEF Held
<1>6. Len(flight) - Len(chan[d]) = Len(out[d]) + 1
  <2>1. /\ Len(flight) - Len(chan[d]) = Busy(d) + Len(out[d]) /\ Busy(d) = 1
    BY <1>t, StepIndex DEF Busy
  <2>2. Len(out[d]) \in Nat
    BY SeqFacts
  <2> DEFINE O == Len(out[d])
  <2>3. O \in Nat /\ 1 + O = O + 1
    BY <2>2
  <2> QED BY <2>1, <2>3
<1>7. ASSUME NEW i \in DOMAIN out'[d], out'[d][i] = A PROVE Upto(Acts, i)
  <2>1. \/ i \in DOMAIN out[d] /\ out'[d][i] = out[d][i]
        \/ i = Len(out[d]) + 1 /\ out'[d][i] = ready[d]
    BY <1>3 DEF Appended
  <2>2. CASE i \in DOMAIN out[d] /\ out'[d][i] = out[d][i]
    BY <1>7, <2>2 DEF BehindInv
  <2>3. CASE i = Len(out[d]) + 1 /\ out'[d][i] = ready[d]
    <3>1. Held(d)
      BY <1>7, <2>3 DEF Held
    <3> QED BY <3>1, <2>3, <1>6 DEF BehindInv
  <2> QED BY <2>1, <2>2, <2>3
<1> QED BY <1>0, <1>4, <1>5, <1>7 DEF BehindInv

LEMMA BehindPrepare ==
  ASSUME TypeInv, NEW d \in Devices, BehindInv(d),
         BeginPrepare(d) \/ \E ok \in BOOLEAN : EndPrepare(d, ok)
  PROVE  BehindInv(d)'
<1>0. UNCHANGED <<flight, chan, fwd, out, active_prepare_token, prepared_tokens>>
  BY DEF BeginPrepare, EndPrepare, mgr, eng
<1>t. /\ running \in [Devices -> Seq(RunSet)] /\ tasks \in [Devices -> Seq(TaskSet)]
      /\ ready \in [Devices -> Token]
  BY DEF TypeInv, DevType
<1>1. Held(d)' => Held(d)
  <2>1. CASE BeginPrepare(d)
    <3> DEFINE t == Head(tasks[d])
    <3>1. /\ tasks'[d] = Tail(tasks[d]) /\ ready' = ready /\ tasks[d] # <<>>
          /\ running'[d] = <<[task |-> t, base |-> live[d][t.layer]]>>
      BY <2>1, <1>t DEF BeginPrepare
    <3>2. Dropped(tasks[d], tasks'[d])
      BY <3>1, <1>t, TailFacts
    <3>3. t = tasks[d][1] /\ 1 \in DOMAIN tasks[d]
          /\ \A i \in DOMAIN tasks'[d] : i + 1 \in DOMAIN tasks[d] /\ tasks'[d][i] = tasks[d][i + 1]
      BY <3>2, DroppedAt DEF Dropped
    <3> HIDE DEF t
    <3>4. \A i \in DOMAIN running'[d] : running'[d][i].task = t
      BY <3>1
    <3> QED BY <1>0, <3>1, <3>3, <3>4 DEF Held
  <2>2. CASE \E ok \in BOOLEAN : EndPrepare(d, ok)
    <3>1. /\ tasks' = tasks /\ running[d] # <<>> /\ running'[d] = <<>>
          /\ ready'[d] \in {ready[d], Head(running[d]).task.token}
      BY <2>2, <1>t DEF EndPrepare
    <3>2. 1 \in DOMAIN running[d] /\ Head(running[d]) = running[d][1]
      BY <3>1, <1>t
    <3>3. \A i \in DOMAIN running'[d] : FALSE
      BY <3>1
    <3> QED BY <1>0, <3>1, <3>2, <3>3 DEF Held
  <2> QED BY <2>1, <2>2
<1> QED BY <1>0, <1>1, BehindFrame

LEMMA BehindNext ==
  ASSUME TypeInv, MgrInv, FlightInv, PairInv, NEW d \in Devices, DevInv(d), BehindInv(d),
         [Next]_vars
  PROVE  BehindInv(d)'
<1>0. StepInv(d) /\ TaskInv(d) /\ LastInv(d)
  BY DEF DevInv
<1>1. CASE \/ RebalanceSnapshot \/ RebalanceSkip \/ Rebalance \/ ManagerReady
           \/ ManagerTimeout \/ CollectLoad \/ UNCHANGED vars
  <2>1. /\ UNCHANGED <<flight, chan, fwd, tasks, running, ready, out>>
        /\ active_prepare_token' # None => UNCHANGED <<active_prepare_token, prepared_tokens>>
    BY <1>1 DEF RebalanceSnapshot, RebalanceSkip, Rebalance, RebalanceRound, ManagerReady,
                ManagerTimeout, CollectLoad, vars, mgr, eng, dev
  <2>2. active_prepare_token' # None => (Held(d)' => Held(d))
    BY <2>1 DEF Held
  <2> QED BY <2>1, <2>2, BehindFrame
<1>2. CASE DispatchDecode
  <2> DEFINE info == GetEplbInfo
  <2>1. info \in Infos /\ Send(info, FALSE) /\ prepared_tokens' = prepared_tokens
    BY <1>2, InfoType DEF DispatchDecode
  <2>2. \/ info.token = None /\ active_prepare_token' = active_prepare_token
        \/ active_prepare_token' = next_prepare_token
    BY <1>2, DecodeFacts
  <2>3. active_prepare_token # None => info.activation = None
    <3>1. active_prepare_token # None => ~Activates
      BY DEF PairInv, Activates
    <3> QED BY <3>1, <1>2, DecodeFacts
  <2> HIDE DEF info
  <2> QED BY <1>0, <2>1, <2>2, <2>3, BehindSend
<1>3. CASE DispatchOther \/ DispatchWarmup
  <2>1. UNCHANGED <<active_prepare_token, prepared_tokens>>
    BY <1>3 DEF DispatchOther, DispatchWarmup, mgr
  <2>2. NoCommand \in Infos /\ NoCommand.activation = None /\ NoCommand.token = None
    BY InfoType DEF NoCommand
  <2>3. PICK warm \in BOOLEAN : Send(NoCommand, warm)
    BY <1>3 DEF DispatchOther, DispatchWarmup
  <2> QED BY <1>0, <2>1, <2>2, <2>3, BehindSend
<1>4. CASE CollectPrepared
  BY <1>0, <1>4, BehindCollect
<1>5. CASE \/ StartStep(d) \/ FinishStep(d) \/ RecordOutput(d) \/ BeginPrepare(d)
           \/ \E ok \in BOOLEAN : EndPrepare(d, ok)
  BY <1>0, <1>5, BehindStart, BehindFinish, BehindRecord, BehindPrepare
<1>6. ASSUME NEW e \in Devices, e # d,
             \/ StartStep(e) \/ FinishStep(e) \/ RecordOutput(e) \/ BeginPrepare(e)
             \/ \E ok \in BOOLEAN : EndPrepare(e, ok)
      PROVE  BehindInv(d)'
  <2>1. UNCHANGED <<active_prepare_token, prepared_tokens, flight>>
    BY <1>6 DEF StartStep, FinishStep, RecordOutput, BeginPrepare, EndPrepare, mgr, eng
  <2>2. /\ chan'[d] = chan[d] /\ fwd'[d] = fwd[d] /\ tasks'[d] = tasks[d]
        /\ running'[d] = running[d] /\ ready'[d] = ready[d] /\ out'[d] = out[d]
    BY <1>6 DEF StartStep, FinishStep, RecordOutput, BeginPrepare, EndPrepare, TypeInv, DevType
  <2>3. Held(d)' => Held(d)
    BY <2>1, <2>2 DEF Held
  <2> QED BY <2>1, <2>2, <2>3, BehindFrame
<1> QED BY <1>1, <1>2, <1>3, <1>4, <1>5, <1>6 DEF Next

LEMMA InitJInv == ASSUME NoSkew, Init PROVE JInv
<1>1. IInv
  BY InitInv
<1>2. PairInv
  BY DEF Init, PairInv, NoSkew
<1>3. PolicyInv
  <2>1. \A l \in Layers : ~InRound(l)
    BY Consts DEF Init, InRound
  <2> QED BY <2>1 DEF Init, PolicyInv
<1>4. \A d \in Devices : BehindInv(d)
  BY DEF Init, BehindInv
<1> QED BY <1>1, <1>2, <1>3, <1>4 DEF JInv

LEMMA NextJInv == ASSUME JInv, [Next]_vars PROVE JInv'
<1>0. /\ IInv /\ TypeInv /\ MgrInv /\ FlightInv /\ PairInv /\ PolicyInv
      /\ \A d \in Devices : DevInv(d) /\ BehindInv(d)
  BY DEF JInv, IInv
<1>1. IInv' /\ PairInv'
  BY <1>0, NextInv, PairNext
<1>2. PolicyInv'
  <2>1. active_prepare_token # None => pending.layer = None
    BY <1>0 DEF PairInv
  <2> QED BY <1>0, <2>1, PolicyNext
<1>3. \A d \in Devices : BehindInv(d)'
  BY <1>0, BehindNext
<1> QED BY <1>1, <1>2, <1>3 DEF JInv

LEMMA AlwaysJInv == ASSUME NoSkew PROVE Spec => []JInv
BY InitJInv, NextJInv, PTL DEF Spec

\* Unless warm-up steps ran under schedule overlap, an activation is acknowledged
\* with the output of the step that carried it: while the manager awaits it, it is
\* in flight or being acknowledged (update_last_step_result).
THEOREM TokensLeaveWithTheirSteps == ASSUME NoSkew PROVE Spec => []AckedWithItsStep
<1>1. JInv => AckedWithItsStep
  BY DEF JInv, PairInv, AckedWithItsStep
<1> QED BY <1>1, AlwaysJInv, PTL

\* Under the same condition a plan the policy booked as adopted is waiting in the
\* round, pending or being acknowledged until it is committed or aborted: the
\* single pending slot never drops one.
THEOREM PlansAreKept == ASSUME NoSkew PROVE Spec => []NoPlanLost
<1>1. JInv => NoPlanLost
  BY DEF JInv, PolicyInv, InRound, NoPlanLost
<1> QED BY <1>1, AlwaysJInv, PTL

\* Under the same condition the policy computes without the mutex only when no
\* commit or abort can be under way, from the loads of the active generation and
\* from the placement that is active (rebalance_experts_loop, Phase 3).
THEOREM PolicyComputesAlone == ASSUME NoSkew PROVE Spec => []PolicyAlone
<1>1. JInv => PolicyAlone
  <2> SUFFICES ASSUME JInv, reb.pc = "compute", ~reb.busy
               PROVE  /\ active_layer_id = None /\ awaiting.layer = None
                      /\ reb.gen = generation /\ assignment = active_expert_distribution
    BY DEF PolicyAlone
  <2>1. /\ active_layer_id = None /\ pending.layer = None /\ awaiting.layer = None
        /\ reb.gen = generation
    BY DEF JInv, IInv, MgrInv
  <2>2. \A l \in Layers : ~InRound(l)
    BY <2>1, Consts DEF InRound
  <2>3. \A l \in Layers : assignment[l] = active_expert_distribution[l]
    BY <2>2 DEF JInv, PolicyInv
  <2>4. assignment \in [Layers -> Plans] /\ active_expert_distribution \in [Layers -> Plans]
    BY DEF JInv, IInv, TypeInv, MgrType, PolType
  <2> QED BY <2>1, <2>3, <2>4
<1> QED BY <1>1, AlwaysJInv, PTL
=============================================================================
