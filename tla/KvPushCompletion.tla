-------------------------- MODULE KvPushCompletion --------------------------
(***************************************************************************)
(* The end of a prefill step on an instance that PUSHes KV to a decode     *)
(* instance.  Every rank of a data-parallel group pushes its share of the  *)
(* requests' KV while the forward pass runs; KVTransferCompletion::wait()  *)
(* settles the rank's own transfers, reduce_failed_request_ids() merges    *)
(* the failures over the rank's TP group and then over its CP group, and   *)
(* LLMEngine takes the answer of the driver rank alone.                    *)
(*                                                                         *)
(* Ranks form a grid (collective_communicator.cpp: orthogonal CP x TP):    *)
(* a TP group has one CP coordinate, a CP group one TP coordinate.         *)
(*                                                                         *)
(*   ids       requests with outgoing KV, the same on every rank           *)
(*   push      the rank's transfer future: still running, a value, or an   *)
(*             exception (none when there is nothing to push)              *)
(*   bad       requests the future reports as failed                       *)
(*   landed    requests whose KV this rank really delivered                *)
(*   phase     where the rank's step is                                    *)
(*   local     failed_request_ids_ of the rank's completion                *)
(*   coll      the collective the rank has entered (Gathers, in order)     *)
(*   reduced   reduced_bitmap                                              *)
(*   verdict   what the engine fails, once it has the driver's answer      *)
(***************************************************************************)
EXTENDS Integers, FiniteSets

CONSTANTS Requests,  \* requests of the data-parallel group
          Tp, Cp,    \* coordinates of the two axes
          Driver     \* dp_driver: the rank whose output the engine reads

Ranks == Tp \X Cp

ASSUME DriverAssumption == Driver \in Ranks

VARIABLES ids, push, bad, landed, phase, local, coll, reduced, verdict

vars == <<ids, push, bad, landed, phase, local, coll, reduced, verdict>>

NoVerdict == [known |-> FALSE, failed |-> {}]

-----------------------------------------------------------------------------
(* The transfer runs beside the forward pass and may outlive wait().       *)

PushEnds(r) ==
  /\ push[r] = "running"
  /\ \E end \in {"value", "exception"}, D \in SUBSET ids :
       /\ push' = [push EXCEPT ![r] = end]
       /\ landed' = [landed EXCEPT ![r] = D]
       /\ bad' = [bad EXCEPT ![r] = IF end = "value" THEN ids \ D ELSE {}]
  /\ UNCHANGED <<ids, phase, local, coll, reduced, verdict>>

\* The model has run; finalize_kv_push_failures() starts to wait.
ForwardEnds(r) ==
  /\ phase[r] = "forward"
  /\ phase' = [phase EXCEPT ![r] = "waiting"]
  /\ UNCHANGED <<ids, push, bad, landed, local, coll, reduced, verdict>>

-----------------------------------------------------------------------------
(* KVTransferCompletion::wait()                                            *)

\* Failures of a transfer that ended in time: those its tasks name, or all of
\* its requests (the fallback ids) when it threw.
FailedOf(r) == IF push[r] = "exception" THEN ids ELSE bad[r]

\* The first collective a settled rank enters; nothing outlives wait().
Settled(r, failed) ==
  /\ phase' = [phase EXCEPT ![r] = "reducing"]
  /\ local' = [local EXCEPT ![r] = failed]
  /\ coll' = [coll EXCEPT ![r] = 1]
  /\ UNCHANGED <<ids, push, bad, landed, reduced, verdict>>

\* collectAll() completes within wait_timeout_, or there is nothing to wait for.
Collect(r) ==
  /\ phase[r] = "waiting"
  /\ push[r] # "running"
  /\ Settled(r, FailedOf(r))

\* Mutant: a timeout gives up on the transfer instead of draining it.
WaitTimeout_NoDrain(r) ==
  /\ phase[r] = "waiting"
  /\ push[r] = "running"
  /\ Settled(r, ids)

\* The timeout fails every request of the transfer, which is then drained: it
\* may still be reading source blocks.
WaitTimeout(r) ==
  /\ phase[r] = "waiting"
  /\ push[r] = "running"
  /\ phase' = [phase EXCEPT ![r] = "draining"]
  /\ UNCHANGED <<ids, push, bad, landed, local, coll, reduced, verdict>>

Drained(r) ==
  /\ phase[r] = "draining"
  /\ push[r] # "running"
  /\ Settled(r, ids)

\* The drain is bounded too: LOG(FATAL).
DrainTimeout(r) ==
  /\ phase[r] = "draining"
  /\ push[r] = "running"
  /\ phase' = [phase EXCEPT ![r] = "fatal"]
  /\ UNCHANGED <<ids, push, bad, landed, local, coll, reduced, verdict>>

-----------------------------------------------------------------------------
(* reduce_failed_request_ids(): an all-gather of the request set over the  *)
(* TP and then the CP group, then, unless the set is empty, one of the     *)
(* failure bitmap over each.  A group of one rank gathers its own payload. *)

Group(g, r) == IF g \in {1, 3} THEN {m \in Ranks : m[2] = r[2]}
                               ELSE {m \in Ranks : m[1] = r[1]}

\* An all-gather returns when every member of the group has entered it.
Gathered(g, r) == \A m \in Group(g, r) : coll[m] >= g

\* Mutant: the bitmap of the second group replaces that of the first.
Merged_Overwrites(g, r) ==
  IF g \in {3, 4} THEN UNION {local[m] : m \in Group(g, r)} ELSE reduced[r]

\* The bitmap gathers merge the payloads of the group into reduced_bitmap.
Merged(g, r) ==
  reduced[r] \cup (IF g \in {3, 4} THEN UNION {local[m] : m \in Group(g, r)} ELSE {})

\* Mutant: a rank without failures skips the bitmaps.
LastGather_LocalEmpty(r) == IF local[r] = {} THEN 2 ELSE 4

\* The gather after which a rank has its answer.
LastGather(r) == IF ids = {} THEN 2 ELSE 4

Gather(r) ==
  /\ phase[r] = "reducing"
  /\ Gathered(coll[r], r)
  /\ reduced' = [reduced EXCEPT ![r] = Merged(coll[r], r)]
  /\ coll' = [coll EXCEPT ![r] = @ + 1]
  /\ phase' = [phase EXCEPT ![r] = IF coll[r] = LastGather(r) THEN "returned" ELSE @]
  /\ UNCHANGED <<ids, push, bad, landed, local, verdict>>

-----------------------------------------------------------------------------
\* LLMEngine: the driver's answer fails requests (fail_kv_push_requests); from
\* here on the scheduler may release the source blocks.  With schedule overlap
\* the engine waits for no other rank.
Report ==
  /\ phase[Driver] = "returned"
  /\ ~verdict.known
  /\ verdict' = [known |-> TRUE, failed |-> reduced[Driver]]
  /\ UNCHANGED <<ids, push, bad, landed, phase, local, coll, reduced>>

Init ==
  /\ ids \in SUBSET Requests
  /\ push = [r \in Ranks |-> IF ids = {} THEN "none" ELSE "running"]
  /\ bad = [r \in Ranks |-> {}]
  /\ landed = [r \in Ranks |-> {}]
  /\ phase = [r \in Ranks |-> "forward"]
  /\ local = [r \in Ranks |-> {}]
  /\ coll = [r \in Ranks |-> 0]
  /\ reduced = [r \in Ranks |-> {}]
  /\ verdict = NoVerdict

RankStep(r) ==
  \/ PushEnds(r) \/ ForwardEnds(r) \/ Collect(r) \/ WaitTimeout(r)
  \/ Drained(r) \/ DrainTimeout(r) \/ Gather(r)

Next == (\E r \in Ranks : RankStep(r)) \/ Report

Spec == Init /\ [][Next]_vars

\* The forward pass ends, timeouts fire and collectives complete; that a
\* transfer ends is not assumed.
Fairness ==
  /\ \A r \in Ranks : /\ WF_vars(ForwardEnds(r))
                      /\ WF_vars(Collect(r) \/ WaitTimeout(r))
                      /\ WF_vars(Drained(r) \/ DrainTimeout(r))
                      /\ WF_vars(Gather(r))
  /\ WF_vars(Report)

FairSpec == Spec /\ Fairness

-----------------------------------------------------------------------------
(* Properties                                                              *)

\* Type invariant.
TypeOK ==
  /\ ids \subseteq Requests
  /\ push \in [Ranks -> {"none", "running", "value", "exception"}]
  /\ bad \in [Ranks -> SUBSET Requests] /\ landed \in [Ranks -> SUBSET Requests]
  /\ phase \in [Ranks -> {"forward", "waiting", "draining", "fatal", "reducing",
                          "returned"}]
  /\ local \in [Ranks -> SUBSET Requests] /\ reduced \in [Ranks -> SUBSET Requests]
  /\ coll \in [Ranks -> 0 .. 5]
  /\ verdict \in [known : BOOLEAN, failed : SUBSET Requests]

\* Source blocks outlive the pushes: once the engine has the driver's answer,
\* and so may release the blocks, no rank of the grid is still pushing, even
\* one that shares no group with the driver (kv_transfer_completion.h, "Source
\* KV blocks must not be released while this object is pending").
SourceKvStays == verdict.known => \A r \in Ranks : push[r] # "running"

\* A request that the engine lets continue on the decode instance has its KV
\* there, from every rank that shares a group with the driver: on a grid with
\* one axis, from every rank.
OkMeansDelivered ==
  verdict.known =>
    \A q \in ids \ verdict.failed, r \in Ranks :
      r[1] = Driver[1] \/ r[2] = Driver[2] => q \in landed[r]

\* The driver's failures are every rank's (llm_engine.cpp, "the output on other
\* workers is the same as that on driver").
DriverSpeaksForAll ==
  \A r \in Ranks :
    phase[r] = "returned" /\ phase[Driver] = "returned" => reduced[r] = reduced[Driver]

\* A step always gets its verdict, or the process dies in a drain that never
\* ends: the collectives of the two axes cannot wait for each other in a circle
\* and no rank skips one that another has entered.
StepEnds == <>(verdict.known \/ \E r \in Ranks : phase[r] = "fatal")
=============================================================================
