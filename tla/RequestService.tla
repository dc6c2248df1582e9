--------------------------- MODULE RequestService ---------------------------
(***************************************************************************)
(* What the scheduler promises its clients and the KV cache, whatever      *)
(* queues, policies, overlap and pauses it uses: an accepted request is    *)
(* answered at most once and keeps its answer, only an unanswered request  *)
(* has KV, a request that has its answer never gets KV again, and the      *)
(* requests together never hold more than the device has.                  *)
(* ContinuousScheduler is shown to implement it.                           *)
(***************************************************************************)
EXTENDS Integers, FiniteSets

CONSTANTS Requests, Blocks, Answers

VARIABLES status,   \* "offered", "rejected", "accepted", or an answer
          kv        \* blocks of each request

vars == <<status, kv>>

Init ==
  /\ status = [r \in Requests |-> "offered"]
  /\ kv = [r \in Requests |-> 0]

Decide(r) ==
  /\ status[r] = "offered"
  /\ \E d \in {"accepted", "rejected"} : status' = [status EXCEPT ![r] = d]
  /\ UNCHANGED kv

\* All blocks that requests hold.
InUse == Cardinality(UNION {{q} \X (1 .. kv[q]) : q \in Requests})

\* A request gets its first blocks or more of them.
Allocate(r) ==
  /\ status[r] = "accepted"
  /\ \E n \in kv[r] + 1 .. Blocks :
       /\ InUse + n - kv[r] <= Blocks
       /\ kv' = [kv EXCEPT ![r] = n]
  /\ UNCHANGED status

\* Requests lose their blocks, and some of them are answered.
Release(lost, answered) ==
  /\ answered \subseteq lost
  /\ \A r \in lost : status[r] = "accepted"
  /\ kv' = [r \in Requests |-> IF r \in lost THEN 0 ELSE kv[r]]
  /\ \E a \in Answers :
       status' = [r \in Requests |-> IF r \in answered THEN a ELSE status[r]]

Next ==
  \/ \E r \in Requests : Decide(r) \/ Allocate(r)
  \/ \E lost \in SUBSET Requests : \E answered \in SUBSET lost : Release(lost, answered)

Spec == Init /\ [][Next]_vars
=============================================================================
