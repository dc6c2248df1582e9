------------------------------ MODULE DisaggPD ------------------------------
(***************************************************************************)
(* The hand-off of requests from a prefill instance to a decode instance   *)
(* (disagg_pd_scheduler.cpp and, on the decode side,                       *)
(* disagg_pd_service_impl.cpp): AddNewRequests reserves decode blocks,     *)
(* prefill pushes KV into them chunk by chunk, FirstGeneration hands the   *)
(* request over, ReleaseReservation gives the blocks back when any of this *)
(* fails, and unlink/link of the decode instance cut the sequence short.   *)
(*                                                                         *)
(* brpc is external.  A call may fail at the caller while its message is   *)
(* lost, still under way, or being served; such a message and such a       *)
(* handler are called abandoned: nobody reads their reply.  A connection   *)
(* error makes brpc send the same request again (max_retry), which         *)
(* abandons the first copy.                                                *)
(***************************************************************************)
EXTENDS Integers, FiniteSets, FiniteSetsExt

CONSTANTS NumRequests,  \* requests, numbered by created_time
          Chunks,       \* chunks of each request's prefill
          MayBeTooLong, \* requests the decode may be unable to hold at any load
          Leavers,      \* requests whose client may leave
          Capacity,     \* reservations that fit into the decode's blocks
          MaxFaults,    \* bound: failed calls, pushes and preparations
          MaxResends,   \* bound: calls sent again by brpc
          MaxUnlinks    \* bound: calls of unlink_instance

Requests == 1 .. NumRequests
kMaxAttempts == 3

ASSUME DisaggAssumption ==
  /\ NumRequests \in Nat \ {0} /\ Chunks \in [Requests -> Nat \ {0}]
  /\ MayBeTooLong \subseteq Requests /\ Leavers \subseteq Requests
  /\ Capacity \in Nat \ {0}
  /\ MaxFaults \in Nat /\ MaxResends \in Nat /\ MaxUnlinks \in Nat

VARIABLES
  \* --- prefill instance
  pc,        \* where the request is; "done" and "failed" are terminal
  left,      \* requests whose client has gone
  peer,      \* requests with a decode_rpc_address
  stamp,     \* decode_link_epoch of the request
  chunk,     \* chunks prefilled and pushed
  link,      \* decode_link_epochs_, unlinked_instances_, pending_unlinks_,
             \* and the epoch a running link_instance has observed
  task,      \* release attempts left (0: no release task)
  \* --- calls: [st, late], the current call and the abandoned messages
  add, gen, rel,
  \* --- decode instance
  admitted,  \* abandoned AddNewRequests handlers that hold blocks
  resv,      \* the decode's Request object
  kv,        \* chunks in the blocks of that object
  tombs,     \* cancelled_reservations_
  too_long,  \* requests the decode cannot hold at any load
  \* --- bounds and history
  faults, resends,
  resent,    \* requests whose AddNewRequests, FirstGeneration was sent again
  exhausted, \* requests whose release ran out of attempts
  severed    \* requests whose decode was unlinked after their dispatch

prefill == <<pc, left, peer, stamp, chunk, link, task>>
decode  == <<admitted, resv, kv, tombs, too_long>>
history == <<faults, resends, resent, exhausted, severed>>
vars    == <<prefill, add, gen, rel, decode, history>>

NoCall == [st |-> "none", late |-> 0]
NoEpoch == -1

Init ==
  /\ pc = [r \in Requests |-> "new"] /\ left = {} /\ peer = {}
  /\ stamp = [r \in Requests |-> 0] /\ chunk = [r \in Requests |-> 0]
  /\ link = [epoch |-> 0, down |-> FALSE, pending |-> 0, observed |-> NoEpoch]
  /\ task = [r \in Requests |-> 0]
  /\ add = [r \in Requests |-> NoCall] /\ gen = add /\ rel = add
  /\ admitted = [r \in Requests |-> 0]
  /\ resv = [r \in Requests |-> "none"] /\ kv = [r \in Requests |-> 0]
  /\ tombs = {} /\ too_long \in SUBSET MayBeTooLong
  /\ faults = 0 /\ resends = 0
  /\ resent = [add |-> {}, gen |-> {}] /\ exhausted = {} /\ severed = {}

Fault == faults < MaxFaults /\ faults' = faults + 1
NoFault == faults' = faults

\* The caller gives up a call: a message not yet served is lost or comes late.
Abandoned(c) ==
  {[st |-> "none", late |-> c.late + n] : n \in IF c.st = "sent" THEN {0, 1} ELSE {0}}

Answered(c, reply) == [st |-> reply, late |-> c.late]
Sent(c) == Answered(c, "sent")
Returned(c) == Answered(c, "none")

\* An abandoned message is served.
Delivered(c) == [st |-> c.st, late |-> c.late - 1]

----------------------------------------------------------------------------
(* Prefill: failure *)

\* release_failed_request: a release task for the peer that may hold a
\* reservation.  R are the requests with an address when it is called.
release_failed_request(r, R) ==
  /\ task' = IF r \in R THEN [task EXCEPT ![r] = kMaxAttempts] ELSE task
  /\ peer' = R \ {r}

Fails(r) == pc' = [pc EXCEPT ![r] = "failed"]

FailAndRelease(r) == Fails(r) /\ release_failed_request(r, peer)

----------------------------------------------------------------------------
(* Prefill: dispatch_requests(), one thread with synchronous calls *)

Arrive(r) ==
  /\ pc[r] = "new"
  /\ pc' = [pc EXCEPT ![r] = "pending"]
  /\ UNCHANGED <<left, peer, stamp, chunk, link, task, add, gen, rel, decode, history>>

Leave(r) ==
  /\ r \in Leavers \ left /\ pc[r] \notin {"new", "done", "failed"}
  /\ left' = left \union {r}
  /\ UNCHANGED <<pc, peer, stamp, chunk, link, task, add, gen, rel, decode, history>>

\* pending.top(): the oldest request, when the thread is in no call.
Top(r) ==
  /\ \A q \in Requests : pc[q] # "adding"
  /\ pc[r] = "pending" /\ \A q \in 1 .. r - 1 : pc[q] # "pending"

discard_cancelled_dispatch_request(r) ==
  /\ Top(r) /\ r \in left
  /\ FailAndRelease(r)
  /\ UNCHANGED <<left, stamp, chunk, link, add, gen, rel, decode, history>>

\* No record of the decode instance, an incompatible one, or no channel to it.
DispatchRefused(r) ==
  /\ Top(r) /\ r \notin left
  /\ Fault /\ Fails(r)
  /\ UNCHANGED <<left, peer, stamp, chunk, link, task, add, gen, rel, decode,
                 resends, resent, exhausted, severed>>

\* The epoch is stamped before the call, because an unlink may come during it.
Dispatch(r) ==
  /\ Top(r) /\ r \notin left
  /\ pc' = [pc EXCEPT ![r] = "adding"]
  /\ stamp' = [stamp EXCEPT ![r] = link.epoch]
  /\ add' = [add EXCEPT ![r] = Sent(@)]
  /\ severed' = severed \ {r}
  /\ UNCHANGED <<left, peer, chunk, link, task, gen, rel, decode,
                 faults, resends, resent, exhausted>>

\* "The RPC may have allocated Decode blocks before its reply was lost."
AddFails(r) ==
  /\ pc[r] = "adding" /\ Fault
  /\ \E c \in Abandoned(add[r]) : add' = [add EXCEPT ![r] = c]
  /\ admitted' = IF add[r].st = "serving" THEN [admitted EXCEPT ![r] = @ + 1] ELSE admitted
  /\ Fails(r) /\ release_failed_request(r, peer \union {r})
  /\ UNCHANGED <<left, stamp, chunk, link, gen, rel, resv, kv, tombs, too_long,
                 resends, resent, exhausted, severed>>

\* 404 and 500 are retried from the local queue; an accepted request whose
\* client has left is released at once.
AddReturns(r) ==
  /\ add[r].st \in {"200", "404", "500", "too_long"}
  /\ add' = [add EXCEPT ![r] = Returned(@)]
  /\ LET accepted == add[r].st = "200"
         R == IF accepted THEN peer \union {r} ELSE peer
     IN \/ /\ r \in left
           /\ Fails(r) /\ release_failed_request(r, R)
        \/ /\ r \notin left
           /\ pc' = [pc EXCEPT ![r] = CASE accepted -> "queued"
                                        [] add[r].st = "too_long" -> "failed"
                                        [] OTHER -> "pending"]
           /\ peer' = R /\ UNCHANGED task
  /\ UNCHANGED <<left, stamp, chunk, link, gen, rel, decode, history>>

----------------------------------------------------------------------------
(* Prefill: the scheduler loop *)

\* Mutant: a decode instance that was linked again counts as never unlinked.
Stale_DownOnly(r) == link.down

\* reject_queued_request: the decode is unlinked, or was since the dispatch.
\* (A request that was already cancelled passes and is dropped by the policy
\* before it can run; here it fails at once.)
Stale(r) == link.down \/ stamp[r] < link.epoch

Drain(r) ==
  /\ pc[r] = "queued"
  /\ \/ Stale(r) /\ FailAndRelease(r)
     \/ ~Stale(r) /\ pc' = [pc EXCEPT ![r] = "waiting"] /\ UNCHANGED <<peer, task>>
  /\ UNCHANGED <<left, stamp, chunk, link, add, gen, rel, decode, history>>

\* The next chunk goes into a batch; its KV is pushed while it runs.
Schedule(r) ==
  /\ pc[r] = "waiting"
  /\ pc' = [pc EXCEPT ![r] = "running"]
  /\ UNCHANGED <<left, peer, stamp, chunk, link, task, add, gen, rel, decode, history>>

\* A cancelled request is dropped from the queue, or the head of the queue
\* cannot be scheduled at all.
DropWaiting(r) ==
  /\ pc[r] = "waiting"
  /\ \/ r \in left /\ NoFault
     \/ Fault
  /\ FailAndRelease(r)
  /\ UNCHANGED <<left, stamp, chunk, link, add, gen, rel, decode,
                 resends, resent, exhausted, severed>>

\* The step has waited for the chunk's push.  After the last chunk the request
\* has its first token; after another one it is collected or queued again.
StepEnds(r) ==
  /\ pc[r] = "running"
  /\ chunk' = [chunk EXCEPT ![r] = @ + 1]
  /\ kv' = IF resv[r] = "waiting" THEN [kv EXCEPT ![r] = @ + 1] ELSE kv
  /\ LET last == chunk[r] + 1 = Chunks[r]
     IN \/ ~last /\ r \in left /\ FailAndRelease(r)
        \/ /\ last \/ r \notin left
           /\ pc' = [pc EXCEPT ![r] = IF last THEN "first" ELSE "waiting"]
           /\ UNCHANGED <<peer, task>>
  /\ UNCHANGED <<left, stamp, link, add, gen, rel, admitted, resv, tombs, too_long, history>>

\* Mutant: a request whose push failed is handed over like any other.
PushFails_Ignored(r) ==
  /\ pc[r] = "running" /\ Fault
  /\ pc' = [pc EXCEPT ![r] = "first"]
  /\ UNCHANGED <<left, peer, stamp, chunk, link, task, add, gen, rel, decode,
                 resends, resent, exhausted, severed>>

\* The engine reports the push as failed: sequence->fail, then the release.
PushFails(r) ==
  /\ pc[r] = "running" /\ Fault
  /\ FailAndRelease(r)
  /\ UNCHANGED <<left, stamp, chunk, link, add, gen, rel, decode,
                 resends, resent, exhausted, severed>>

----------------------------------------------------------------------------
(* Prefill: prefill_send_first_generation(), one pool thread *)

SendFirst(r) ==
  /\ pc[r] = "first" /\ \A q \in Requests : pc[q] # "handing"
  /\ pc' = [pc EXCEPT ![r] = "handing"]
  /\ gen' = [gen EXCEPT ![r] = Sent(@)]
  /\ UNCHANGED <<left, peer, stamp, chunk, link, task, add, rel, decode, history>>

\* The bootstrap embedding is missing or cannot be serialised.
PrepareFails(r) ==
  /\ pc[r] = "first" /\ \A q \in Requests : pc[q] # "handing"
  /\ Fault /\ FailAndRelease(r)
  /\ UNCHANGED <<left, stamp, chunk, link, add, gen, rel, decode,
                 resends, resent, exhausted, severed>>

\* fail_handoff_request after an error of the call.
GenFails(r) ==
  /\ pc[r] = "handing" /\ Fault
  /\ \E c \in Abandoned(gen[r]) : gen' = [gen EXCEPT ![r] = c]
  /\ FailAndRelease(r)
  /\ UNCHANGED <<left, stamp, chunk, link, add, rel, decode,
                 resends, resent, exhausted, severed>>

\* The decode owns the reservation now, or has refused the hand-off.
GenReturns(r) ==
  /\ gen[r].st \in {"yes", "no"}
  /\ gen' = [gen EXCEPT ![r] = Returned(@)]
  /\ \/ /\ gen[r].st = "yes"
        /\ pc' = [pc EXCEPT ![r] = "done"] /\ peer' = peer \ {r} /\ UNCHANGED task
     \/ gen[r].st = "no" /\ FailAndRelease(r)
  /\ UNCHANGED <<left, stamp, chunk, link, add, rel, decode, history>>

\* A connection error: brpc sends the request of a running call again, on the
\* channel of create_rpc_channel only.
ResendAdd(r) ==
  /\ pc[r] = "adding" /\ resends < MaxResends
  /\ \E c \in Abandoned(add[r]) : add' = [add EXCEPT ![r] = Sent(c)]
  /\ admitted' = IF add[r].st = "serving" THEN [admitted EXCEPT ![r] = @ + 1] ELSE admitted
  /\ resends' = resends + 1 /\ resent' = [resent EXCEPT !.add = @ \union {r}]
  /\ UNCHANGED <<prefill, gen, rel, resv, kv, tombs, too_long, faults, exhausted, severed>>

ResendGen(r) ==
  /\ pc[r] = "handing" /\ resends < MaxResends
  /\ \E c \in Abandoned(gen[r]) : gen' = [gen EXCEPT ![r] = Sent(c)]
  /\ resends' = resends + 1 /\ resent' = [resent EXCEPT !.gen = @ \union {r}]
  /\ UNCHANGED <<prefill, add, rel, decode, faults, exhausted, severed>>

----------------------------------------------------------------------------
(* Prefill: send_reservation_release(), one pool thread *)

SendRelease(r) ==
  /\ task[r] > 0 /\ \A q \in Requests : rel[q].st = "none"
  /\ rel' = [rel EXCEPT ![r] = Sent(@)]
  /\ UNCHANGED <<prefill, add, gen, decode, history>>

\* The channel cannot be initialised: the task is given up without an attempt.
ReleaseNoChannel(r) ==
  /\ task[r] = kMaxAttempts /\ (\A q \in Requests : rel[q].st = "none") /\ Fault
  /\ task' = [task EXCEPT ![r] = 0]
  /\ exhausted' = exhausted \union {r}
  /\ UNCHANGED <<pc, left, peer, stamp, chunk, link, add, gen, rel, decode,
                 resends, resent, severed>>

ReleaseFails(r) ==
  /\ rel[r].st # "none" /\ Fault
  /\ \E c \in Abandoned(rel[r]) : rel' = [rel EXCEPT ![r] = c]
  /\ task' = [task EXCEPT ![r] = @ - 1]
  /\ exhausted' = IF task[r] = 1 THEN exhausted \union {r} ELSE exhausted
  /\ UNCHANGED <<pc, left, peer, stamp, chunk, link, add, gen, decode,
                 resends, resent, severed>>

\* RELEASED and NOT_WAITING both end the task; after kMaxAttempts it is given up.
ReleaseReturns(r) ==
  /\ rel[r].st = "served"
  /\ rel' = [rel EXCEPT ![r] = Returned(@)]
  /\ task' = [task EXCEPT ![r] = 0]
  /\ UNCHANGED <<pc, left, peer, stamp, chunk, link, add, gen, decode, history>>

----------------------------------------------------------------------------
(* Prefill: the decode instance is unlinked and linked again.  Both hold     *)
(* linked_instances_mutex_, unlink_instance only after it has published.     *)

UnlinkPublish ==
  /\ link.epoch < MaxUnlinks
  /\ link' = [link EXCEPT !.epoch = @ + 1, !.down = TRUE, !.pending = @ + 1]
  /\ severed' = severed \union {r \in Requests : pc[r] \in {"adding", "queued"}}
  /\ UNCHANGED <<pc, left, peer, stamp, chunk, task, add, gen, rel, decode,
                 faults, resends, resent, exhausted>>

UnlinkDone ==
  /\ link.pending > 0 /\ link.observed = NoEpoch
  /\ link' = [link EXCEPT !.pending = @ - 1]
  /\ UNCHANGED <<pc, left, peer, stamp, chunk, task, add, gen, rel, decode, history>>

LinkStart ==
  /\ link.observed = NoEpoch
  /\ link' = [link EXCEPT !.observed = link.epoch]
  /\ UNCHANGED <<pc, left, peer, stamp, chunk, task, add, gen, rel, decode, history>>

\* link_cluster succeeds or fails.
LinkEnd ==
  /\ link.observed # NoEpoch
  /\ \E linked \in BOOLEAN :
       link' = [link EXCEPT !.observed = NoEpoch,
                            !.down = @ /\ ~(linked /\ link.epoch = link.observed
                                                   /\ link.pending = 0)]
  /\ UNCHANGED <<pc, left, peer, stamp, chunk, task, add, gen, rel, decode, history>>

----------------------------------------------------------------------------
(* Decode *)

Alive(r) == resv[r] # "none"

Used ==
  LET handlers(r) == admitted[r] + IF add[r].st = "serving" THEN 1 ELSE 0
      blocks(r)   == handlers(r) + IF Alive(r) THEN 1 ELSE 0
  IN MapThenSumSet(blocks, Requests)

\* decode_recv_new_requests, first half: try_admit takes the blocks.
Admit(r) ==
  /\ add[r].st = "sent"
  /\ add' = [add EXCEPT ![r] = Answered(@, IF r \in too_long THEN "too_long"
                                           ELSE IF Used >= Capacity THEN "404"
                                           ELSE "serving")]
  /\ UNCHANGED <<prefill, gen, rel, decode, history>>

AdmitLate(r) ==
  /\ add[r].late > 0
  /\ add' = [add EXCEPT ![r] = Delivered(@)]
  /\ admitted' = IF r \in too_long \/ Used >= Capacity THEN admitted
                 ELSE [admitted EXCEPT ![r] = @ + 1]
  /\ UNCHANGED <<prefill, gen, rel, resv, kv, tombs, too_long, history>>

\* Mutant: a late request is not checked against released reservations.
Refused_NoTombstone(r) == Alive(r)

\* decode_schedule turns away a released reservation and a duplicate.
Refused(r) == r \in tombs \/ Alive(r)

\* decode_schedule: the reservation waits, or its blocks are given back.
decode_schedule(r) ==
  \/ /\ Refused(r)
     /\ UNCHANGED <<resv, kv>>
  \/ /\ ~Refused(r)
     /\ resv' = [resv EXCEPT ![r] = "waiting"]
     /\ kv' = [kv EXCEPT ![r] = 0]

Register(r) ==
  /\ add[r].st = "serving"
  /\ decode_schedule(r)
  /\ add' = [add EXCEPT ![r] = Answered(@, IF Refused(r) THEN "500" ELSE "200")]
  /\ UNCHANGED <<prefill, gen, rel, admitted, tombs, too_long, history>>

\* Mutant: the blocks of a refused request are not given back.
RegisterLate_KeepsBlocks(r) ==
  /\ admitted[r] > 0
  /\ decode_schedule(r)
  /\ admitted' = IF Refused(r) THEN admitted ELSE [admitted EXCEPT ![r] = @ - 1]
  /\ UNCHANGED <<prefill, add, gen, rel, tombs, too_long, history>>

RegisterLate(r) ==
  /\ admitted[r] > 0
  /\ decode_schedule(r)
  /\ admitted' = [admitted EXCEPT ![r] = @ - 1]
  /\ UNCHANGED <<prefill, add, gen, rel, tombs, too_long, history>>

\* release_reservation: tombstone, and give a waiting reservation back.
ServeRelease(r) ==
  /\ \/ rel[r].st = "sent" /\ rel' = [rel EXCEPT ![r] = Answered(@, "served")]
     \/ rel[r].late > 0 /\ rel' = [rel EXCEPT ![r] = Delivered(@)]
  /\ tombs' = tombs \union {r}
  /\ resv' = IF resv[r] = "waiting" THEN [resv EXCEPT ![r] = "none"] ELSE resv
  /\ UNCHANGED <<prefill, add, gen, admitted, kv, too_long, history>>

\* decode_recv_first_generation takes the waiting request and prepares it.
ServeGen(r) ==
  /\ resv' = IF resv[r] = "waiting" THEN [resv EXCEPT ![r] = "restoring"] ELSE resv
  /\ \/ /\ gen[r].st = "sent"
        /\ gen' = [gen EXCEPT ![r] = Answered(@, IF resv[r] = "waiting" THEN "serving" ELSE "no")]
     \/ /\ gen[r].late > 0
        /\ gen' = [gen EXCEPT ![r] = Delivered(@)]
  /\ UNCHANGED <<prefill, add, rel, admitted, kv, tombs, too_long, history>>

\* It enters the decode's queue, or one of the checks, the pull or the queue
\* fails and it is destroyed with its blocks.
Restore(r) ==
  /\ resv[r] = "restoring"
  /\ \E ok \in BOOLEAN :
       /\ IF ok THEN NoFault ELSE Fault
       /\ resv' = [resv EXCEPT ![r] = IF ok THEN "running" ELSE "none"]
       /\ gen' = IF gen[r].st = "serving"
                 THEN [gen EXCEPT ![r] = Answered(@, IF ok THEN "yes" ELSE "no")]
                 ELSE gen
  /\ UNCHANGED <<prefill, add, rel, admitted, kv, tombs, too_long,
                 resends, resent, exhausted, severed>>

\* The decode scheduler ends the request.
DecodeEnds(r) ==
  /\ resv[r] = "running"
  /\ resv' = [resv EXCEPT ![r] = "none"]
  /\ UNCHANGED <<prefill, add, gen, rel, admitted, kv, tombs, too_long, history>>

----------------------------------------------------------------------------
Dispatcher(r) ==
  discard_cancelled_dispatch_request(r) \/ Dispatch(r) \/ AddReturns(r)

Prefill(r) ==
  Drain(r) \/ Schedule(r) \/ DropWaiting(r) \/ StepEnds(r) \/ PushFails(r)

HandOff(r) == SendFirst(r) \/ GenReturns(r)

Release(r) == SendRelease(r) \/ ReleaseReturns(r)

Decode(r) ==
  \/ Admit(r) \/ AdmitLate(r) \/ Register(r) \/ RegisterLate(r)
  \/ ServeRelease(r) \/ ServeGen(r) \/ Restore(r) \/ DecodeEnds(r)

Environment(r) ==
  \/ Arrive(r) \/ Leave(r) \/ DispatchRefused(r) \/ PrepareFails(r)
  \/ AddFails(r) \/ GenFails(r) \/ ReleaseNoChannel(r) \/ ReleaseFails(r)
  \/ ResendAdd(r) \/ ResendGen(r)

Next ==
  \/ \E r \in Requests : \/ Dispatcher(r) \/ Prefill(r) \/ HandOff(r) \/ Release(r)
                         \/ Decode(r) \/ Environment(r)
  \/ UnlinkPublish \/ UnlinkDone \/ LinkStart \/ LinkEnd

Spec == Init /\ [][Next]_vars

\* The threads of both instances keep running, a call that is not abandoned
\* is served, and the decode finishes what it runs.  Nothing is assumed of
\* failures, links, or messages whose caller has given up.
Fairness ==
  \A r \in Requests :
    /\ WF_vars(Dispatcher(r)) /\ WF_vars(Prefill(r)) /\ WF_vars(HandOff(r))
    /\ WF_vars(Release(r))
    /\ WF_vars(Admit(r)) /\ WF_vars(Register(r)) /\ WF_vars(RegisterLate(r))
    /\ WF_vars(ServeRelease(r) /\ rel[r].st = "sent")
    /\ WF_vars(ServeGen(r) /\ gen[r].st = "sent")
    /\ WF_vars(Restore(r)) /\ WF_vars(DecodeEnds(r))

FairSpec == Spec /\ Fairness

----------------------------------------------------------------------------
(* Properties *)

\* The KV the prefill has pushed is in the blocks the decode reserved for the
\* request: they stay reserved until the hand-off, whatever late, repeated or
\* failed calls there are, and the decode runs a request only on the KV of its
\* whole prompt, although kv_cache_tokens_num says so from admission on
\* (decode_recv_first_generation, release_failed_request).  Only if brpc has
\* repeated both calls can late copies of them run a request that is over on
\* empty blocks.
KvInItsReservation ==
  \A r \in Requests :
    /\ pc[r] \in {"queued", "waiting", "running", "first"} =>
         resv[r] = "waiting" /\ kv[r] = chunk[r]
    /\ resv[r] = "running" /\ r \notin resent.add \intersect resent.gen =>
         kv[r] = Chunks[r]

\* No reservation is forgotten: when the prefill is through with a request and
\* has no release task for it, the decode holds no blocks for it that wait for
\* a hand-off, and no message that is still under way can make it reserve any.
\* Except after a release that was given up ("reservation may remain
\* allocated") and after an AddNewRequests that brpc sent twice.
NoOrphanReservation ==
  \A r \in Requests \ (exhausted \union resent.add) :
    pc[r] \in {"done", "failed"} /\ task[r] = 0 => resv[r] # "waiting"

\* A request whose decode instance was unlinked between its dispatch and the
\* scheduler's look at it is not prefilled, also when the instance has been
\* linked again in the meantime (reject_queued_request, decode_link_epoch).
NoPrefillAcrossUnlink ==
  \A r \in severed : pc[r] \in {"pending", "adding", "queued", "failed"}

\* Every request that arrives is handed over or failed, unless brpc has sent a
\* call twice or a release was given up: dispatch retries a refused request
\* before all younger ones, for as long as a forgotten reservation takes the room.
RequestsEnd ==
  \A r \in Requests :
    pc[r] = "pending" ~> \/ pc[r] \in {"done", "failed"}
                         \/ resends > 0 \/ exhausted # {}
=============================================================================
