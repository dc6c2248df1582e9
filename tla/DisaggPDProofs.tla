--------------------------- MODULE DisaggPDProofs ---------------------------
(***************************************************************************)
(* Proofs about DisaggPD, for every number of requests, chunks, failures,  *)
(* repeated calls and unlinks.  The invariant speaks of one request at a   *)
(* time: which messages, handlers and tasks of it can exist in each phase  *)
(* of its prefill, and what the decode then holds for it.                  *)
(***************************************************************************)
EXTENDS DisaggPD, TLAPS

Phases == {"new", "pending", "adding", "queued", "waiting", "running", "first",
           "handing", "done", "failed"}
Calls == [st : {"none", "sent", "serving", "served", "200", "404", "500",
                "too_long", "yes", "no"}, late : Nat]

\* The state the argument is about is well typed.
PrefillType ==
  /\ pc \in [Requests -> Phases] /\ peer \in SUBSET Requests
  /\ stamp \in [Requests -> Nat] /\ chunk \in [Requests -> Nat]
  /\ task \in [Requests -> Nat]
  /\ link \in [epoch : Nat, down : BOOLEAN, pending : Nat, observed : Int]
CallType ==
  add \in [Requests -> Calls] /\ gen \in [Requests -> Calls] /\ rel \in [Requests -> Calls]
DecodeType ==
  /\ admitted \in [Requests -> Nat] /\ kv \in [Requests -> Nat]
  /\ resv \in [Requests -> {"none", "waiting", "restoring", "running"}]
  /\ tombs \in SUBSET Requests
HistoryType ==
  /\ resent \in [add : SUBSET Requests, gen : SUBSET Requests]
  /\ exhausted \in SUBSET Requests /\ severed \in SUBSET Requests
TypeInv == PrefillType /\ CallType /\ DecodeType /\ HistoryType

InPrefill == {"queued", "waiting", "running", "first"}

\* A call that is not over belongs to the phase that waits for it; releases and
\* tombstones exist only for failed requests, so a request that goes on keeps
\* its reservation.
CallInv(r) ==
  /\ add[r].st # "none" => pc[r] = "adding"
  /\ gen[r].st # "none" => pc[r] = "handing"
  /\ gen[r].late > 0 => pc[r] \in {"handing", "done", "failed"}
  /\ rel[r].st # "none" => task[r] > 0
  /\ task[r] > 0 \/ rel[r].late > 0 \/ r \in tombs => pc[r] = "failed"
  /\ rel[r].st = "served" => r \in tombs
  /\ pc[r] \in InPrefill \union {"handing"} => r \in peer

\* What the decode holds before the hand-off: nothing, or an empty reservation,
\* and from the accepted call on the KV of the chunks pushed so far.
PushInv(r) ==
  /\ r \in tombs => resv[r] # "waiting"
  /\ pc[r] \in {"new", "pending", "adding", "queued"} => chunk[r] = 0
  /\ pc[r] = "new" => resv[r] = "none" /\ add[r].late = 0 /\ admitted[r] = 0
  /\ pc[r] \in {"pending", "adding"} /\ resv[r] # "none" =>
       resv[r] = "waiting" /\ kv[r] = 0
  /\ add[r].st = "200" => resv[r] = "waiting"
  /\ pc[r] \in InPrefill => resv[r] = "waiting" /\ kv[r] = chunk[r]
  /\ pc[r] = "first" => chunk[r] = Chunks[r]

\* What a hand-off can meet.  A second hand-off needs a repeated FirstGeneration,
\* a second reservation a repeated AddNewRequests.
HandOffInv(r) ==
  /\ r \notin resent.gen =>
       /\ gen[r].late <= 1
       /\ gen[r].late > 0 => pc[r] = "failed"
       /\ gen[r].st = "sent" \/ gen[r].late > 0 =>
            r \in tombs \/ (resv[r] = "waiting" /\ kv[r] = Chunks[r])
  /\ r \notin resent.add =>
       /\ add[r].late > 0 \/ admitted[r] > 0 => pc[r] = "failed" /\ gen[r].late = 0
       /\ (pc[r] = "handing" \/ gen[r].late > 0) /\ resv[r] = "waiting" =>
            kv[r] = Chunks[r]
  /\ r \notin resent.add \intersect resent.gen /\ resv[r] \in {"restoring", "running"} =>
       kv[r] = Chunks[r]

\* A reservation that nobody will hand over is about to be released.
OwnerInv(r) ==
  /\ gen[r].st = "serving" => resv[r] = "restoring"
  /\ r \notin resent.add =>
       /\ pc[r] \in {"new", "pending"} => resv[r] = "none"
       /\ pc[r] = "adding" /\ resv[r] # "none" => add[r].st = "200"
       /\ gen[r].st = "yes" \/ pc[r] = "done" => resv[r] # "waiting"
       /\ pc[r] = "failed" /\ r \notin exhausted /\ task[r] = 0 =>
            \/ r \in tombs
            \/ resv[r] # "waiting" /\ add[r].late = 0 /\ admitted[r] = 0

\* A request whose decode was unlinked carries an epoch that is over.
UnlinkInv(r) ==
  /\ stamp[r] <= link.epoch
  /\ r \in severed => /\ stamp[r] < link.epoch
                      /\ pc[r] \in {"pending", "adding", "queued", "failed"}

ReqInv(r) == CallInv(r) /\ PushInv(r) /\ HandOffInv(r) /\ OwnerInv(r) /\ UnlinkInv(r)

IInv == TypeInv /\ \A r \in Requests : ReqInv(r)

-----------------------------------------------------------------------------
(* A step of one request leaves the others alone.                          *)

\* Nothing of request q changes.
Same(q) ==
  /\ pc'[q] = pc[q] /\ stamp'[q] = stamp[q] /\ chunk'[q] = chunk[q]
  /\ task'[q] = task[q] /\ add'[q] = add[q] /\ gen'[q] = gen[q] /\ rel'[q] = rel[q]
  /\ admitted'[q] = admitted[q] /\ resv'[q] = resv[q] /\ kv'[q] = kv[q]
  /\ (q \in peer') = (q \in peer) /\ (q \in tombs') = (q \in tombs)
  /\ (q \in resent'.add) = (q \in resent.add)
  /\ (q \in resent'.gen) = (q \in resent.gen)
  /\ (q \in exhausted') = (q \in exhausted) /\ (q \in severed') = (q \in severed)
  /\ link'.epoch = link.epoch

LEMMA SameKeeps ==
  ASSUME NEW q \in Requests, ReqInv(q), Same(q)
  PROVE  ReqInv(q)'
<1> USE DEF ReqInv, Same, InPrefill
<1>1. CallInv(q)'
  BY DEF CallInv
<1>2. PushInv(q)'
  BY DEF PushInv
<1>3. HandOffInv(q)'
  BY DEF HandOffInv
<1>4. OwnerInv(q)'
  BY DEF OwnerInv
<1>5. UnlinkInv(q)'
  BY DEF UnlinkInv
<1> QED BY <1>1, <1>2, <1>3, <1>4, <1>5

\* What a step of request r does to the invariant.
Step(r) == TypeInv' /\ ReqInv(r)' /\ \A q \in Requests \ {r} : Same(q)

-----------------------------------------------------------------------------
(* One lemma per action.                                                   *)

LEMMA Arrive_Inv ==
  ASSUME TypeInv, NEW r \in Requests, ReqInv(r), Arrive(r)
  PROVE  Step(r)
<1> USE DEF TypeInv, PrefillType, CallType, DecodeType, HistoryType,
            Arrive, prefill, decode, history
<1>1. TypeInv'
  BY DEF Calls, Phases
<1>2. \A q \in Requests \ {r} : Same(q)
  BY DEF Same
<1> USE DEF ReqInv, Calls, InPrefill
<1>3. CallInv(r)'
  BY DEF CallInv
<1>4. PushInv(r)'
  BY DEF CallInv, PushInv
<1>5. HandOffInv(r)'
  BY DEF CallInv, PushInv, HandOffInv
<1>6. OwnerInv(r)'
  BY DEF CallInv, PushInv, HandOffInv, OwnerInv
<1>7. UnlinkInv(r)'
  BY DEF UnlinkInv
<1> QED BY <1>1, <1>2, <1>3, <1>4, <1>5, <1>6, <1>7 DEF Step

LEMMA Leave_Inv ==
  ASSUME TypeInv, NEW r \in Requests, ReqInv(r), Leave(r)
  PROVE  Step(r)
<1> USE DEF TypeInv, PrefillType, CallType, DecodeType, HistoryType,
            Leave, prefill, decode, history
<1>1. TypeInv'
  BY DEF Calls, Phases
<1>2. \A q \in Requests \ {r} : Same(q)
  BY DEF Same
<1> USE DEF ReqInv, Calls, InPrefill
<1>3. CallInv(r)'
  BY DEF CallInv
<1>4. PushInv(r)'
  BY DEF CallInv, PushInv
<1>5. HandOffInv(r)'
  BY DEF CallInv, PushInv, HandOffInv
<1>6. OwnerInv(r)'
  BY DEF CallInv, PushInv, HandOffInv, OwnerInv
<1>7. UnlinkInv(r)'
  BY DEF UnlinkInv
<1> QED BY <1>1, <1>2, <1>3, <1>4, <1>5, <1>6, <1>7 DEF Step

LEMMA discard_cancelled_dispatch_request_Inv ==
  ASSUME TypeInv, NEW r \in Requests, ReqInv(r), discard_cancelled_dispatch_request(r)
  PROVE  Step(r)
<1> USE DEF TypeInv, PrefillType, CallType, DecodeType, HistoryType,
            discard_cancelled_dispatch_request, Top, FailAndRelease, Fails, release_failed_request, kMaxAttempts, prefill, decode, history
<1>1. TypeInv'
  BY DEF Calls, Phases
<1>2. \A q \in Requests \ {r} : Same(q)
  BY DEF Same
<1> USE DEF ReqInv, Calls, InPrefill
<1>3. CallInv(r)'
  BY DEF CallInv
<1>4. PushInv(r)'
  BY DEF CallInv, PushInv
<1>5. HandOffInv(r)'
  BY DEF CallInv, PushInv, HandOffInv
<1>6. OwnerInv(r)'
  BY DEF CallInv, PushInv, HandOffInv, OwnerInv
<1>7. UnlinkInv(r)'
  BY DEF UnlinkInv
<1> QED BY <1>1, <1>2, <1>3, <1>4, <1>5, <1>6, <1>7 DEF Step

LEMMA DispatchRefused_Inv ==
  ASSUME TypeInv, NEW r \in Requests, ReqInv(r), DispatchRefused(r)
  PROVE  Step(r)
<1> USE DEF TypeInv, PrefillType, CallType, DecodeType, HistoryType,
            DispatchRefused, Top, Fault, Fails, prefill, decode, history
<1>1. TypeInv'
  BY DEF Calls, Phases
<1>2. \A q \in Requests \ {r} : Same(q)
  BY DEF Same
<1> USE DEF ReqInv, Calls, InPrefill
<1>3. CallInv(r)'
  BY DEF CallInv
<1>4. PushInv(r)'
  BY DEF CallInv, PushInv
<1>5. HandOffInv(r)'
  BY DEF CallInv, PushInv, HandOffInv
<1>6. OwnerInv(r)'
  BY DEF CallInv, PushInv, HandOffInv, OwnerInv
<1>7. UnlinkInv(r)'
  BY DEF UnlinkInv
<1> QED BY <1>1, <1>2, <1>3, <1>4, <1>5, <1>6, <1>7 DEF Step

LEMMA Dispatch_Inv ==
  ASSUME TypeInv, NEW r \in Requests, ReqInv(r), Dispatch(r)
  PROVE  Step(r)
<1> USE DEF TypeInv, PrefillType, CallType, DecodeType, HistoryType,
            Dispatch, Top, Sent, Answered, prefill, decode, history
<1>1. TypeInv'
  BY DEF Calls, Phases
<1>2. \A q \in Requests \ {r} : Same(q)
  BY DEF Same
<1> USE DEF ReqInv, Calls, InPrefill
<1>3. CallInv(r)'
  BY DEF CallInv
<1>4. PushInv(r)'
  BY DEF CallInv, PushInv
<1>5. HandOffInv(r)'
  BY DEF CallInv, PushInv, HandOffInv
<1>6. OwnerInv(r)'
  BY DEF CallInv, PushInv, HandOffInv, OwnerInv
<1>7. UnlinkInv(r)'
  BY DEF UnlinkInv
<1> QED BY <1>1, <1>2, <1>3, <1>4, <1>5, <1>6, <1>7 DEF Step

LEMMA AddFails_Inv ==
  ASSUME TypeInv, NEW r \in Requests, ReqInv(r), AddFails(r)
  PROVE  Step(r)
<1> USE DEF TypeInv, PrefillType, CallType, DecodeType, HistoryType,
            AddFails, Fault, Abandoned, Fails, release_failed_request, kMaxAttempts, prefill, decode, history
<1>1. TypeInv'
  BY DEF Calls, Phases
<1>2. \A q \in Requests \ {r} : Same(q)
  BY DEF Same
<1> USE DEF ReqInv, Calls, InPrefill
<1>3. CallInv(r)'
  BY DEF CallInv
<1>4. PushInv(r)'
  BY DEF CallInv, PushInv
<1>5. HandOffInv(r)'
  BY DEF CallInv, PushInv, HandOffInv
<1>6. OwnerInv(r)'
  BY DEF CallInv, PushInv, HandOffInv, OwnerInv
<1>7. UnlinkInv(r)'
  BY DEF UnlinkInv
<1> QED BY <1>1, <1>2, <1>3, <1>4, <1>5, <1>6, <1>7 DEF Step

LEMMA AddReturns_Inv ==
  ASSUME TypeInv, NEW r \in Requests, ReqInv(r), AddReturns(r)
  PROVE  Step(r)
<1> USE DEF TypeInv, PrefillType, CallType, DecodeType, HistoryType,
            AddReturns, Returned, Answered, Fails, release_failed_request, kMaxAttempts, prefill, decode, history
<1>1. TypeInv'
  <2>1. PrefillType'
    BY DEF Phases
  <2>2. CallType'
    BY DEF Calls
  <2>3. DecodeType'
    OBVIOUS
  <2>4. HistoryType'
    OBVIOUS
  <2> QED BY <2>1, <2>2, <2>3, <2>4
<1>2. \A q \in Requests \ {r} : Same(q)
  BY DEF Same
<1> USE DEF ReqInv, Calls, InPrefill
<1>3. CallInv(r)'
  BY DEF CallInv
<1>4. PushInv(r)'
  BY DEF CallInv, PushInv
<1>5. HandOffInv(r)'
  BY DEF CallInv, PushInv, HandOffInv
<1>6. OwnerInv(r)'
  BY DEF CallInv, PushInv, HandOffInv, OwnerInv
<1>7. UnlinkInv(r)'
  BY DEF UnlinkInv
<1> QED BY <1>1, <1>2, <1>3, <1>4, <1>5, <1>6, <1>7 DEF Step

LEMMA Drain_Inv ==
  ASSUME TypeInv, NEW r \in Requests, ReqInv(r), Drain(r)
  PROVE  Step(r)
<1> USE DEF TypeInv, PrefillType, CallType, DecodeType, HistoryType,
            Drain, Stale, FailAndRelease, Fails, release_failed_request, kMaxAttempts, prefill, decode, history
<1>1. TypeInv'
  <2>1. PrefillType'
    BY DEF Phases
  <2>2. CallType'
    BY DEF Calls
  <2>3. DecodeType'
    OBVIOUS
  <2>4. HistoryType'
    OBVIOUS
  <2> QED BY <2>1, <2>2, <2>3, <2>4
<1>2. \A q \in Requests \ {r} : Same(q)
  BY DEF Same
<1> USE DEF ReqInv, Calls, InPrefill
<1>3. CallInv(r)'
  BY DEF CallInv
<1>4. PushInv(r)'
  BY DEF CallInv, PushInv
<1>5. HandOffInv(r)'
  BY DEF CallInv, PushInv, HandOffInv
<1>6. OwnerInv(r)'
  BY DEF CallInv, PushInv, HandOffInv, OwnerInv
<1>7. UnlinkInv(r)'
  BY DEF UnlinkInv
<1> QED BY <1>1, <1>2, <1>3, <1>4, <1>5, <1>6, <1>7 DEF Step

LEMMA Schedule_Inv ==
  ASSUME TypeInv, NEW r \in Requests, ReqInv(r), Schedule(r)
  PROVE  Step(r)
<1> USE DEF TypeInv, PrefillType, CallType, DecodeType, HistoryType,
            Schedule, prefill, decode, history
<1>1. TypeInv'
  BY DEF Calls, Phases
<1>2. \A q \in Requests \ {r} : Same(q)
  BY DEF Same
<1> USE DEF ReqInv, Calls, InPrefill
<1>3. CallInv(r)'
  BY DEF CallInv
<1>4. PushInv(r)'
  BY DEF CallInv, PushInv
<1>5. HandOffInv(r)'
  BY DEF CallInv, PushInv, HandOffInv
<1>6. OwnerInv(r)'
  BY DEF CallInv, PushInv, HandOffInv, OwnerInv
<1>7. UnlinkInv(r)'
  BY DEF UnlinkInv
<1> QED BY <1>1, <1>2, <1>3, <1>4, <1>5, <1>6, <1>7 DEF Step

LEMMA DropWaiting_Inv ==
  ASSUME TypeInv, NEW r \in Requests, ReqInv(r), DropWaiting(r)
  PROVE  Step(r)
<1> USE DEF TypeInv, PrefillType, CallType, DecodeType, HistoryType,
            DropWaiting, Fault, NoFault, FailAndRelease, Fails, release_failed_request, kMaxAttempts, prefill, decode, history
<1>1. TypeInv'
  BY DEF Calls, Phases
<1>2. \A q \in Requests \ {r} : Same(q)
  BY DEF Same
<1> USE DEF ReqInv, Calls, InPrefill
<1>3. CallInv(r)'
  BY DEF CallInv
<1>4. PushInv(r)'
  BY DEF CallInv, PushInv
<1>5. HandOffInv(r)'
  BY DEF CallInv, PushInv, HandOffInv
<1>6. OwnerInv(r)'
  BY DEF CallInv, PushInv, HandOffInv, OwnerInv
<1>7. UnlinkInv(r)'
  BY DEF UnlinkInv
<1> QED BY <1>1, <1>2, <1>3, <1>4, <1>5, <1>6, <1>7 DEF Step

LEMMA StepEnds_Inv ==
  ASSUME TypeInv, NEW r \in Requests, ReqInv(r), StepEnds(r)
  PROVE  Step(r)
<1> USE DEF TypeInv, PrefillType, CallType, DecodeType, HistoryType,
            StepEnds, FailAndRelease, Fails, release_failed_request, kMaxAttempts, prefill, decode, history
<1>1. TypeInv'
  <2>1. PrefillType'
    BY DEF Phases
  <2>2. CallType'
    BY DEF Calls
  <2>3. DecodeType'
    OBVIOUS
  <2>4. HistoryType'
    OBVIOUS
  <2> QED BY <2>1, <2>2, <2>3, <2>4
<1>2. \A q \in Requests \ {r} : Same(q)
  BY DEF Same
<1> USE DEF ReqInv, Calls, InPrefill
<1>3. CallInv(r)'
  BY DEF CallInv
<1>4. PushInv(r)'
  BY DEF CallInv, PushInv
<1>5. HandOffInv(r)'
  BY DEF CallInv, PushInv, HandOffInv
<1>6. OwnerInv(r)'
  BY DEF CallInv, PushInv, HandOffInv, OwnerInv
<1>7. UnlinkInv(r)'
  BY DEF UnlinkInv
<1> QED BY <1>1, <1>2, <1>3, <1>4, <1>5, <1>6, <1>7 DEF Step

LEMMA PushFails_Inv ==
  ASSUME TypeInv, NEW r \in Requests, ReqInv(r), PushFails(r)
  PROVE  Step(r)
<1> USE DEF TypeInv, PrefillType, CallType, DecodeType, HistoryType,
            PushFails, Fault, FailAndRelease, Fails, release_failed_request, kMaxAttempts, prefill, decode, history
<1>1. TypeInv'
  BY DEF Calls, Phases
<1>2. \A q \in Requests \ {r} : Same(q)
  BY DEF Same
<1> USE DEF ReqInv, Calls, InPrefill
<1>3. CallInv(r)'
  BY DEF CallInv
<1>4. PushInv(r)'
  BY DEF CallInv, PushInv
<1>5. HandOffInv(r)'
  BY DEF CallInv, PushInv, HandOffInv
<1>6. OwnerInv(r)'
  BY DEF CallInv, PushInv, HandOffInv, OwnerInv
<1>7. UnlinkInv(r)'
  BY DEF UnlinkInv
<1> QED BY <1>1, <1>2, <1>3, <1>4, <1>5, <1>6, <1>7 DEF Step

LEMMA SendFirst_Inv ==
  ASSUME TypeInv, NEW r \in Requests, ReqInv(r), SendFirst(r)
  PROVE  Step(r)
<1> USE DEF TypeInv, PrefillType, CallType, DecodeType, HistoryType,
            SendFirst, Sent, Answered, prefill, decode, history
<1>1. TypeInv'
  BY DEF Calls, Phases
<1>2. \A q \in Requests \ {r} : Same(q)
  BY DEF Same
<1> USE DEF ReqInv, Calls, InPrefill
<1>3. CallInv(r)'
  BY DEF CallInv
<1>4. PushInv(r)'
  BY DEF CallInv, PushInv
<1>5. HandOffInv(r)'
  BY DEF CallInv, PushInv, HandOffInv
<1>6. OwnerInv(r)'
  BY DEF CallInv, PushInv, HandOffInv, OwnerInv
<1>7. UnlinkInv(r)'
  BY DEF UnlinkInv
<1> QED BY <1>1, <1>2, <1>3, <1>4, <1>5, <1>6, <1>7 DEF Step

LEMMA PrepareFails_Inv ==
  ASSUME TypeInv, NEW r \in Requests, ReqInv(r), PrepareFails(r)
  PROVE  Step(r)
<1> USE DEF TypeInv, PrefillType, CallType, DecodeType, HistoryType,
            PrepareFails, Fault, FailAndRelease, Fails, release_failed_request, kMaxAttempts, prefill, decode, history
<1>1. TypeInv'
  BY DEF Calls, Phases
<1>2. \A q \in Requests \ {r} : Same(q)
  BY DEF Same
<1> USE DEF ReqInv, Calls, InPrefill
<1>3. CallInv(r)'
  BY DEF CallInv
<1>4. PushInv(r)'
  BY DEF CallInv, PushInv
<1>5. HandOffInv(r)'
  BY DEF CallInv, PushInv, HandOffInv
<1>6. OwnerInv(r)'
  BY DEF CallInv, PushInv, HandOffInv, OwnerInv
<1>7. UnlinkInv(r)'
  BY DEF UnlinkInv
<1> QED BY <1>1, <1>2, <1>3, <1>4, <1>5, <1>6, <1>7 DEF Step

LEMMA GenFails_Inv ==
  ASSUME TypeInv, NEW r \in Requests, ReqInv(r), GenFails(r)
  PROVE  Step(r)
<1> USE DEF TypeInv, PrefillType, CallType, DecodeType, HistoryType,
            GenFails, Fault, Abandoned, FailAndRelease, Fails, release_failed_request, kMaxAttempts, prefill, decode, history
<1>1. TypeInv'
  BY DEF Calls, Phases
<1>2. \A q \in Requests \ {r} : Same(q)
  BY DEF Same
<1> USE DEF ReqInv, Calls, InPrefill
<1>3. CallInv(r)'
  BY DEF CallInv
<1>4. PushInv(r)'
  BY DEF CallInv, PushInv
<1>5. HandOffInv(r)'
  BY DEF CallInv, PushInv, HandOffInv
<1>6. OwnerInv(r)'
  BY DEF CallInv, PushInv, HandOffInv, OwnerInv
<1>7. UnlinkInv(r)'
  BY DEF UnlinkInv
<1> QED BY <1>1, <1>2, <1>3, <1>4, <1>5, <1>6, <1>7 DEF Step

LEMMA GenReturns_Inv ==
  ASSUME TypeInv, NEW r \in Requests, ReqInv(r), GenReturns(r)
  PROVE  Step(r)
<1> USE DEF TypeInv, PrefillType, CallType, DecodeType, HistoryType,
            GenReturns, Returned, Answered, FailAndRelease, Fails, release_failed_request, kMaxAttempts, prefill, decode, history
<1>1. TypeInv'
  <2>1. PrefillType'
    BY DEF Phases
  <2>2. CallType'
    BY DEF Calls
  <2>3. DecodeType'
    OBVIOUS
  <2>4. HistoryType'
    OBVIOUS
  <2> QED BY <2>1, <2>2, <2>3, <2>4
<1>2. \A q \in Requests \ {r} : Same(q)
  BY DEF Same
<1> USE DEF ReqInv, Calls, InPrefill
<1>3. CallInv(r)'
  BY DEF CallInv
<1>4. PushInv(r)'
  BY DEF CallInv, PushInv
<1>5. HandOffInv(r)'
  BY DEF CallInv, PushInv, HandOffInv
<1>6. OwnerInv(r)'
  BY DEF CallInv, PushInv, HandOffInv, OwnerInv
<1>7. UnlinkInv(r)'
  BY DEF CallInv, UnlinkInv
<1> QED BY <1>1, <1>2, <1>3, <1>4, <1>5, <1>6, <1>7 DEF Step

LEMMA ResendAdd_Inv ==
  ASSUME TypeInv, NEW r \in Requests, ReqInv(r), ResendAdd(r)
  PROVE  Step(r)
<1> USE DEF TypeInv, PrefillType, CallType, DecodeType, HistoryType,
            ResendAdd, Abandoned, Sent, Answered, prefill, decode, history
<1>1. TypeInv'
  <2>1. PrefillType'
    BY DEF Phases
  <2>2. CallType'
    BY DEF Calls
  <2>3. DecodeType'
    OBVIOUS
  <2>4. HistoryType'
    OBVIOUS
  <2> QED BY <2>1, <2>2, <2>3, <2>4
<1>2. \A q \in Requests \ {r} : Same(q)
  BY DEF Same
<1> USE DEF ReqInv, Calls, InPrefill
<1>3. CallInv(r)'
  BY DEF CallInv
<1>4. PushInv(r)'
  BY DEF CallInv, PushInv
<1>5. HandOffInv(r)'
  BY DEF CallInv, PushInv, HandOffInv
<1>6. OwnerInv(r)'
  BY DEF CallInv, PushInv, HandOffInv, OwnerInv
<1>7. UnlinkInv(r)'
  BY DEF UnlinkInv
<1> QED BY <1>1, <1>2, <1>3, <1>4, <1>5, <1>6, <1>7 DEF Step

LEMMA ResendGen_Inv ==
  ASSUME TypeInv, NEW r \in Requests, ReqInv(r), ResendGen(r)
  PROVE  Step(r)
<1> USE DEF TypeInv, PrefillType, CallType, DecodeType, HistoryType,
            ResendGen, Abandoned, Sent, Answered, prefill, decode, history
<1>1. TypeInv'
  <2>1. PrefillType'
    BY DEF Phases
  <2>2. CallType'
    BY DEF Calls
  <2>3. DecodeType'
    OBVIOUS
  <2>4. HistoryType'
    OBVIOUS
  <2> QED BY <2>1, <2>2, <2>3, <2>4
<1>2. \A q \in Requests \ {r} : Same(q)
  BY DEF Same
<1> USE DEF ReqInv, Calls, InPrefill
<1>3. CallInv(r)'
  BY DEF CallInv
<1>4. PushInv(r)'
  BY DEF CallInv, PushInv
<1>5. HandOffInv(r)'
  BY DEF CallInv, PushInv, HandOffInv
<1>6. OwnerInv(r)'
  BY DEF CallInv, PushInv, HandOffInv, OwnerInv
<1>7. UnlinkInv(r)'
  BY DEF UnlinkInv
<1> QED BY <1>1, <1>2, <1>3, <1>4, <1>5, <1>6, <1>7 DEF Step

LEMMA SendRelease_Inv ==
  ASSUME TypeInv, NEW r \in Requests, ReqInv(r), SendRelease(r)
  PROVE  Step(r)
<1> USE DEF TypeInv, PrefillType, CallType, DecodeType, HistoryType,
            SendRelease, Sent, Answered, prefill, decode, history
<1>1. TypeInv'
  BY DEF Calls, Phases
<1>2. \A q \in Requests \ {r} : Same(q)
  BY DEF Same
<1> USE DEF ReqInv, Calls, InPrefill
<1>3. CallInv(r)'
  BY DEF CallInv
<1>4. PushInv(r)'
  BY DEF CallInv, PushInv
<1>5. HandOffInv(r)'
  BY DEF CallInv, PushInv, HandOffInv
<1>6. OwnerInv(r)'
  BY DEF CallInv, PushInv, HandOffInv, OwnerInv
<1>7. UnlinkInv(r)'
  BY DEF UnlinkInv
<1> QED BY <1>1, <1>2, <1>3, <1>4, <1>5, <1>6, <1>7 DEF Step

LEMMA ReleaseNoChannel_Inv ==
  ASSUME TypeInv, NEW r \in Requests, ReqInv(r), ReleaseNoChannel(r)
  PROVE  Step(r)
<1> USE DEF TypeInv, PrefillType, CallType, DecodeType, HistoryType,
            ReleaseNoChannel, Fault, kMaxAttempts, prefill, decode, history
<1>1. TypeInv'
  BY DEF Calls, Phases, ReqInv, CallInv
<1>2. \A q \in Requests \ {r} : Same(q)
  BY DEF Same
<1> USE DEF ReqInv, Calls, InPrefill
<1>3. CallInv(r)'
  BY DEF CallInv
<1>4. PushInv(r)'
  BY DEF CallInv, PushInv
<1>5. HandOffInv(r)'
  BY DEF CallInv, PushInv, HandOffInv
<1>6. OwnerInv(r)'
  BY DEF CallInv, PushInv, HandOffInv, OwnerInv
<1>7. UnlinkInv(r)'
  BY DEF UnlinkInv
<1> QED BY <1>1, <1>2, <1>3, <1>4, <1>5, <1>6, <1>7 DEF Step

LEMMA ReleaseFails_Inv ==
  ASSUME TypeInv, NEW r \in Requests, ReqInv(r), ReleaseFails(r)
  PROVE  Step(r)
<1> USE DEF TypeInv, PrefillType, CallType, DecodeType, HistoryType,
            ReleaseFails, Fault, Abandoned, prefill, decode, history
<1>1. TypeInv'
  BY DEF Calls, Phases, ReqInv, CallInv
<1>2. \A q \in Requests \ {r} : Same(q)
  BY DEF Same
<1> USE DEF ReqInv, Calls, InPrefill
<1>3. CallInv(r)'
  BY DEF CallInv
<1>4. PushInv(r)'
  BY DEF CallInv, PushInv
<1>5. HandOffInv(r)'
  BY DEF CallInv, PushInv, HandOffInv
<1>6. OwnerInv(r)'
  BY DEF CallInv, PushInv, HandOffInv, OwnerInv
<1>7. UnlinkInv(r)'
  BY DEF UnlinkInv
<1> QED BY <1>1, <1>2, <1>3, <1>4, <1>5, <1>6, <1>7 DEF Step

LEMMA ReleaseReturns_Inv ==
  ASSUME TypeInv, NEW r \in Requests, ReqInv(r), ReleaseReturns(r)
  PROVE  Step(r)
<1> USE DEF TypeInv, PrefillType, CallType, DecodeType, HistoryType,
            ReleaseReturns, Returned, Answered, prefill, decode, history
<1>1. TypeInv'
  BY DEF Calls, Phases
<1>2. \A q \in Requests \ {r} : Same(q)
  BY DEF Same
<1> USE DEF ReqInv, Calls, InPrefill
<1>3. CallInv(r)'
  BY DEF CallInv
<1>4. PushInv(r)'
  BY DEF CallInv, PushInv
<1>5. HandOffInv(r)'
  BY DEF CallInv, PushInv, HandOffInv
<1>6. OwnerInv(r)'
  BY DEF CallInv, PushInv, HandOffInv, OwnerInv
<1>7. UnlinkInv(r)'
  BY DEF UnlinkInv
<1> QED BY <1>1, <1>2, <1>3, <1>4, <1>5, <1>6, <1>7 DEF Step

LEMMA Admit_Inv ==
  ASSUME TypeInv, NEW r \in Requests, ReqInv(r), Admit(r)
  PROVE  Step(r)
<1> USE DEF TypeInv, PrefillType, CallType, DecodeType, HistoryType,
            Admit, Answered, prefill, decode, history
<1>1. TypeInv'
  BY DEF Calls, Phases
<1>2. \A q \in Requests \ {r} : Same(q)
  BY DEF Same
<1> USE DEF ReqInv, Calls, InPrefill
<1>3. CallInv(r)'
  BY DEF CallInv
<1>4. PushInv(r)'
  BY DEF CallInv, PushInv
<1>5. HandOffInv(r)'
  BY DEF CallInv, PushInv, HandOffInv
<1>6. OwnerInv(r)'
  BY DEF CallInv, PushInv, HandOffInv, OwnerInv
<1>7. UnlinkInv(r)'
  BY DEF UnlinkInv
<1> QED BY <1>1, <1>2, <1>3, <1>4, <1>5, <1>6, <1>7 DEF Step

LEMMA AdmitLate_Inv ==
  ASSUME TypeInv, NEW r \in Requests, ReqInv(r), AdmitLate(r)
  PROVE  Step(r)
<1> USE DEF TypeInv, PrefillType, CallType, DecodeType, HistoryType,
            AdmitLate, Delivered, prefill, decode, history
<1>1. TypeInv'
  BY DEF Calls, Phases
<1>2. \A q \in Requests \ {r} : Same(q)
  BY DEF Same
<1> USE DEF ReqInv, Calls, InPrefill
<1>3. CallInv(r)'
  BY DEF CallInv
<1>4. PushInv(r)'
  BY DEF CallInv, PushInv
<1>5. HandOffInv(r)'
  BY DEF CallInv, PushInv, HandOffInv
<1>6. OwnerInv(r)'
  BY DEF CallInv, PushInv, HandOffInv, OwnerInv
<1>7. UnlinkInv(r)'
  BY DEF UnlinkInv
<1> QED BY <1>1, <1>2, <1>3, <1>4, <1>5, <1>6, <1>7 DEF Step

LEMMA Register_Inv ==
  ASSUME TypeInv, NEW r \in Requests, ReqInv(r), Register(r)
  PROVE  Step(r)
<1> USE DEF TypeInv, PrefillType, CallType, DecodeType, HistoryType,
            Register, decode_schedule, Refused, Alive, Answered, prefill, decode, history
<1>1. TypeInv'
  <2>1. PrefillType'
    BY DEF Phases
  <2>2. CallType'
    BY DEF Calls
  <2>3. DecodeType'
    OBVIOUS
  <2>4. HistoryType'
    OBVIOUS
  <2> QED BY <2>1, <2>2, <2>3, <2>4
<1>2. \A q \in Requests \ {r} : Same(q)
  BY DEF Same
<1> USE DEF ReqInv, Calls, InPrefill
<1>3. CallInv(r)'
  BY DEF CallInv
<1>4. PushInv(r)'
  BY DEF CallInv, PushInv
<1>5. HandOffInv(r)'
  BY DEF CallInv, PushInv, HandOffInv
<1>6. OwnerInv(r)'
  BY DEF CallInv, PushInv, HandOffInv, OwnerInv
<1>7. UnlinkInv(r)'
  BY DEF UnlinkInv
<1> QED BY <1>1, <1>2, <1>3, <1>4, <1>5, <1>6, <1>7 DEF Step

LEMMA RegisterLate_Inv ==
  ASSUME TypeInv, NEW r \in Requests, ReqInv(r), RegisterLate(r)
  PROVE  Step(r)
<1> USE DEF TypeInv, PrefillType, CallType, DecodeType, HistoryType,
            RegisterLate, decode_schedule, Refused, Alive, prefill, decode, history
<1>1. TypeInv'
  <2>1. PrefillType'
    BY DEF Phases
  <2>2. CallType'
    BY DEF Calls
  <2>3. DecodeType'
    OBVIOUS
  <2>4. HistoryType'
    OBVIOUS
  <2> QED BY <2>1, <2>2, <2>3, <2>4
<1>2. \A q \in Requests \ {r} : Same(q)
  BY DEF Same
<1> USE DEF ReqInv, Calls, InPrefill
<1>3. CallInv(r)'
  BY DEF CallInv
<1>4. PushInv(r)'
  BY DEF CallInv, PushInv
<1>5. HandOffInv(r)'
  BY DEF CallInv, PushInv, HandOffInv
<1>6. OwnerInv(r)'
  BY DEF CallInv, PushInv, HandOffInv, OwnerInv
<1>7. UnlinkInv(r)'
  BY DEF UnlinkInv
<1> QED BY <1>1, <1>2, <1>3, <1>4, <1>5, <1>6, <1>7 DEF Step

LEMMA ServeRelease_Inv ==
  ASSUME TypeInv, NEW r \in Requests, ReqInv(r), ServeRelease(r)
  PROVE  Step(r)
<1> USE DEF TypeInv, PrefillType, CallType, DecodeType, HistoryType,
            ServeRelease, Answered, Delivered, prefill, decode, history
<1>1. TypeInv'
  <2>1. PrefillType'
    BY DEF Phases
  <2>2. CallType'
    <3>1. rel[r] \in Calls /\ rel'[r] \in Calls
      BY DEF Calls
    <3>2. rel' = [rel EXCEPT ![r] = rel'[r]]
      BY <3>1
    <3> QED BY <3>1, <3>2
  <2>3. DecodeType'
    OBVIOUS
  <2>4. HistoryType'
    OBVIOUS
  <2> QED BY <2>1, <2>2, <2>3, <2>4
<1>2. \A q \in Requests \ {r} : Same(q)
  BY DEF Same
<1> USE DEF ReqInv, Calls, InPrefill
<1>3. CallInv(r)'
  BY DEF CallInv
<1>4. PushInv(r)'
  BY DEF CallInv, PushInv
<1>5. HandOffInv(r)'
  BY DEF CallInv, PushInv, HandOffInv
<1>6. OwnerInv(r)'
  BY DEF CallInv, PushInv, HandOffInv, OwnerInv
<1>7. UnlinkInv(r)'
  BY DEF UnlinkInv
<1> QED BY <1>1, <1>2, <1>3, <1>4, <1>5, <1>6, <1>7 DEF Step

LEMMA ServeGen_Inv ==
  ASSUME TypeInv, NEW r \in Requests, ReqInv(r), ServeGen(r)
  PROVE  Step(r)
<1> USE DEF TypeInv, PrefillType, CallType, DecodeType, HistoryType,
            ServeGen, Answered, Delivered, prefill, decode, history
<1>1. TypeInv'
  <2>1. PrefillType'
    BY DEF Phases
  <2>2. CallType'
    <3>1. gen[r] \in Calls /\ gen'[r] \in Calls
      BY DEF Calls
    <3>2. gen' = [gen EXCEPT ![r] = gen'[r]]
      BY <3>1
    <3> QED BY <3>1, <3>2
  <2>3. DecodeType'
    OBVIOUS
  <2>4. HistoryType'
    OBVIOUS
  <2> QED BY <2>1, <2>2, <2>3, <2>4
<1>2. \A q \in Requests \ {r} : Same(q)
  BY DEF Same
<1> USE DEF ReqInv, Calls, InPrefill
<1>3. CallInv(r)'
  BY DEF CallInv
<1>4. PushInv(r)'
  BY DEF CallInv, PushInv
<1>5. HandOffInv(r)'
  BY DEF CallInv, PushInv, HandOffInv
<1>6. OwnerInv(r)'
  BY DEF CallInv, PushInv, HandOffInv, OwnerInv
<1>7. UnlinkInv(r)'
  BY DEF UnlinkInv
<1> QED BY <1>1, <1>2, <1>3, <1>4, <1>5, <1>6, <1>7 DEF Step

LEMMA Restore_Inv ==
  ASSUME TypeInv, NEW r \in Requests, ReqInv(r), Restore(r)
  PROVE  Step(r)
<1> USE DEF TypeInv, PrefillType, CallType, DecodeType, HistoryType,
            Restore, Fault, NoFault, Answered, prefill, decode, history
<1>1. TypeInv'
  BY DEF Calls, Phases
<1>2. \A q \in Requests \ {r} : Same(q)
  BY DEF Same
<1> USE DEF ReqInv, Calls, InPrefill
<1>3. CallInv(r)'
  BY DEF CallInv
<1>4. PushInv(r)'
  BY DEF CallInv, PushInv
<1>5. HandOffInv(r)'
  BY DEF CallInv, PushInv, HandOffInv
<1>6. OwnerInv(r)'
  BY DEF CallInv, PushInv, HandOffInv, OwnerInv
<1>7. UnlinkInv(r)'
  BY DEF UnlinkInv
<1> QED BY <1>1, <1>2, <1>3, <1>4, <1>5, <1>6, <1>7 DEF Step

LEMMA DecodeEnds_Inv ==
  ASSUME TypeInv, NEW r \in Requests, ReqInv(r), DecodeEnds(r)
  PROVE  Step(r)
<1> USE DEF TypeInv, PrefillType, CallType, DecodeType, HistoryType,
            DecodeEnds, prefill, decode, history
<1>1. TypeInv'
  BY DEF Calls, Phases
<1>2. \A q \in Requests \ {r} : Same(q)
  BY DEF Same
<1> USE DEF ReqInv, Calls, InPrefill
<1>3. CallInv(r)'
  BY DEF CallInv
<1>4. PushInv(r)'
  BY DEF CallInv, PushInv
<1>5. HandOffInv(r)'
  BY DEF CallInv, PushInv, HandOffInv
<1>6. OwnerInv(r)'
  BY DEF CallInv, PushInv, HandOffInv, OwnerInv
<1>7. UnlinkInv(r)'
  BY DEF UnlinkInv
<1> QED BY <1>1, <1>2, <1>3, <1>4, <1>5, <1>6, <1>7 DEF Step

LEMMA UnlinkPublish_Inv ==
  ASSUME IInv, UnlinkPublish
  PROVE  IInv'
<1> USE DEF IInv, TypeInv, PrefillType, CallType, DecodeType, HistoryType,
            UnlinkPublish, decode
<1>1. TypeInv'
  <2>1. link' = [epoch |-> link.epoch + 1, down |-> TRUE,
                 pending |-> link.pending + 1, observed |-> link.observed]
    OBVIOUS
  <2>2. link.epoch + 1 \in Nat /\ link.pending + 1 \in Nat /\ link.observed \in Int
    OBVIOUS
  <2>3. link' \in [epoch : Nat, down : BOOLEAN, pending : Nat, observed : Int]
    BY <2>1, <2>2, Zenon
  <2>4. PrefillType' /\ CallType' /\ DecodeType'
    BY <2>3
  <2>5. HistoryType'
    OBVIOUS
  <2> QED BY <2>4, <2>5
<1>2. ASSUME NEW r \in Requests PROVE ReqInv(r)'
  <2> USE DEF ReqInv, InPrefill
  <2>1. CallInv(r)' /\ PushInv(r)'
    BY DEF CallInv, PushInv
  <2>2. HandOffInv(r)' /\ OwnerInv(r)'
    BY DEF HandOffInv, OwnerInv
  <2>3. link'.epoch = link.epoch + 1 /\ stamp'[r] = stamp[r] /\ pc'[r] = pc[r]
    OBVIOUS
  <2>4. r \in severed' => r \in severed \/ pc[r] \in {"adding", "queued"}
    OBVIOUS
  <2>5. UnlinkInv(r)'
    BY <2>3, <2>4 DEF UnlinkInv
  <2> QED BY <2>1, <2>2, <2>5
<1> QED BY <1>1, <1>2

LEMMA Link_Inv ==
  ASSUME IInv, UnlinkDone \/ LinkStart \/ LinkEnd
  PROVE  IInv'
<1>0. link.epoch \in Nat /\ link.pending \in Nat /\ NoEpoch \in Int
  BY DEF IInv, TypeInv, PrefillType, NoEpoch
<1> USE DEF IInv, TypeInv, PrefillType, CallType, DecodeType, HistoryType,
            UnlinkDone, LinkStart, LinkEnd, NoEpoch, decode, history
<1>1. TypeInv' /\ link'.epoch = link.epoch
  <2>1. CASE UnlinkDone
    BY <2>1
  <2>2. CASE LinkStart
    BY <2>2
  <2>3. CASE LinkEnd
    <3>1. PICK linked \in BOOLEAN :
            link' = [link EXCEPT !.observed = NoEpoch,
                                 !.down = @ /\ ~(linked /\ link.epoch = link.observed
                                                        /\ link.pending = 0)]
      BY <2>3
    <3>2. link' = [epoch |-> link.epoch,
                   down |-> link.down /\ ~(linked /\ link.epoch = link.observed
                                                  /\ link.pending = 0),
                   pending |-> link.pending, observed |-> NoEpoch]
      BY <3>1
    <3>3. link' \in [epoch : Nat, down : BOOLEAN, pending : Nat, observed : Int]
      BY <3>2, <1>0, Zenon
    <3>4. link'.epoch = link.epoch
      BY <3>2
    <3> QED BY <2>3, <3>3, <3>4
  <2> QED BY <2>1, <2>2, <2>3
<1>2. ASSUME NEW q \in Requests PROVE Same(q)
  BY <1>1 DEF Same
<1> QED BY <1>1, <1>2, SameKeeps

-----------------------------------------------------------------------------
(* The theorems.                                                           *)

LEMMA InitIInv == Init => IInv
<1> SUFFICES ASSUME Init PROVE IInv
  OBVIOUS
<1> USE DisaggAssumption DEF Init, NoCall
<1>1. PrefillType /\ CallType
  BY DEF PrefillType, CallType, Phases, Calls, NoEpoch
<1>2. DecodeType /\ HistoryType
  BY DEF DecodeType, HistoryType
<1>3. ASSUME NEW r \in Requests PROVE ReqInv(r)
  BY DEF ReqInv, CallInv, PushInv, HandOffInv, OwnerInv, UnlinkInv, InPrefill
<1> QED BY <1>1, <1>2, <1>3 DEF IInv, TypeInv

LEMMA RequestStep ==
  ASSUME IInv, NEW r \in Requests,
         \/ Dispatcher(r) \/ Prefill(r) \/ HandOff(r) \/ Release(r)
         \/ Decode(r) \/ Environment(r)
  PROVE  IInv'
<1>1. TypeInv /\ ReqInv(r)
  BY DEF IInv
<1>2. Step(r)
  <2>1. CASE Dispatcher(r)
    BY <2>1, <1>1, discard_cancelled_dispatch_request_Inv, Dispatch_Inv,
       AddReturns_Inv DEF Dispatcher
  <2>2. CASE Prefill(r)
    BY <2>2, <1>1, Drain_Inv, Schedule_Inv, DropWaiting_Inv, StepEnds_Inv,
       PushFails_Inv DEF Prefill
  <2>3. CASE HandOff(r)
    BY <2>3, <1>1, SendFirst_Inv, GenReturns_Inv DEF HandOff
  <2>4. CASE Release(r)
    BY <2>4, <1>1, SendRelease_Inv, ReleaseReturns_Inv DEF Release
  <2>5. CASE Decode(r)
    BY <2>5, <1>1, Admit_Inv, AdmitLate_Inv, Register_Inv, RegisterLate_Inv,
       ServeRelease_Inv, ServeGen_Inv, Restore_Inv, DecodeEnds_Inv DEF Decode
  <2>6. CASE Environment(r)
    BY <2>6, <1>1, Arrive_Inv, Leave_Inv, DispatchRefused_Inv, PrepareFails_Inv,
       AddFails_Inv, GenFails_Inv, ReleaseNoChannel_Inv, ReleaseFails_Inv,
       ResendAdd_Inv, ResendGen_Inv
       DEF Environment
  <2> QED BY <2>1, <2>2, <2>3, <2>4, <2>5, <2>6
<1>3. ASSUME NEW q \in Requests PROVE ReqInv(q)'
  <2>1. CASE q = r
    BY <2>1, <1>2 DEF Step
  <2>2. CASE q # r
    BY <2>2, <1>2, SameKeeps DEF Step, IInv
  <2> QED BY <2>1, <2>2
<1> QED BY <1>2, <1>3 DEF Step, IInv

LEMMA StutterIInv ==
  ASSUME IInv, UNCHANGED vars
  PROVE  IInv'
<1> USE DEF vars, prefill, decode, history
<1>1. TypeInv'
  BY DEF IInv, TypeInv, PrefillType, CallType, DecodeType, HistoryType
<1>2. ASSUME NEW q \in Requests PROVE Same(q)
  BY DEF Same
<1> QED BY <1>1, <1>2, SameKeeps DEF IInv

LEMMA NextIInv == IInv /\ [Next]_vars => IInv'
BY RequestStep, UnlinkPublish_Inv, Link_Inv, StutterIInv DEF Next

LEMMA InvariantHolds == Spec => []IInv
BY InitIInv, NextIInv, PTL DEF Spec

\* The KV of every chunk the prefill has pushed stays in the blocks reserved for
\* its request, and the decode runs a request only on the KV of its whole prompt
\* unless brpc has repeated both of its calls (decode_recv_first_generation,
\* release_failed_request): for any number of requests, chunks, failures and
\* late, lost or repeated calls.
THEOREM PushedKvIsReserved == Spec => []KvInItsReservation
<1>1. IInv => KvInItsReservation
  BY DEF IInv, ReqInv, PushInv, HandOffInv, InPrefill, KvInItsReservation
<1> QED BY <1>1, InvariantHolds, PTL

\* A request that is over and has no release task leaves no reservation behind
\* on the decode, now or later: the release task is made whenever the decode may
\* hold blocks, and its tombstone turns away every AddNewRequests that arrives
\* after it (release_failed_request, decode_schedule).
THEOREM NoReservationIsForgotten == Spec => []NoOrphanReservation
<1>1. IInv => NoOrphanReservation
  BY DEF IInv, ReqInv, PushInv, OwnerInv, NoOrphanReservation
<1> QED BY <1>1, InvariantHolds, PTL

\* A request dispatched before an unlink of its decode and not yet looked at by
\* the scheduler is never prefilled, however often the instance is unlinked and
\* linked again (reject_queued_request): its epoch stays behind.
THEOREM UnlinkedRequestsNotPrefilled == Spec => []NoPrefillAcrossUnlink
<1>1. IInv => NoPrefillAcrossUnlink
  BY DEF IInv, TypeInv, HistoryType, ReqInv, UnlinkInv, NoPrefillAcrossUnlink
<1> QED BY <1>1, InvariantHolds, PTL
=============================================================================
