---------------------------- MODULE StorePrefetch ----------------------------
(***************************************************************************)
(* The prefetch of one request's prefix from the Mooncake store into host  *)
(* pages, before the request is admitted.  The scheduling process opens a  *)
(* brpc stream to every worker of the data-parallel group; each worker     *)
(* reads the prefix batch by batch (WorkerPrefetchSession) and sends the   *)
(* hits of a batch back; PrefetchResult answers CONTINUE or STOP and, when *)
(* every stream has closed, reports what all workers have, which           *)
(* HierarchyBlockManagerPool publishes in the host prefix cache or drops.  *)
(*                                                                         *)
(* A step is one section under a mutex, or one stream callback.            *)
(*                                                                         *)
(*   result     PrefetchResult                                             *)
(*   client     the scheduling process's end of a worker's stream          *)
(*   calling    the PrefetchFromStorage RPC of that worker is outstanding  *)
(*   rpc        what the worker made of it                                 *)
(*   session    WorkerPrefetchSession, its thread-pool job, its stream end *)
(*   up, down   frames under way: results, controls                        *)
(*   lost       the connection has failed                                  *)
(*   page, opt  units whose gated / non-gated host pages a Get has filled  *)
(*   expired    prefetch_timeout has passed; cancelled: the request ended  *)
(*   outcome    of the admission: pages published, or given back           *)
(*   faults     failures so far, at most MaxFaults                         *)
(***************************************************************************)
EXTENDS Integers, FiniteSets, Sequences

CONSTANTS Workers,      \* workers of the data-parallel group
          NumUnits,     \* units of the request
          BatchSize,    \* prefetch_batch_size
          HasOptional,  \* units carry non-gated blocks (SWA_COMPRESSED)
          HasTimeout,   \* prefetch_timeout > 0
          HasStats,     \* the measurements are on: stats_pool_ is there
          MaxFaults     \* bound on failures of the environment

ASSUME UnitsAssumption == NumUnits \in Nat \ {0} /\ BatchSize \in Nat \ {0}
ASSUME WorkersAssumption == IsFiniteSet(Workers) /\ Workers # {}

VARIABLES result, client, calling, rpc, session, up, down, lost, page, opt,
          expired, cancelled, outcome, faults

stream == <<client, calling, rpc, up, down, lost>>
env    == <<expired, cancelled, outcome, faults>>
vars   == <<result, session, page, opt, stream, env>>

Units == 1 .. NumUnits

\* batch_count() and the units of batch i, numbered from 0.
batch_count == (NumUnits + BatchSize - 1) \div BatchSize
BatchUnits(i) == {u \in Units : (u - 1) \div BatchSize = i}

-----------------------------------------------------------------------------
(* PrefetchResult                                                          *)

NewResult ==
  [state |-> [w \in Workers |-> "WAITING_RESULT"],
   batch |-> [w \in Workers |-> 0],
   gated |-> [w \in Workers |-> {}], non_gated |-> [w \in Workers |-> {}],
   failed |-> FALSE, go |-> TRUE, reason |-> "COMPLETE"]

mark_worker_failed(R) == [R EXCEPT !.failed = TRUE, !.go = FALSE]

\* should_continue_prefetch(): continue_prefetch_ and stop_reason_ after a batch
\* of w, and the answer.
GoAfter(R, complete) == R.go /\ complete /\ ~expired /\ ~cancelled

\* Mutant: only the first stop of any kind is looked at.
ReasonAfter_FirstStop(R, complete, more) ==
  IF R.reason # "COMPLETE" \/ ~R.go THEN R.reason
  ELSE IF ~complete THEN "MISS"
  ELSE IF more /\ expired THEN "TIMEOUT"
  ELSE IF more /\ cancelled THEN "CANCELLED"
  ELSE "COMPLETE"

ReasonAfter(R, complete, more) ==
  IF R.reason # "COMPLETE" THEN R.reason
  ELSE IF ~complete THEN "MISS"
  ELSE IF more /\ expired THEN "TIMEOUT"
  ELSE IF more /\ cancelled THEN "CANCELLED"
  ELSE "COMPLETE"

Expected(R, w) == R.state[w] = "WAITING_RESULT" /\ R.batch[w] < batch_count

MoreBatches(R, w) == R.batch[w] + 1 < batch_count

Continues(R, w, complete) == MoreBatches(R, w) /\ complete /\ GoAfter(R, complete)

\* record_batch_result() of an expected frame f.
record_batch_result(R, w, f) ==
  LET complete == BatchUnits(R.batch[w]) \subseteq f.gated
      cont     == Continues(R, w, complete)
  IN  [R EXCEPT !.gated[w] = @ \cup f.gated,
                !.non_gated[w] = @ \cup f.non_gated,
                !.go = GoAfter(R, complete),
                !.reason = ReasonAfter(R, complete, MoreBatches(R, w)),
                !.state[w] = IF cont THEN @ ELSE "WAITING_CLOSE",
                !.batch[w] = IF cont THEN @ + 1 ELSE @]

\* Mutant: a stream that closes before its STOP is no failure.
mark_worker_ended_Lenient(R, w) == [R EXCEPT !.state[w] = "ENDED"]

mark_worker_ended(R, w) ==
  LET early == R.state[w] = "WAITING_RESULT"
  IN  [R EXCEPT !.failed = @ \/ early, !.go = @ /\ ~early, !.state[w] = "ENDED"]

\* Mutant: the summary is made when one worker is left.
AllEnded_OneLeft(R) == Cardinality({w \in Workers : R.state[w] # "ENDED"}) <= 1

AllEnded(R) == \A w \in Workers : R.state[w] = "ENDED"

-----------------------------------------------------------------------------
(* WorkerPrefetchSession                                                   *)

NewSession ==
  [state |-> "CREATED", batch |-> 0, running |-> FALSE, finished |-> FALSE,
   failed |-> FALSE, closed |-> FALSE, gate |-> FALSE, stop |-> FALSE,
   closing |-> "no", report |-> "none", batches |-> 0, reported |-> 0,
   job |-> "none", hits |-> [gated |-> {}, non_gated |-> {}],
   end |-> "none", shut |-> "no"]

\* Mutant: a report does not wait for the running Get.
report_ready_EarlyReport(S) ==
  [S EXCEPT !.report = IF HasStats /\ S.closed /\ @ = "none" THEN "scheduled" ELSE @]

report_ready(S) ==
  [S EXCEPT !.report = IF HasStats /\ S.closed /\ ~S.running /\ @ = "none"
                         THEN "scheduled" ELSE @]

\* finish(), its first section; FinishClose is the rest, and closes the stream
\* whose id its caller has.
finish(S, failed) ==
  IF S.finished THEN S
  ELSE [S EXCEPT !.finished = TRUE, !.failed = failed, !.closing = "stream",
                 !.state = IF failed THEN "FAILED" ELSE "COMPLETED"]

Fault == faults < MaxFaults /\ faults' = faults + 1

\* PrefetchFromStorage(): the stream is accepted, the reply is sent, and start()
\* follows.
Serve(w) ==
  /\ rpc[w] = "sent"
  /\ rpc' = [rpc EXCEPT ![w] = "served"]
  /\ session' = [session EXCEPT ![w] = [@ EXCEPT !.end = "open", !.job = "start"]]
  /\ UNCHANGED <<result, client, calling, up, down, lost, page, opt, env>>

\* The request does not parse or the stream is not accepted.
Refuse(w) ==
  /\ rpc[w] = "sent"
  /\ Fault
  /\ rpc' = [rpc EXCEPT ![w] = "refused"]
  /\ UNCHANGED <<result, client, calling, session, up, down, lost, page, opt,
                 expired, cancelled, outcome>>

\* start(), then schedule_batch() in a section of its own, then the pool runs
\* run_batch() up to its Get.  Each looks again whether the session is over.
Start(w) ==
  /\ session[w].job = "start"
  /\ session' = [session EXCEPT ![w] =
       IF @.finished \/ @.state # "CREATED" THEN [@ EXCEPT !.job = "none"]
       ELSE [@ EXCEPT !.state = "RUNNING_BATCH", !.job = "schedule"]]
  /\ UNCHANGED <<result, page, opt, stream, env>>

Live(S) == ~S.finished /\ S.state = "RUNNING_BATCH"

ScheduleBatch(w) ==
  /\ session[w].job = "schedule"
  /\ session' = [session EXCEPT ![w].job =
                   IF Live(session[w]) THEN "queued" ELSE "none"]
  /\ UNCHANGED <<result, page, opt, stream, env>>

RunBatch(w) ==
  /\ session[w].job = "queued"
  /\ session' = [session EXCEPT ![w] =
       IF Live(@) THEN [@ EXCEPT !.running = TRUE, !.job = "get"]
                  ELSE [@ EXCEPT !.job = "none"]]
  /\ UNCHANGED <<result, page, opt, stream, env>>

\* run_batch() after its Get: statistics, and unless the session is over the
\* result to write.
AfterGet(S, ok, G, X) ==
  LET T == [S EXCEPT !.running = FALSE, !.batches = @ + 1]
  IN  IF S.finished THEN report_ready([T EXCEPT !.job = "none"])
      ELSE [T EXCEPT !.gate = ok /\ BatchUnits(S.batch) \subseteq G,
                     !.state = IF S.stop THEN "COMPLETED" ELSE "WAITING_DECISION",
                     !.hits = [gated |-> G, non_gated |-> X],
                     !.job = IF ok THEN "write" ELSE "invalid"]

\* The Get returns: it has read the gated blocks of units G and the non-gated
\* ones of units X.  A unit that has none counts as hit.
GetReturns(w) ==
  /\ session[w].job = "get"
  /\ \E G, X \in SUBSET BatchUnits(session[w].batch) :
       /\ ~HasOptional => X = BatchUnits(session[w].batch)
       /\ page' = [page EXCEPT ![w] = @ \cup G]
       /\ opt' = [opt EXCEPT ![w] = @ \cup X]
       /\ session' = [session EXCEPT ![w] = AfterGet(@, TRUE, G, X)]
  /\ UNCHANGED <<result, stream, env>>

\* The Get returns a result of the wrong length.
GetInvalid(w) ==
  /\ session[w].job = "get"
  /\ Fault
  /\ session' = [session EXCEPT ![w] = AfterGet(@, FALSE, {}, {})]
  /\ UNCHANGED <<result, page, opt, stream, expired, cancelled, outcome>>

\* run_batch() writes the result, or gives up.
WriteResult(w) ==
  LET S    == [session[w] EXCEPT !.job = "none"]
      sent == session[w].job = "write" /\ S.end = "open" /\ ~lost[w]
  IN  /\ session[w].job \in {"write", "invalid"}
      /\ up' = IF sent THEN [up EXCEPT ![w] = Append(@, S.hits)] ELSE up
      /\ session' = [session EXCEPT ![w] =
           IF ~sent THEN finish(S, TRUE) ELSE IF S.stop THEN finish(S, FALSE) ELSE S]
      /\ UNCHANGED <<result, client, calling, rpc, down, lost, page, opt, env>>

\* Mutant: STOP completes the session but leaves its stream open.
AfterControl_NoClose(S, control) ==
  IF S.finished THEN S
  ELSE IF S.state = "RUNNING_BATCH" /\ control = "STOP" THEN [S EXCEPT !.stop = TRUE]
  ELSE IF S.state # "WAITING_DECISION" THEN finish(S, TRUE)
  ELSE IF control = "STOP" THEN [S EXCEPT !.state = "COMPLETED"]
  ELSE IF S.gate /\ S.batch + 1 < batch_count
    THEN [S EXCEPT !.batch = @ + 1, !.state = "RUNNING_BATCH", !.job = "schedule"]
  ELSE finish(S, TRUE)

\* on_received_messages(): a control.
AfterControl(S, control) ==
  IF S.finished THEN S
  ELSE IF S.state = "RUNNING_BATCH" /\ control = "STOP" THEN [S EXCEPT !.stop = TRUE]
  ELSE IF S.state # "WAITING_DECISION" THEN finish(S, TRUE)
  ELSE IF control = "STOP" THEN finish(S, FALSE)
  ELSE IF S.gate /\ S.batch + 1 < batch_count
    THEN [S EXCEPT !.batch = @ + 1, !.state = "RUNNING_BATCH", !.job = "schedule"]
  ELSE finish(S, TRUE)

ReceiveControl(w) ==
  /\ session[w].end = "open" /\ down[w] # <<>>
  /\ down' = [down EXCEPT ![w] = Tail(@)]
  /\ session' = [session EXCEPT ![w] = AfterControl(@, Head(down[w]))]
  /\ UNCHANGED <<result, client, calling, rpc, up, lost, page, opt, env>>

\* callbacks_.close(): an unset stream id closes nothing.
Closed(S) ==
  [S EXCEPT !.closing = "no", !.closed = TRUE,
            !.end = IF @ = "open" /\ S.closing = "stream" THEN "closing" ELSE @]

\* Mutant: the report is left to on_closed().
FinishClose_NoReport(w) ==
  /\ session[w].closing # "no"
  /\ session' = [session EXCEPT ![w] = Closed(@)]
  /\ UNCHANGED <<result, page, opt, stream, env>>

\* finish(), the rest: the stream is closed and the session may report.
FinishClose(w) ==
  /\ session[w].closing # "no"
  /\ session' = [session EXCEPT ![w] = report_ready(Closed(@))]
  /\ UNCHANGED <<result, page, opt, stream, env>>

\* on_failed() and on_closed() of the worker's end.
SessionFailed(w) ==
  /\ session[w].end = "open" /\ lost[w] /\ ~session[w].finished
  /\ session' = [session EXCEPT ![w] = finish(@, TRUE)]
  /\ UNCHANGED <<result, page, opt, stream, env>>

on_closed(S) ==
  [S EXCEPT !.failed = @ \/ ~S.finished, !.finished = TRUE, !.state = "CLOSED",
            !.closed = TRUE, !.end = "closed"]

SessionClosed(w) ==
  /\ \/ session[w].end = "closing"
     \/ session[w].end = "open" /\ client[w] \in {"closing", "closed"} /\ down[w] = <<>>
  /\ session' = [session EXCEPT ![w] = report_ready(on_closed(@))]
  /\ UNCHANGED <<result, page, opt, stream, env>>

\* shutdown(): the worker service is destroyed; it returns once the stream of
\* the session is closed.  Before start() it does not know the stream's id.
Shutdown(w) ==
  LET S == [session[w] EXCEPT !.shut = "waiting"]
  IN  /\ S.end # "none" /\ session[w].shut = "no"
      /\ Fault
      /\ session' = [session EXCEPT ![w] =
           IF S.finished \/ S.state # "CREATED" THEN finish(S, TRUE)
           ELSE [finish(S, TRUE) EXCEPT !.closing = "nothing"]]
      /\ UNCHANGED <<result, page, opt, stream, expired, cancelled, outcome>>

ShutdownReturns(w) ==
  /\ session[w].shut = "waiting" /\ session[w].closed
  /\ session' = [session EXCEPT ![w].shut = "returned"]
  /\ UNCHANGED <<result, page, opt, stream, env>>

\* The server of a destroyed service goes down, and its connections with it.
ServerStops(w) ==
  /\ session[w].shut = "returned" /\ ~lost[w]
  /\ lost' = [lost EXCEPT ![w] = TRUE]
  /\ up' = [up EXCEPT ![w] = <<>>]
  /\ down' = [down EXCEPT ![w] = <<>>]
  /\ UNCHANGED <<result, client, calling, rpc, session, page, opt, env>>

\* report_stats() on the statistics pool.
ReportStats(w) ==
  /\ session[w].report = "scheduled"
  /\ session' = [session EXCEPT ![w] =
                   [@ EXCEPT !.report = "done", !.reported = session[w].batches]]
  /\ UNCHANGED <<result, page, opt, stream, env>>

-----------------------------------------------------------------------------
(* CommChannel::prefetch_from_storage() and ClientStreamReceiver           *)

\* The request does not serialise or the stream cannot be created.
ConnectFails(w) ==
  /\ client[w] = "none"
  /\ Fault
  /\ client' = [client EXCEPT ![w] = "closed"]
  /\ result' = mark_worker_ended(mark_worker_failed(result), w)
  /\ UNCHANGED <<calling, rpc, session, up, down, lost, page, opt,
                 expired, cancelled, outcome>>

Connect(w) ==
  /\ client[w] = "none"
  /\ client' = [client EXCEPT ![w] = "open"]
  /\ calling' = [calling EXCEPT ![w] = TRUE]
  /\ rpc' = [rpc EXCEPT ![w] = "sent"]
  /\ UNCHANGED <<result, session, up, down, lost, page, opt, env>>

RpcReturns(w) ==
  /\ calling[w] /\ rpc[w] = "served"
  /\ calling' = [calling EXCEPT ![w] = FALSE]
  /\ UNCHANGED <<result, client, rpc, session, up, down, lost, page, opt, env>>

\* fail_and_close(): the stream closes when its on_closed() has run.
FailAndClose(w) ==
  /\ result' = mark_worker_failed(result)
  /\ client' = [client EXCEPT ![w] = IF @ = "open" THEN "closing" ELSE @]

\* The RPC is refused, or it times out while the worker is still to serve it or
\* already serves it.
RpcFails(w) ==
  /\ calling[w]
  /\ IF rpc[w] = "refused" THEN UNCHANGED faults ELSE Fault
  /\ calling' = [calling EXCEPT ![w] = FALSE]
  /\ FailAndClose(w)
  /\ UNCHANGED <<rpc, session, up, down, lost, page, opt, expired, cancelled, outcome>>

\* on_received_messages(): a result frame is recorded and the answer goes back.
ReceiveResult(w) ==
  LET R == record_batch_result(result, w, Head(up[w]))
  IN  /\ client[w] = "open" /\ up[w] # <<>>
      /\ up' = [up EXCEPT ![w] = Tail(@)]
      /\ IF Expected(result, w)
           THEN /\ result' = R
                /\ down' = [down EXCEPT ![w] = Append(@,
                     IF R.state[w] = "WAITING_CLOSE" THEN "STOP" ELSE "CONTINUE")]
                /\ UNCHANGED client
           ELSE FailAndClose(w) /\ UNCHANGED down
      /\ UNCHANGED <<calling, rpc, session, lost, page, opt, env>>

\* send_control() fails after the frame has been recorded.
ControlFails(w) ==
  /\ client[w] = "open" /\ up[w] # <<>> /\ Expected(result, w)
  /\ Fault
  /\ up' = [up EXCEPT ![w] = Tail(@)]
  /\ result' = mark_worker_failed(record_batch_result(result, w, Head(up[w])))
  /\ client' = [client EXCEPT ![w] = "closing"]
  /\ UNCHANGED <<calling, rpc, session, down, lost, page, opt, expired, cancelled,
                 outcome>>

\* on_idle_timeout(): no frame for prefetch_timeout.
IdleTimeout(w) ==
  /\ client[w] = "open" /\ up[w] = <<>>
  /\ HasTimeout /\ expired
  /\ FailAndClose(w)
  /\ UNCHANGED <<calling, rpc, session, up, down, lost, page, opt, env>>

ClientFailed(w) ==
  /\ client[w] = "open" /\ lost[w]
  /\ FailAndClose(w)
  /\ UNCHANGED <<calling, rpc, session, up, down, lost, page, opt, env>>

\* on_closed(): this end was closed, or the worker's was and its frames are read.
ClientClosed(w) ==
  /\ \/ client[w] = "closing"
     \/ client[w] = "open" /\ session[w].end \in {"closing", "closed"} /\ up[w] = <<>>
  /\ client' = [client EXCEPT ![w] = "closed"]
  /\ result' = mark_worker_ended(result, w)
  /\ UNCHANGED <<calling, rpc, session, up, down, lost, page, opt, env>>

-----------------------------------------------------------------------------
(* HierarchyBlockManagerPool::prefetch_from_storage(): the done callback   *)

\* Units that every worker hit, in one run from the first.
CommonPrefix(hit) ==
  {u \in Units : \A v \in 1 .. u : \A w \in Workers : v \in hit[w]}

\* finalize_prefetch_tokens(), in units: the prefix of gated hits, cut back to
\* its deepest unit with all of its non-gated blocks.
FinalUnits(gated, non_gated) ==
  LET usable == {u \in CommonPrefix(gated) : \A w \in Workers : u \in non_gated[w]}
  IN  IF HasOptional THEN {u \in Units : \E v \in usable : u <= v}
                     ELSE CommonPrefix(gated)

\* The pages of the retained units are published; otherwise host_state.reset()
\* gives every page back.  Either way the request goes on to the scheduler.
Finalize ==
  /\ AllEnded(result) /\ outcome.kind = "pending"
  /\ outcome' = IF ~result.failed /\ ~cancelled
                  THEN [kind |-> "published",
                        units |-> FinalUnits(result.gated, result.non_gated)]
                  ELSE [kind |-> "discarded", units |-> {}]
  /\ UNCHANGED <<result, session, page, opt, stream, expired, cancelled, faults>>

-----------------------------------------------------------------------------
(* The environment                                                         *)

TimerExpires ==
  /\ HasTimeout /\ ~expired
  /\ expired' = TRUE
  /\ UNCHANGED <<result, session, page, opt, stream, cancelled, outcome, faults>>

Cancel ==
  /\ ~cancelled /\ outcome.kind = "pending"
  /\ cancelled' = TRUE
  /\ UNCHANGED <<result, session, page, opt, stream, expired, outcome, faults>>

\* The connection fails: frames under way are gone.
ConnectionLost(w) ==
  /\ ~lost[w] /\ rpc[w] = "served"
  /\ Fault
  /\ lost' = [lost EXCEPT ![w] = TRUE]
  /\ up' = [up EXCEPT ![w] = <<>>]
  /\ down' = [down EXCEPT ![w] = <<>>]
  /\ UNCHANGED <<result, client, calling, rpc, session, page, opt,
                 expired, cancelled, outcome>>

Init ==
  /\ result = NewResult
  /\ session = [w \in Workers |-> NewSession]
  /\ client = [w \in Workers |-> "none"]
  /\ calling = [w \in Workers |-> FALSE]
  /\ rpc = [w \in Workers |-> "none"]
  /\ up = [w \in Workers |-> <<>>] /\ down = [w \in Workers |-> <<>>]
  /\ lost = [w \in Workers |-> FALSE]
  /\ page = [w \in Workers |-> {}] /\ opt = [w \in Workers |-> {}]
  /\ expired = FALSE /\ cancelled = FALSE /\ faults = 0
  /\ outcome = [kind |-> "pending", units |-> {}]

\* Steps a thread, a pool or the stream layer takes by itself.
SessionStep(w) ==
  \/ Serve(w) \/ Start(w) \/ ScheduleBatch(w) \/ RunBatch(w) \/ GetReturns(w)
  \/ WriteResult(w) \/ ReceiveControl(w) \/ FinishClose(w) \/ SessionFailed(w)
  \/ SessionClosed(w) \/ ShutdownReturns(w) \/ ServerStops(w)
  \/ ReportStats(w)

ClientStep(w) ==
  \/ Connect(w) \/ RpcReturns(w) \/ (rpc[w] = "refused" /\ RpcFails(w))
  \/ ReceiveResult(w) \/ ClientFailed(w) \/ ClientClosed(w)

FaultStep(w) ==
  \/ Refuse(w) \/ GetInvalid(w) \/ Shutdown(w) \/ ConnectFails(w)
  \/ (rpc[w] # "refused" /\ RpcFails(w)) \/ IdleTimeout(w) \/ ConnectionLost(w)
  \/ ControlFails(w)

Next ==
  \/ \E w \in Workers : SessionStep(w) \/ ClientStep(w) \/ FaultStep(w)
  \/ Finalize \/ TimerExpires \/ Cancel

Spec == Init /\ [][Next]_vars

\* Threads and pools run what is queued, the stream layer delivers frames and
\* closures, and a Get of the store returns.
Fairness ==
  /\ \A w \in Workers : WF_vars(SessionStep(w)) /\ WF_vars(ClientStep(w))
  /\ WF_vars(Finalize)

FairSpec == Spec /\ Fairness

-----------------------------------------------------------------------------
(* Properties                                                              *)

\* What is published is exactly the prefix that every worker really has in its
\* pages, cut back to a unit whose optional blocks are there too
\* (global_kvcache.md: "publishable only when every cache domain and every
\* required Worker are complete").
PublishedIsFetched ==
  LET Restorable(u) == \A w \in Workers : 1 .. u \subseteq page[w] /\ u \in opt[w]
  IN  outcome.kind = "published" =>
        outcome.units = {u \in Units : \E v \in u .. NumUnits : Restorable(v)}

\* No Get is running or still to run on pages that have been published: they
\* belong to the host prefix cache now.
PublishedIsQuiet ==
  outcome.kind = "published" => \A w \in Workers : session[w].job = "none"

\* A prefetch reported COMPLETE left nothing unfetched on any worker
\* (prefetch_result.h: "Only a stop that leaves units unfetched is recorded").
CompleteMeansAll ==
  outcome.kind # "pending" /\ ~result.failed /\ result.reason = "COMPLETE" =>
    \A w \in Workers : page[w] = Units

\* A session reports once, and its report counts every Get it ever ran, one
\* that was running when the stream closed included (global_kvcache.md,
\* "Failure reports retain completed Get statistics").
ReportIsFinal ==
  \A w \in Workers :
    session[w].report = "done" =>
      ~session[w].running /\ session[w].reported = session[w].batches

\* When shutdown() has returned, no stream callback can start a report any
\* more: only a Get still running can, and the owner drains its pool first
\* (worker_prefetch_session.cpp, the comment in shutdown()).
NoReportAfterShutdown ==
  [][\A w \in Workers :
       session[w].shut = "returned" /\ ~session[w].running =>
         ~(session[w].report = "none" /\ session'[w].report = "scheduled")]_vars

\* Every prefetch ends, so that no request stays out of the scheduler, and every
\* session that was served closes its stream and reports.
PrefetchEnds ==
  /\ <>(outcome.kind # "pending")
  /\ \A w \in Workers : session[w].end = "open" ~> session[w].report = "done"
=============================================================================
