------------------------- MODULE StorePrefetchProofs -------------------------
(***************************************************************************)
(* Proofs about StorePrefetch, for every number of workers, units and      *)
(* failures and every batch size.                                          *)
(*                                                                         *)
(* A session and its receiver work in lockstep: at most one frame or one   *)
(* control is under way, and then the session's job is over (FlowInv).     *)
(* What a worker has fetched is what the receiver has recorded, but for    *)
(* the frame under way, or the frame was lost and the receiver will never  *)
(* see the worker stop as asked (SyncInv).                                 *)
(***************************************************************************)
EXTENDS StorePrefetch, TLAPS

Hits == [gated : SUBSET Units, non_gated : SUBSET Units]
Sessions ==
  [state : {"CREATED", "RUNNING_BATCH", "WAITING_DECISION", "COMPLETED", "FAILED",
            "CLOSED"},
   batch : Nat, running : BOOLEAN, finished : BOOLEAN, failed : BOOLEAN,
   closed : BOOLEAN, gate : BOOLEAN, stop : BOOLEAN,
   closing : {"no", "stream", "nothing"}, report : {"none", "scheduled", "done"},
   batches : Nat, reported : Nat,
   job : {"none", "start", "schedule", "queued", "get", "write", "invalid"},
   hits : Hits, end : {"none", "open", "closing", "closed"},
   shut : {"no", "waiting", "returned"}]
Results ==
  [state : [Workers -> {"WAITING_RESULT", "WAITING_CLOSE", "ENDED"}],
   batch : [Workers -> Nat],
   gated : [Workers -> SUBSET Units], non_gated : [Workers -> SUBSET Units],
   failed : BOOLEAN, go : BOOLEAN,
   reason : {"COMPLETE", "MISS", "TIMEOUT", "CANCELLED"}]

\* At most one frame of a stream is under way in each direction.
Frames   == {<<>>} \union {<<f>> : f \in Hits}
Controls == {<<>>, <<"CONTINUE">>, <<"STOP">>}

TypeInv ==
  /\ result \in Results /\ session \in [Workers -> Sessions]
  /\ client \in [Workers -> {"none", "open", "closing", "closed"}]
  /\ rpc \in [Workers -> {"none", "sent", "served", "refused"}]
  /\ up \in [Workers -> Frames] /\ down \in [Workers -> Controls]
  /\ lost \in [Workers -> BOOLEAN]
  /\ page \in [Workers -> SUBSET Units] /\ opt \in [Workers -> SUBSET Units]
  /\ expired \in BOOLEAN /\ cancelled \in BOOLEAN
  /\ outcome \in [kind : {"pending", "published", "discarded"}, units : SUBSET Units]

\* When a session reports: once its stream is closed and no Get is running.
ReportInv(S) ==
  /\ S.running <=> S.job = "get"
  /\ S.closing # "no" \/ S.closed => S.finished
  /\ S.report # "none" => HasStats /\ S.closed /\ ~S.running
  /\ S.report = "done" => S.reported = S.batches
  /\ HasStats /\ S.closed /\ ~S.running => S.report # "none"
  /\ S.shut = "returned" => S.closed

\* Lockstep of a session and its receiver.
FlowInv(w) ==
  /\ up[w] # <<>> => down[w] = <<>>
  /\ up[w] # <<>> \/ down[w] # <<>> => session[w].job = "none" /\ rpc[w] = "served"
  /\ rpc[w] # "served" => session[w].job = "none"
  /\ client[w] = "none" => rpc[w] = "none"
  /\ result.state[w] = "ENDED" <=> client[w] = "closed"
  /\ result.batch[w] < batch_count

\* The worker has been told to stop, or will be by the control under way.
Quiet(w) ==
  /\ session[w].job = "none" /\ rpc[w] = "served"
  /\ up[w] = <<>> /\ down[w] # <<"CONTINUE">>

\* The receiver has seen worker w stop as asked.
Stopped(w) ==
  \/ result.state[w] = "WAITING_CLOSE"
  \/ result.state[w] = "ENDED" /\ ~result.failed

QuietInv(w) == Stopped(w) \/ outcome.kind = "published" => Quiet(w)

\* The worker has fetched what is recorded and what frame f adds to it.
Fetched(w, f) ==
  /\ page[w] = result.gated[w] \union f.gated
  /\ opt[w] = result.non_gated[w] \union f.non_gated

NoHits == [gated |-> {}, non_gated |-> {}]

\* A frame is lost or will never be sent, and none comes after it.
Broken(w) ==
  /\ up[w] = <<>> /\ ~Stopped(w)
  /\ lost[w] \/ (session[w].finished /\ session[w].job # "write")

SyncInv(w) ==
  \/ Broken(w)
  \/ session[w].job = "write" /\ Fetched(w, session[w].hits)
  \/ up[w] # <<>> /\ Fetched(w, Head(up[w]))
  \/ session[w].job # "write" /\ up[w] = <<>> /\ Fetched(w, NoHits)

\* Every batch before the one a worker is at was complete, and the one it
\* stopped at too unless a reason was noted.
BatchInv(w) ==
  /\ \A i \in 0 .. result.batch[w] - 1 : BatchUnits(i) \subseteq result.gated[w]
  /\ Stopped(w) /\ ~result.failed /\ result.reason = "COMPLETE" =>
       /\ result.batch[w] + 1 = batch_count
       /\ BatchUnits(result.batch[w]) \subseteq result.gated[w]

OptInv(w) == ~HasOptional => page[w] \subseteq opt[w]

WorkerInv(w) ==
  /\ ReportInv(session[w]) /\ FlowInv(w) /\ QuietInv(w) /\ SyncInv(w)
  /\ BatchInv(w) /\ OptInv(w)

\* Why the workers are told to stop, and when the outcome is decided.
StopInv ==
  /\ ~result.go => \/ result.failed \/ result.reason # "COMPLETE"
                   \/ expired \/ cancelled
  /\ outcome.kind # "pending" => AllEnded(result)

IInv == /\ TypeInv /\ StopInv /\ PublishedIsFetched
        /\ \A w \in Workers : WorkerInv(w)

-----------------------------------------------------------------------------
(* The operators on a session.                                             *)

\* A session stays a session when one of its flags is set.
LEMMA SetFlag ==
  ASSUME NEW S \in Sessions, NEW b \in BOOLEAN
  PROVE  /\ [S EXCEPT !.finished = b] \in Sessions
         /\ [S EXCEPT !.failed = b] \in Sessions
         /\ [S EXCEPT !.closed = b] \in Sessions
         /\ [S EXCEPT !.running = b] \in Sessions
         /\ [S EXCEPT !.gate = b] \in Sessions
         /\ [S EXCEPT !.stop = b] \in Sessions
<1>1. [S EXCEPT !.finished = b] \in Sessions
  BY DEF Sessions
<1>2. [S EXCEPT !.failed = b] \in Sessions
  BY DEF Sessions
<1>3. [S EXCEPT !.closed = b] \in Sessions
  BY DEF Sessions
<1>4. [S EXCEPT !.running = b] \in Sessions
  BY DEF Sessions
<1>5. [S EXCEPT !.gate = b] \in Sessions
  BY DEF Sessions
<1>6. [S EXCEPT !.stop = b] \in Sessions
  BY DEF Sessions
<1> QED BY <1>1, <1>2, <1>3, <1>4, <1>5, <1>6

\* ... or another field gets a value of its type.
LEMMA SetField ==
  ASSUME NEW S \in Sessions
  PROVE  /\ \A x \in {"CREATED", "RUNNING_BATCH", "WAITING_DECISION", "COMPLETED", "FAILED", "CLOSED"} :
              [S EXCEPT !.state = x] \in Sessions
         /\ \A x \in Nat :
              [S EXCEPT !.batch = x] \in Sessions
         /\ \A x \in {"no", "stream", "nothing"} :
              [S EXCEPT !.closing = x] \in Sessions
         /\ \A x \in {"none", "scheduled", "done"} :
              [S EXCEPT !.report = x] \in Sessions
         /\ \A x \in Nat :
              [S EXCEPT !.batches = x] \in Sessions
         /\ \A x \in Nat :
              [S EXCEPT !.reported = x] \in Sessions
         /\ \A x \in {"none", "start", "schedule", "queued", "get", "write", "invalid"} :
              [S EXCEPT !.job = x] \in Sessions
         /\ \A x \in Hits :
              [S EXCEPT !.hits = x] \in Sessions
         /\ \A x \in {"none", "open", "closing", "closed"} :
              [S EXCEPT !.end = x] \in Sessions
         /\ \A x \in {"no", "waiting", "returned"} :
              [S EXCEPT !.shut = x] \in Sessions
<1>1. ASSUME NEW x \in {"CREATED", "RUNNING_BATCH", "WAITING_DECISION", "COMPLETED", "FAILED", "CLOSED"}
      PROVE  [S EXCEPT !.state = x] \in Sessions
  BY DEF Sessions
<1>2. ASSUME NEW x \in Nat
      PROVE  [S EXCEPT !.batch = x] \in Sessions
  BY DEF Sessions
<1>3. ASSUME NEW x \in {"no", "stream", "nothing"}
      PROVE  [S EXCEPT !.closing = x] \in Sessions
  BY DEF Sessions
<1>4. ASSUME NEW x \in {"none", "scheduled", "done"}
      PROVE  [S EXCEPT !.report = x] \in Sessions
  BY DEF Sessions
<1>5. ASSUME NEW x \in Nat
      PROVE  [S EXCEPT !.batches = x] \in Sessions
  BY DEF Sessions
<1>6. ASSUME NEW x \in Nat
      PROVE  [S EXCEPT !.reported = x] \in Sessions
  BY DEF Sessions
<1>7. ASSUME NEW x \in {"none", "start", "schedule", "queued", "get", "write", "invalid"}
      PROVE  [S EXCEPT !.job = x] \in Sessions
  BY DEF Sessions
<1>8. ASSUME NEW x \in Hits
      PROVE  [S EXCEPT !.hits = x] \in Sessions
  BY DEF Sessions
<1>9. ASSUME NEW x \in {"none", "open", "closing", "closed"}
      PROVE  [S EXCEPT !.end = x] \in Sessions
  BY DEF Sessions
<1>10. ASSUME NEW x \in {"no", "waiting", "returned"}
      PROVE  [S EXCEPT !.shut = x] \in Sessions
  BY DEF Sessions
<1> QED BY <1>1, <1>2, <1>3, <1>4, <1>5, <1>6, <1>7, <1>8, <1>9, <1>10

\* finish() ends the session and leaves its job to itself.
LEMMA FinishFacts ==
  ASSUME NEW S \in Sessions, NEW f \in BOOLEAN
  PROVE  /\ finish(S, f) \in Sessions
         /\ finish(S, f).finished /\ finish(S, f).job = S.job
         /\ finish(S, f).hits = S.hits
         /\ ReportInv(S) => ReportInv(finish(S, f))
<1> DEFINE A == [S EXCEPT !.finished = TRUE]
           B == [A EXCEPT !.failed = f]
           C == [B EXCEPT !.closing = "stream"]
           D == [C EXCEPT !.state = IF f THEN "FAILED" ELSE "COMPLETED"]
<1>1. A \in Sessions
  BY SetFlag
<1>2. B \in Sessions
  BY <1>1, SetFlag
<1>3. C \in Sessions
  BY <1>2 DEF Sessions
<1>4. D \in Sessions
  BY <1>3 DEF Sessions
<1>5. finish(S, f) = IF S.finished THEN S ELSE D
  BY DEF finish
<1>6. /\ D.finished /\ D.job = S.job /\ D.hits = S.hits /\ D.running = S.running
      /\ D.closed = S.closed /\ D.report = S.report /\ D.reported = S.reported
      /\ D.batches = S.batches /\ D.shut = S.shut
  BY DEF Sessions
<1> HIDE DEF A, B, C, D
<1> QED BY <1>4, <1>5, <1>6 DEF ReportInv

LEMMA ReadyFacts ==
  ASSUME NEW S \in Sessions
  PROVE  /\ report_ready(S) \in Sessions
         /\ report_ready(S).finished = S.finished
         /\ report_ready(S).job = S.job /\ report_ready(S).hits = S.hits
         /\ /\ S.running <=> S.job = "get"
            /\ S.closing # "no" \/ S.closed => S.finished
            /\ S.report # "none" => HasStats /\ S.closed /\ ~S.running
            /\ S.report = "done" => S.reported = S.batches
            /\ S.shut = "returned" => S.closed
            => ReportInv(report_ready(S))
<1> DEFINE T == report_ready(S)
<1>1. T \in Sessions
  BY DEF Sessions, report_ready
<1>2. /\ T.job = S.job /\ T.hits = S.hits /\ T.running = S.running
      /\ T.closed = S.closed /\ T.reported = S.reported /\ T.finished = S.finished
      /\ T.batches = S.batches /\ T.shut = S.shut /\ T.closing = S.closing
      /\ T.report = IF HasStats /\ S.closed /\ ~S.running /\ S.report = "none"
                    THEN "scheduled" ELSE S.report
  BY DEF Sessions, report_ready
<1> HIDE DEF T
<1>3. ASSUME /\ S.running <=> S.job = "get"
             /\ S.closing # "no" \/ S.closed => S.finished
             /\ S.report # "none" => HasStats /\ S.closed /\ ~S.running
             /\ S.report = "done" => S.reported = S.batches
             /\ S.shut = "returned" => S.closed
      PROVE  ReportInv(T)
  BY <1>2, <1>3 DEF ReportInv
<1> QED BY <1>1, <1>2, <1>3 DEF T

\* After its Get a session has a result to write, or is over and may report.
LEMMA AfterGetOk ==
  ASSUME NEW S \in Sessions, S.job = "get", ReportInv(S),
         NEW G \in SUBSET Units, NEW X \in SUBSET Units
  PROVE  /\ AfterGet(S, TRUE, G, X) \in Sessions
         /\ ReportInv(AfterGet(S, TRUE, G, X))
         /\ AfterGet(S, TRUE, G, X).finished = S.finished
         /\ S.finished => AfterGet(S, TRUE, G, X).job = "none"
         /\ ~S.finished =>
              /\ AfterGet(S, TRUE, G, X).job = "write"
              /\ AfterGet(S, TRUE, G, X).hits = [gated |-> G, non_gated |-> X]
<1> DEFINE A == [S EXCEPT !.running = FALSE]
           B == [A EXCEPT !.batches = @ + 1]
           N == [B EXCEPT !.job = "none"]
           C == [B EXCEPT !.gate = BatchUnits(S.batch) \subseteq G]
           D == [C EXCEPT !.state = IF S.stop THEN "COMPLETED" ELSE "WAITING_DECISION"]
           E == [D EXCEPT !.hits = [gated |-> G, non_gated |-> X]]
           F == [E EXCEPT !.job = "write"]
<1>1. A \in Sessions
  BY SetFlag
<1>2. B \in Sessions
  <2>1. A.batches + 1 \in Nat
    BY <1>1 DEF Sessions
  <2> HIDE DEF A
  <2> QED BY <1>1, <2>1, SetField
<1>3. N \in Sessions
  BY <1>2, SetField
<1>4. (BatchUnits(S.batch) \subseteq G) \in BOOLEAN
  OBVIOUS
<1>5. C \in Sessions
  BY <1>2, <1>4, SetFlag
<1>6. D \in Sessions
  <2> HIDE DEF C
  <2> QED BY <1>5, SetField
<1>7. E \in Sessions
  <2>1. [gated |-> G, non_gated |-> X] \in Hits
    BY DEF Hits
  <2> HIDE DEF D
  <2> QED BY <1>6, <2>1, SetField
<1>8. F \in Sessions
  <2> HIDE DEF E
  <2> QED BY <1>7, SetField
<1>9. AfterGet(S, TRUE, G, X) = IF S.finished THEN report_ready(N) ELSE F
  BY DEF AfterGet
<1>10. /\ N.job = "none" /\ N.hits = S.hits /\ ~N.running /\ N.closed = S.closed
       /\ N.report = S.report /\ N.reported = S.reported /\ N.finished = S.finished
       /\ N.shut = S.shut /\ N.closing = S.closing
  BY DEF Sessions
<1>11. /\ F.job = "write" /\ ~F.running
       /\ F.hits = [gated |-> G, non_gated |-> X] /\ F.closed = S.closed
       /\ F.report = S.report /\ F.finished = S.finished
       /\ F.shut = S.shut /\ F.closing = S.closing
  BY DEF Sessions
<1> HIDE DEF A, B, C, D, E, F, N
<1>12. S.report = "none"
  BY DEF ReportInv
<1>13. CASE S.finished
  <2>1. AfterGet(S, TRUE, G, X) = report_ready(N)
    BY <1>9, <1>13
  <2>2. N.closing # "no" \/ N.closed => N.finished
    BY <1>10, <1>13
  <2>3. N.shut = "returned" => N.closed
    BY <1>10 DEF ReportInv
  <2>4. ReportInv(report_ready(N))
    BY <1>3, <1>10, <1>12, <2>2, <2>3, ReadyFacts
  <2> QED BY <1>3, <1>10, <1>13, <2>1, <2>4, ReadyFacts
<1>14. CASE ~S.finished
  <2>1. ReportInv(F)
    BY <1>11, <1>12, <1>14 DEF ReportInv
  <2> QED BY <1>8, <1>9, <1>11, <1>14, <2>1
<1> QED BY <1>13, <1>14

LEMMA AfterGetInvalid ==
  ASSUME NEW S \in Sessions, S.job = "get", ReportInv(S)
  PROVE  /\ AfterGet(S, FALSE, {}, {}) \in Sessions
         /\ ReportInv(AfterGet(S, FALSE, {}, {}))
         /\ AfterGet(S, FALSE, {}, {}).finished = S.finished
         /\ S.finished => AfterGet(S, FALSE, {}, {}).job = "none"
         /\ ~S.finished =>
              /\ AfterGet(S, FALSE, {}, {}).job = "invalid"
              /\ AfterGet(S, FALSE, {}, {}).hits = [gated |-> {}, non_gated |-> {}]
<1> DEFINE A == [S EXCEPT !.running = FALSE]
           B == [A EXCEPT !.batches = @ + 1]
           N == [B EXCEPT !.job = "none"]
           C == [B EXCEPT !.gate = FALSE]
           D == [C EXCEPT !.state = IF S.stop THEN "COMPLETED" ELSE "WAITING_DECISION"]
           E == [D EXCEPT !.hits = [gated |-> {}, non_gated |-> {}]]
           F == [E EXCEPT !.job = "invalid"]
<1>1. A \in Sessions
  BY SetFlag
<1>2. B \in Sessions
  <2>1. A.batches + 1 \in Nat
    BY <1>1 DEF Sessions
  <2> HIDE DEF A
  <2> QED BY <1>1, <2>1, SetField
<1>3. N \in Sessions
  BY <1>2, SetField
<1>4. (FALSE) \in BOOLEAN
  OBVIOUS
<1>5. C \in Sessions
  BY <1>2, <1>4, SetFlag
<1>6. D \in Sessions
  <2> HIDE DEF C
  <2> QED BY <1>5, SetField
<1>7. E \in Sessions
  <2>1. [gated |-> {}, non_gated |-> {}] \in Hits
    BY DEF Hits
  <2> HIDE DEF D
  <2> QED BY <1>6, <2>1, SetField
<1>8. F \in Sessions
  <2> HIDE DEF E
  <2> QED BY <1>7, SetField
<1>9. AfterGet(S, FALSE, {}, {}) = IF S.finished THEN report_ready(N) ELSE F
  BY DEF AfterGet
<1>10. /\ N.job = "none" /\ N.hits = S.hits /\ ~N.running /\ N.closed = S.closed
       /\ N.report = S.report /\ N.reported = S.reported /\ N.finished = S.finished
       /\ N.shut = S.shut /\ N.closing = S.closing
  BY DEF Sessions
<1>11. /\ F.job = "invalid" /\ ~F.running
       /\ F.hits = [gated |-> {}, non_gated |-> {}] /\ F.closed = S.closed
       /\ F.report = S.report /\ F.finished = S.finished
       /\ F.shut = S.shut /\ F.closing = S.closing
  BY DEF Sessions
<1> HIDE DEF A, B, C, D, E, F, N
<1>12. S.report = "none"
  BY DEF ReportInv
<1>13. CASE S.finished
  <2>1. AfterGet(S, FALSE, {}, {}) = report_ready(N)
    BY <1>9, <1>13
  <2>2. N.closing # "no" \/ N.closed => N.finished
    BY <1>10, <1>13
  <2>3. N.shut = "returned" => N.closed
    BY <1>10 DEF ReportInv
  <2>4. ReportInv(report_ready(N))
    BY <1>3, <1>10, <1>12, <2>2, <2>3, ReadyFacts
  <2> QED BY <1>3, <1>10, <1>13, <2>1, <2>4, ReadyFacts
<1>14. CASE ~S.finished
  <2>1. ReportInv(F)
    BY <1>11, <1>12, <1>14 DEF ReportInv
  <2> QED BY <1>8, <1>9, <1>11, <1>14, <2>1
<1> QED BY <1>13, <1>14

\* A control ends the session, is noted, or starts the next batch.
LEMMA AfterControlFacts ==
  ASSUME NEW S \in Sessions, NEW c \in {"CONTINUE", "STOP"}, S.job = "none",
         ReportInv(S), NEW T, T = AfterControl(S, c)
  PROVE  /\ T \in Sessions /\ ReportInv(T)
         /\ S.finished => T.finished
         /\ T.job \in {"none", "schedule"}
         /\ c = "STOP" => T.job = "none"
<1> DEFINE N == [S EXCEPT !.batch = @ + 1, !.state = "RUNNING_BATCH", !.job = "schedule"]
           P == [S EXCEPT !.stop = TRUE]
<1>1. N \in Sessions /\ P \in Sessions
  <2>1. P \in Sessions
    BY SetFlag
  <2>2. S.batch + 1 \in Nat
    BY DEF Sessions
  <2> DEFINE B == [S EXCEPT !.batch = @ + 1]
             R == [B EXCEPT !.state = "RUNNING_BATCH"]
  <2>3. B \in Sessions
    BY <2>2, SetField
  <2>4. R \in Sessions
    <3> HIDE DEF B
    <3> QED BY <2>3, SetField
  <2>5. N = [R EXCEPT !.job = "schedule"]
    OBVIOUS
  <2>6. N \in Sessions
    <3> HIDE DEF R, N
    <3> QED BY <2>4, <2>5, SetField
  <2> QED BY <2>1, <2>6
<1>2. /\ N.job = "schedule" /\ N.running = S.running /\ N.closed = S.closed
      /\ N.report = S.report /\ N.reported = S.reported /\ N.finished = S.finished
      /\ N.shut = S.shut /\ N.closing = S.closing /\ N.batches = S.batches
  BY DEF Sessions
<1>3. /\ P.job = S.job /\ P.running = S.running /\ P.closed = S.closed
      /\ P.report = S.report /\ P.reported = S.reported /\ P.finished = S.finished
      /\ P.shut = S.shut /\ P.closing = S.closing /\ P.batches = S.batches
  BY DEF Sessions
<1>4. \/ AfterControl(S, c) = S
      \/ AfterControl(S, c) = P
      \/ AfterControl(S, c) = finish(S, TRUE)
      \/ AfterControl(S, c) = finish(S, FALSE)
      \/ c # "STOP" /\ ~S.finished /\ AfterControl(S, c) = N
  BY DEF AfterControl
<1> HIDE DEF N, P
<1>5. ReportInv(N) /\ ReportInv(P)
  BY <1>2, <1>3 DEF ReportInv
<1>6. ASSUME NEW f \in BOOLEAN, T = finish(S, f)
      PROVE  T \in Sessions /\ ReportInv(T) /\ T.finished /\ T.job = "none"
  BY <1>6, FinishFacts
<1>7. \/ T = S \/ T = P \/ T = finish(S, TRUE) \/ T = finish(S, FALSE)
      \/ (c # "STOP" /\ ~S.finished /\ T = N)
  BY <1>4
<1> QED BY <1>1, <1>2, <1>3, <1>5, <1>6, <1>7

-----------------------------------------------------------------------------
(* The operators on the result, and the frames of a stream.                *)

LEMMA FailedFacts ==
  ASSUME NEW R \in Results, NEW T, T = mark_worker_failed(R)
  PROVE  /\ T \in Results /\ T.failed
         /\ T.state = R.state /\ T.batch = R.batch /\ T.gated = R.gated
         /\ T.non_gated = R.non_gated /\ T.reason = R.reason
<1> DEFINE A == [R EXCEPT !.failed = TRUE]
           U == [A EXCEPT !.go = FALSE]
<1>1. A \in Results
  BY DEF Results
<1>2. U \in Results
  <2> HIDE DEF A
  <2> QED BY <1>1 DEF Results
<1>3. U.failed /\ U.state = R.state /\ U.batch = R.batch /\ U.gated = R.gated
      /\ U.non_gated = R.non_gated /\ U.reason = R.reason
  BY DEF Results
<1> HIDE DEF U
<1>4. T = U
  BY DEF mark_worker_failed, U
<1> QED BY <1>4, <1>2, <1>3

LEMMA EndedFacts ==
  ASSUME NEW R \in Results, NEW w \in Workers,
         NEW T, T = mark_worker_ended(R, w)
  PROVE  /\ T \in Results
         /\ T.failed <=> R.failed \/ R.state[w] = "WAITING_RESULT"
         /\ R.go => T.go \/ T.failed
         /\ T.state = [R.state EXCEPT ![w] = "ENDED"]
         /\ T.batch = R.batch /\ T.gated = R.gated
         /\ T.non_gated = R.non_gated /\ T.reason = R.reason
<1> DEFINE early == R.state[w] = "WAITING_RESULT"
           A == [R EXCEPT !.failed = @ \/ early]
           B == [A EXCEPT !.go = @ /\ ~early]
           U == [B EXCEPT !.state[w] = "ENDED"]
<1>0. (R.failed \/ early) \in BOOLEAN /\ (A.go /\ ~early) \in BOOLEAN
  OBVIOUS
<1>1. A \in Results
  <2> HIDE DEF early
  <2> QED BY <1>0 DEF Results
<1>2. B \in Results
  <2> HIDE DEF A, early
  <2> QED BY <1>0, <1>1 DEF Results
<1>3. U \in Results
  <2> HIDE DEF B
  <2> QED BY <1>2 DEF Results
<1>4. /\ U.failed = (R.failed \/ early)
      /\ U.go = (R.go /\ ~early)
      /\ U.state = [R.state EXCEPT ![w] = "ENDED"]
      /\ U.batch = R.batch /\ U.gated = R.gated
      /\ U.non_gated = R.non_gated /\ U.reason = R.reason
  BY DEF Results
<1>5. mark_worker_ended(R, w) = U
  BY DEF mark_worker_ended
<1> HIDE DEF U
<1> QED BY <1>3, <1>4, <1>5

\* What an expected frame does to the result.
LEMMA RecordFacts ==
  ASSUME NEW R \in Results, NEW w \in Workers, NEW f \in Hits,
         expired \in BOOLEAN, cancelled \in BOOLEAN,
         NEW T, T = record_batch_result(R, w, f),
         NEW complete \in BOOLEAN, complete <=> BatchUnits(R.batch[w]) \subseteq f.gated,
         NEW cont \in BOOLEAN, cont <=> Continues(R, w, complete)
  PROVE  /\ T \in Results /\ T.failed = R.failed
         /\ T.gated = [R.gated EXCEPT ![w] = @ \union f.gated]
         /\ T.non_gated = [R.non_gated EXCEPT ![w] = @ \union f.non_gated]
         /\ T.state = [R.state EXCEPT ![w] = IF cont THEN @ ELSE "WAITING_CLOSE"]
         /\ T.batch = [R.batch EXCEPT ![w] = IF cont THEN @ + 1 ELSE @]
         /\ T.go <=> GoAfter(R, complete)
         /\ T.reason = ReasonAfter(R, complete, MoreBatches(R, w))
<1> DEFINE more == MoreBatches(R, w)
           A == [R EXCEPT !.gated[w] = @ \cup f.gated]
           B == [A EXCEPT !.non_gated[w] = @ \cup f.non_gated]
           C == [B EXCEPT !.go = GoAfter(R, complete)]
           D == [C EXCEPT !.reason = ReasonAfter(R, complete, more)]
           E == [D EXCEPT !.state[w] = IF cont THEN @ ELSE "WAITING_CLOSE"]
           U == [E EXCEPT !.batch[w] = IF cont THEN @ + 1 ELSE @]
<1>1. record_batch_result(R, w, f) = U
  <2>1. complete = (BatchUnits(R.batch[w]) \subseteq f.gated)
    OBVIOUS
  <2>2. cont = Continues(R, w, BatchUnits(R.batch[w]) \subseteq f.gated)
    BY <2>1 DEF Continues, GoAfter
  <2> QED BY <2>1, <2>2 DEF record_batch_result
<1>2. GoAfter(R, complete) \in BOOLEAN
  BY DEF GoAfter
<1>3. ReasonAfter(R, complete, more) \in {"COMPLETE", "MISS", "TIMEOUT", "CANCELLED"}
  BY DEF ReasonAfter, Results
<1> HIDE DEF more
<1>4. A \in Results
  BY DEF Results, Hits
<1>5. B \in Results
  <2> HIDE DEF A
  <2> QED BY <1>4 DEF Results, Hits
<1>6. C \in Results
  <2> HIDE DEF B
  <2> QED BY <1>2, <1>5 DEF Results
<1>7. D \in Results
  <2> HIDE DEF C
  <2> QED BY <1>3, <1>6 DEF Results
<1>8. E \in Results
  <2> HIDE DEF D
  <2> QED BY <1>7 DEF Results
<1>9. U \in Results
  <2> HIDE DEF E
  <2> QED BY <1>8 DEF Results
<1>10. /\ U.failed = R.failed
       /\ U.gated = [R.gated EXCEPT ![w] = @ \union f.gated]
       /\ U.non_gated = [R.non_gated EXCEPT ![w] = @ \union f.non_gated]
       /\ U.state = [R.state EXCEPT ![w] = IF cont THEN @ ELSE "WAITING_CLOSE"]
       /\ U.batch = [R.batch EXCEPT ![w] = IF cont THEN @ + 1 ELSE @]
       /\ U.reason = ReasonAfter(R, complete, more)
  BY DEF Results
<1>11. U.go = GoAfter(R, complete)
  BY DEF Results
<1> HIDE DEF U
<1> QED BY <1>1, <1>9, <1>10, <1>11 DEF more

LEMMA OneFrame ==
  ASSUME NEW q \in Frames, q # <<>>
  PROVE  Head(q) \in Hits /\ Tail(q) = <<>>
<1>1. PICK f \in Hits : q = <<f>>
  BY DEF Frames
<1>2. Head(<<f>>) = f
  OBVIOUS
<1>3. Tail(<<f>>) = <<>>
  OBVIOUS
<1> QED BY <1>1, <1>2, <1>3

LEMMA OneControl ==
  ASSUME NEW q \in Controls, q # <<>>
  PROVE  /\ Head(q) \in {"CONTINUE", "STOP"} /\ Tail(q) = <<>>
         /\ q # <<"CONTINUE">> => Head(q) = "STOP"
<1>1. PICK c \in {"CONTINUE", "STOP"} : q = <<c>>
  BY DEF Controls
<1>2. Head(<<c>>) = c
  OBVIOUS
<1>3. Tail(<<c>>) = <<>>
  OBVIOUS
<1> QED BY <1>1, <1>2, <1>3

LEMMA PutFrame ==
  ASSUME NEW f \in Hits
  PROVE  /\ Append(<<>>, f) \in Frames /\ Append(<<>>, f) # <<>>
         /\ Head(Append(<<>>, f)) = f
BY DEF Frames

LEMMA PutControl ==
  ASSUME NEW c \in {"CONTINUE", "STOP"}
  PROVE  /\ Append(<<>>, c) \in Controls /\ Append(<<>>, c) # <<>>
         /\ Append(<<>>, "STOP") # <<"CONTINUE">>
BY DEF Controls

LEMMA BatchCount == batch_count \in Nat \ {0}
<1> DEFINE N == NumUnits
           B == BatchSize
<1>1. N \in Nat \ {0} /\ B \in Nat \ {0}
  BY UnitsAssumption
<1>2. N + B - 1 \in Nat /\ N + B - 1 >= B
  BY <1>1
<1>3. \A x \in Nat, y \in Nat \ {0} : x >= y => x \div y \in Nat \ {0}
  OBVIOUS
<1> QED BY <1>1, <1>2, <1>3 DEF batch_count

-----------------------------------------------------------------------------
(* A step of one worker leaves the others alone.                           *)

SameFor(v) ==
  /\ session'[v] = session[v] /\ client'[v] = client[v] /\ rpc'[v] = rpc[v]
  /\ up'[v] = up[v] /\ down'[v] = down[v] /\ lost'[v] = lost[v]
  /\ page'[v] = page[v] /\ opt'[v] = opt[v]
  /\ result'.state[v] = result.state[v] /\ result'.batch[v] = result.batch[v]
  /\ result'.gated[v] = result.gated[v]
  /\ result'.non_gated[v] = result.non_gated[v]
  /\ result.failed => result'.failed
  /\ result'.reason = "COMPLETE" => result.reason = "COMPLETE"
  /\ outcome'.kind = "published" => outcome.kind = "published"

LEMMA SameKeeps ==
  ASSUME NEW v \in Workers, WorkerInv(v), SameFor(v)
  PROVE  WorkerInv(v)'
<1>1. Stopped(v)' => Stopped(v)
  BY DEF SameFor, Stopped
<1>2. ReportInv(session[v])'
  BY DEF WorkerInv, SameFor, ReportInv
<1>3. FlowInv(v)'
  BY DEF WorkerInv, SameFor, FlowInv, batch_count
<1>4. QuietInv(v)'
  BY <1>1 DEF WorkerInv, SameFor, QuietInv, Quiet
<1>5. SyncInv(v)'
  BY <1>1 DEF WorkerInv, SameFor, SyncInv, Broken, Fetched, NoHits
<1>6. BatchInv(v)'
  BY <1>1 DEF WorkerInv, SameFor, BatchInv, BatchUnits, batch_count
<1>7. OptInv(v)'
  BY DEF WorkerInv, SameFor, OptInv
<1> QED BY <1>2, <1>3, <1>4, <1>5, <1>6, <1>7 DEF WorkerInv

\* What a step of worker w does to the invariant.
Step(w) ==
  /\ TypeInv' /\ StopInv' /\ WorkerInv(w)'
  /\ \A v \in Workers \ {w} : SameFor(v)
  /\ outcome' = outcome
  /\ outcome.kind = "published" => page' = page /\ opt' = opt

LEMMA StepKeeps ==
  ASSUME IInv, NEW w \in Workers, Step(w)
  PROVE  IInv'
<1>1. ASSUME NEW v \in Workers PROVE WorkerInv(v)'
  <2>1. CASE v = w
    BY <2>1 DEF Step
  <2>2. CASE v # w
    BY <2>2, SameKeeps DEF Step, IInv
  <2> QED BY <2>1, <2>2
<1>2. PublishedIsFetched'
  BY DEF Step, IInv, PublishedIsFetched
<1> QED BY <1>1, <1>2 DEF Step, IInv

-----------------------------------------------------------------------------
(* Steps of a session.                                                     *)

\* A step that only changes the session, and starts or drops no frame.
LEMMA SessionOnly ==
  ASSUME TypeInv, StopInv, NEW w \in Workers, WorkerInv(w),
         NEW T \in Sessions, session' = [session EXCEPT ![w] = T],
         ReportInv(T), session[w].finished => T.finished,
         session[w].job = "none" => T.job = "none",
         session[w].job = "write" => T.job = "write" /\ T.hits = session[w].hits,
         T.job = "write" => session[w].job = "write",
         UNCHANGED <<result, page, opt, client, rpc, up, down, lost, expired,
                     cancelled, outcome>>
  PROVE  Step(w)
<1>0. session'[w] = T
  BY DEF TypeInv
<1>1. TypeInv'
  BY DEF TypeInv
<1>2. StopInv'
  BY DEF StopInv, AllEnded
<1>3. \A v \in Workers \ {w} : SameFor(v)
  BY DEF TypeInv, SameFor
<1>4. Stopped(w)' <=> Stopped(w)
  BY DEF Stopped
<1>5. FlowInv(w)'
  BY <1>0 DEF WorkerInv, FlowInv, batch_count
<1>6. QuietInv(w)'
  BY <1>0, <1>4 DEF WorkerInv, QuietInv, Quiet
<1>7. SyncInv(w)'
  BY <1>0, <1>4 DEF WorkerInv, SyncInv, Broken, Fetched, NoHits
<1>8. BatchInv(w)' /\ OptInv(w)'
  BY <1>4 DEF WorkerInv, BatchInv, OptInv, BatchUnits, batch_count
<1>9. ReportInv(session[w])'
  BY <1>0 DEF ReportInv
<1> QED BY <1>1, <1>2, <1>3, <1>5, <1>6, <1>7, <1>8, <1>9 DEF WorkerInv, Step

LEMMA Start_Inv ==
  ASSUME TypeInv, StopInv, NEW w \in Workers, WorkerInv(w),
         Start(w) \/ ScheduleBatch(w) \/ RunBatch(w)
  PROVE  Step(w)
<1> DEFINE S == session[w]
           T == session'[w]
<1>1. S \in Sessions /\ ReportInv(S)
  BY DEF TypeInv, WorkerInv
<1>2. UNCHANGED <<result, page, opt, client, rpc, up, down, lost, expired,
                  cancelled, outcome>>
  BY DEF Start, ScheduleBatch, RunBatch, stream, env
<1>3. CASE Start(w)
  <2> DEFINE A == [S EXCEPT !.job = "none"]
             B == [S EXCEPT !.state = "RUNNING_BATCH", !.job = "schedule"]
  <2>1. A \in Sessions /\ B \in Sessions
    BY <1>1 DEF Sessions
  <2>2. A.job = "none" /\ A.finished = S.finished /\ B.finished = S.finished
        /\ B.job = "schedule"
    BY <1>1 DEF Sessions
  <2>3. S.job = "start" => ReportInv(A) /\ ReportInv(B)
    BY <1>1 DEF ReportInv, Sessions
  <2>4. S.job = "start" /\ (session' = [session EXCEPT ![w] = A]
                            \/ session' = [session EXCEPT ![w] = B])
    BY <1>3 DEF Start
  <2> HIDE DEF A, B
  <2> QED BY <1>1, <1>2, <2>1, <2>2, <2>3, <2>4, SessionOnly
<1>4. CASE ScheduleBatch(w)
  <2> DEFINE A == [S EXCEPT !.job = IF Live(S) THEN "queued" ELSE "none"]
  <2>1. A \in Sessions /\ A.job \in {"queued", "none"} /\ A.finished = S.finished
    BY <1>1 DEF Sessions
  <2>2. S.job = "schedule" => ReportInv(A)
    BY <1>1 DEF ReportInv, Sessions
  <2>3. S.job = "schedule" /\ session' = [session EXCEPT ![w] = A]
    BY <1>4 DEF ScheduleBatch
  <2> HIDE DEF A
  <2> QED BY <1>1, <1>2, <2>1, <2>2, <2>3, SessionOnly
<1>5. CASE RunBatch(w)
  <2> DEFINE A == [S EXCEPT !.job = "none"]
             C == [S EXCEPT !.running = TRUE]
             B == [C EXCEPT !.job = "get"]
  <2>1. A \in Sessions /\ C \in Sessions
    BY <1>1, SetFlag, SetField
  <2>2. B \in Sessions
    <3> HIDE DEF C
    <3> QED BY <2>1, SetField
  <2>3. A.job = "none" /\ A.finished = S.finished /\ B.finished = S.finished
        /\ B.job = "get"
    BY <1>1 DEF Sessions
  <2>4. S.job = "queued" => ReportInv(A)
    BY <1>1 DEF ReportInv, Sessions
  <2>5. S.job = "queued" /\ ~S.finished => ReportInv(B)
    BY <1>1 DEF ReportInv, Sessions
  <2>6. /\ S.job = "queued"
        /\ \/ session' = [session EXCEPT ![w] = A]
           \/ ~S.finished /\ session' = [session EXCEPT ![w] = B]
    BY <1>5 DEF RunBatch, Live
  <2> HIDE DEF A, B
  <2> QED BY <1>1, <1>2, <2>1, <2>2, <2>3, <2>4, <2>5, <2>6, SessionOnly
<1> QED BY <1>3, <1>4, <1>5

LEMMA GetInvalid_Inv ==
  ASSUME TypeInv, StopInv, NEW w \in Workers, WorkerInv(w), GetInvalid(w)
  PROVE  Step(w)
<1> DEFINE S == session[w]
           T == AfterGet(S, FALSE, {}, {})
<1>1. S \in Sessions /\ ReportInv(S) /\ S.job = "get"
  BY DEF TypeInv, WorkerInv, GetInvalid
<1>2. /\ T \in Sessions /\ ReportInv(T) /\ T.finished = S.finished
      /\ T.job \in {"none", "invalid"}
  <2> HIDE DEF S
  <2> QED BY <1>1, AfterGetInvalid
<1>3. session' = [session EXCEPT ![w] = T]
  BY DEF GetInvalid
<1>4. UNCHANGED <<result, page, opt, client, rpc, up, down, lost, expired,
                  cancelled, outcome>>
  BY DEF GetInvalid, stream
<1> HIDE DEF T
<1> QED BY <1>1, <1>2, <1>3, <1>4, SessionOnly

LEMMA FinishClose_Inv ==
  ASSUME TypeInv, StopInv, NEW w \in Workers, WorkerInv(w), FinishClose(w)
  PROVE  Step(w)
<1> DEFINE S == session[w]
           A == [S EXCEPT !.closing = "no"]
           B == [A EXCEPT !.closed = TRUE]
           C == [B EXCEPT !.end = IF @ = "open" /\ S.closing = "stream"
                                  THEN "closing" ELSE @]
           T == report_ready(C)
<1>1. S \in Sessions /\ ReportInv(S) /\ S.closing # "no"
  BY DEF TypeInv, WorkerInv, FinishClose
<1>2. C \in Sessions
  <2>1. A \in Sessions
    BY <1>1, SetField
  <2>2. B \in Sessions
    <3> HIDE DEF A
    <3> QED BY <2>1, SetFlag
  <2> HIDE DEF B
  <2> QED BY <2>2 DEF Sessions
<1>3. /\ C.closing = "no" /\ C.closed /\ C.finished = S.finished /\ C.job = S.job
      /\ C.hits = S.hits /\ C.running = S.running /\ C.report = S.report
      /\ C.reported = S.reported /\ C.batches = S.batches /\ C.shut = S.shut
  BY <1>1 DEF Sessions
<1>4. session' = [session EXCEPT ![w] = T]
  BY DEF FinishClose, Closed
<1>5. UNCHANGED <<result, page, opt, client, rpc, up, down, lost, expired,
                  cancelled, outcome>>
  BY DEF FinishClose, stream, env
<1> HIDE DEF C
<1>6. ReportInv(T)
  BY <1>1, <1>2, <1>3, ReadyFacts DEF ReportInv
<1>7. T \in Sessions /\ T.finished = S.finished /\ T.job = S.job /\ T.hits = S.hits
  BY <1>2, <1>3, ReadyFacts
<1> HIDE DEF T
<1> QED BY <1>1, <1>4, <1>5, <1>6, <1>7, SessionOnly

LEMMA SessionFailed_Inv ==
  ASSUME TypeInv, StopInv, NEW w \in Workers, WorkerInv(w), SessionFailed(w)
  PROVE  Step(w)
<1> DEFINE S == session[w]
           T == finish(S, TRUE)
<1>1. S \in Sessions /\ ReportInv(S)
  BY DEF TypeInv, WorkerInv
<1>2. T \in Sessions /\ ReportInv(T) /\ T.finished /\ T.job = S.job /\ T.hits = S.hits
  BY <1>1, FinishFacts
<1>3. session' = [session EXCEPT ![w] = T]
  BY DEF SessionFailed
<1>4. UNCHANGED <<result, page, opt, client, rpc, up, down, lost, expired,
                  cancelled, outcome>>
  BY DEF SessionFailed, stream, env
<1> HIDE DEF T
<1> QED BY <1>1, <1>2, <1>3, <1>4, SessionOnly

LEMMA SessionClosed_Inv ==
  ASSUME TypeInv, StopInv, NEW w \in Workers, WorkerInv(w), SessionClosed(w)
  PROVE  Step(w)
<1> DEFINE S == session[w]
           A == [S EXCEPT !.failed = @ \/ ~S.finished]
           B == [A EXCEPT !.finished = TRUE]
           D == [B EXCEPT !.state = "CLOSED"]
           E == [D EXCEPT !.closed = TRUE]
           C == [E EXCEPT !.end = "closed"]
           T == report_ready(C)
<1>1. S \in Sessions /\ ReportInv(S)
  BY DEF TypeInv, WorkerInv
<1>2. C \in Sessions
  <2>1. A \in Sessions
    <3>1. (S.failed \/ ~S.finished) \in BOOLEAN
      OBVIOUS
    <3> QED BY <1>1, <3>1, SetFlag
  <2>2. B \in Sessions
    <3> HIDE DEF A
    <3> QED BY <2>1, SetFlag
  <2>3. D \in Sessions
    <3> HIDE DEF B
    <3> QED BY <2>2, SetField
  <2>4. E \in Sessions
    <3> HIDE DEF D
    <3> QED BY <2>3, SetFlag
  <2> HIDE DEF E
  <2> QED BY <2>4, SetField
<1>3. /\ C.closing = S.closing /\ C.closed /\ C.finished /\ C.job = S.job
      /\ C.hits = S.hits /\ C.running = S.running /\ C.report = S.report
      /\ C.reported = S.reported /\ C.batches = S.batches /\ C.shut = S.shut
  BY <1>1 DEF Sessions
<1>4. session' = [session EXCEPT ![w] = T]
  <2>1. C = on_closed(S)
    BY DEF on_closed
  <2> HIDE DEF C
  <2> QED BY <2>1 DEF SessionClosed
<1>5. UNCHANGED <<result, page, opt, client, rpc, up, down, lost, expired,
                  cancelled, outcome>>
  BY DEF SessionClosed, stream, env
<1> HIDE DEF C
<1>6. ReportInv(T)
  BY <1>1, <1>2, <1>3, ReadyFacts DEF ReportInv
<1>7. T \in Sessions /\ T.finished /\ T.job = S.job /\ T.hits = S.hits
  BY <1>2, <1>3, ReadyFacts
<1> HIDE DEF T
<1> QED BY <1>1, <1>4, <1>5, <1>6, <1>7, SessionOnly

LEMMA Shutdown_Inv ==
  ASSUME TypeInv, StopInv, NEW w \in Workers, WorkerInv(w), Shutdown(w)
  PROVE  Step(w)
<1> DEFINE S == session[w]
           A == [S EXCEPT !.shut = "waiting"]
           B == finish(A, TRUE)
           C == [B EXCEPT !.closing = "nothing"]
<1>1. S \in Sessions /\ ReportInv(S)
  BY DEF TypeInv, WorkerInv
<1>2. A \in Sessions /\ A.job = S.job /\ A.hits = S.hits
  BY <1>1 DEF Sessions
<1>3. ReportInv(A)
  BY <1>1 DEF ReportInv, Sessions
<1>4. session' = [session EXCEPT ![w] = B] \/ session' = [session EXCEPT ![w] = C]
  BY DEF Shutdown
<1> HIDE DEF A
<1>5. B \in Sessions /\ ReportInv(B) /\ B.finished /\ B.job = S.job /\ B.hits = S.hits
  BY <1>2, <1>3, FinishFacts
<1> HIDE DEF B
<1>6. C \in Sessions /\ C.finished /\ C.job = S.job /\ C.hits = S.hits
  BY <1>5 DEF Sessions
<1>7. ReportInv(C)
  BY <1>5 DEF ReportInv, Sessions
<1>8. UNCHANGED <<result, page, opt, client, rpc, up, down, lost, expired,
                  cancelled, outcome>>
  BY DEF Shutdown, stream
<1> HIDE DEF C
<1> QED BY <1>1, <1>4, <1>5, <1>6, <1>7, <1>8, SessionOnly

LEMMA ShutdownReturns_Inv ==
  ASSUME TypeInv, StopInv, NEW w \in Workers, WorkerInv(w),
         ShutdownReturns(w) \/ ReportStats(w)
  PROVE  Step(w)
<1> DEFINE S == session[w]
           A == [S EXCEPT !.shut = "returned"]
           B == [S EXCEPT !.report = "done", !.reported = S.batches]
<1>1. S \in Sessions /\ ReportInv(S)
  BY DEF TypeInv, WorkerInv
<1>2. A \in Sessions /\ A.job = S.job /\ A.hits = S.hits /\ A.finished = S.finished
  BY <1>1 DEF Sessions
<1>3. B \in Sessions /\ B.job = S.job /\ B.hits = S.hits /\ B.finished = S.finished
  BY <1>1 DEF Sessions
<1>4. S.closed => ReportInv(A)
  BY <1>1 DEF ReportInv, Sessions
<1>5. S.report = "scheduled" => ReportInv(B)
  BY <1>1 DEF ReportInv, Sessions
<1>6. \/ S.closed /\ session' = [session EXCEPT ![w] = A]
      \/ S.report = "scheduled" /\ session' = [session EXCEPT ![w] = B]
  BY DEF ShutdownReturns, ReportStats
<1>7. UNCHANGED <<result, page, opt, client, rpc, up, down, lost, expired,
                  cancelled, outcome>>
  BY DEF ShutdownReturns, ReportStats, stream, env
<1> HIDE DEF A, B
<1> QED BY <1>1, <1>2, <1>3, <1>4, <1>5, <1>6, <1>7, SessionOnly

\* What a Get has read is in the result to write.
LEMMA GetReturns_Inv ==
  ASSUME TypeInv, StopInv, NEW w \in Workers, WorkerInv(w), GetReturns(w)
  PROVE  Step(w)
<1> DEFINE S == session[w]
<1>1. S \in Sessions /\ ReportInv(S) /\ S.job = "get"
  BY DEF TypeInv, WorkerInv, GetReturns
<1>2. PICK G \in SUBSET BatchUnits(S.batch), X \in SUBSET BatchUnits(S.batch) :
        /\ ~HasOptional => X = BatchUnits(S.batch)
        /\ page' = [page EXCEPT ![w] = @ \cup G]
        /\ opt' = [opt EXCEPT ![w] = @ \cup X]
        /\ session' = [session EXCEPT ![w] = AfterGet(@, TRUE, G, X)]
  BY DEF GetReturns
<1>3. G \in SUBSET Units /\ X \in SUBSET Units
  BY DEF BatchUnits
<1> DEFINE T == AfterGet(S, TRUE, G, X)
<1>4. /\ T \in Sessions /\ ReportInv(T) /\ T.finished = S.finished
      /\ S.finished => T.job = "none"
      /\ ~S.finished => /\ T.job = "write"
                        /\ T.hits = [gated |-> G, non_gated |-> X]
  <2> HIDE DEF S
  <2> QED BY <1>1, <1>3, AfterGetOk
<1>5. session' = [session EXCEPT ![w] = T]
  BY <1>2
<1> HIDE DEF T
<1>6. UNCHANGED <<result, client, rpc, up, down, lost, expired, cancelled, outcome>>
  BY DEF GetReturns, stream, env
<1>7. session'[w] = T /\ page'[w] = page[w] \union G /\ opt'[w] = opt[w] \union X
  BY <1>2, <1>5 DEF TypeInv
<1>8. TypeInv'
  <2>1. page' \in [Workers -> SUBSET Units] /\ opt' \in [Workers -> SUBSET Units]
    BY <1>2, <1>3 DEF TypeInv
  <2>2. session' \in [Workers -> Sessions]
    BY <1>4, <1>5 DEF TypeInv
  <2> QED BY <2>1, <2>2, <1>6 DEF TypeInv
<1>9. StopInv'
  BY <1>6 DEF StopInv, AllEnded
<1>10. \A v \in Workers \ {w} : SameFor(v)
  BY <1>2, <1>5, <1>6 DEF TypeInv, SameFor
<1>11. ~Stopped(w) /\ outcome.kind # "published" /\ up[w] = <<>> /\ down[w] = <<>>
  BY <1>1 DEF WorkerInv, FlowInv, QuietInv, Quiet
<1>12. ~Stopped(w)'
  BY <1>6, <1>11 DEF Stopped
<1>13. FlowInv(w)' /\ QuietInv(w)'
  BY <1>1, <1>6, <1>11, <1>12 DEF WorkerInv, FlowInv, QuietInv, batch_count
<1>14. SyncInv(w)'
  <2>1. CASE S.finished
    BY <2>1, <1>4, <1>6, <1>7, <1>11, <1>12 DEF SyncInv, Broken
  <2>2. CASE ~S.finished
    <3>1. CASE Broken(w)
      BY <3>1, <2>2, <1>6, <1>7, <1>11, <1>12 DEF SyncInv, Broken
    <3>2. CASE ~Broken(w)
      <4>1. page[w] = result.gated[w] /\ opt[w] = result.non_gated[w]
        BY <3>2, <1>1, <1>11 DEF WorkerInv, SyncInv, Fetched, NoHits
      <4>2. Fetched(w, session[w].hits)'
        BY <4>1, <2>2, <1>4, <1>6, <1>7 DEF Fetched
      <4> QED BY <4>2, <2>2, <1>4, <1>7 DEF SyncInv
    <3> QED BY <3>1, <3>2
  <2> QED BY <2>1, <2>2
<1>15. BatchInv(w)'
  BY <1>6, <1>12 DEF WorkerInv, BatchInv, BatchUnits
<1>16. OptInv(w)'
  BY <1>2, <1>7 DEF WorkerInv, OptInv
<1>17. ReportInv(session[w])'
  BY <1>4, <1>7 DEF ReportInv
<1> QED BY <1>6, <1>8, <1>9, <1>10, <1>11, <1>13, <1>14, <1>15, <1>16, <1>17
        DEF Step, WorkerInv

\* The result of a batch is sent, or the session gives up and no more comes.
LEMMA WriteResult_Inv ==
  ASSUME TypeInv, StopInv, NEW w \in Workers, WorkerInv(w), WriteResult(w)
  PROVE  Step(w)
<1> DEFINE S == [session[w] EXCEPT !.job = "none"]
           T == session'[w]
           sent == session[w].job = "write" /\ S.end = "open" /\ ~lost[w]
<1>1. session[w] \in Sessions /\ ReportInv(session[w])
  BY DEF TypeInv, WorkerInv
<1>2. S \in Sessions /\ S.job = "none" /\ S.hits = session[w].hits
  BY <1>1 DEF Sessions
<1>3. session[w].job \in {"write", "invalid"}
  BY DEF WriteResult
<1>4. ReportInv(S)
  BY <1>1, <1>3 DEF ReportInv, Sessions
<1>5. \/ /\ sent
         /\ \/ session' = [session EXCEPT ![w] = finish(S, FALSE)]
            \/ session' = [session EXCEPT ![w] = S]
      \/ ~sent /\ session' = [session EXCEPT ![w] = finish(S, TRUE)]
  BY DEF WriteResult
<1>6. up' = IF sent THEN [up EXCEPT ![w] = Append(@, S.hits)] ELSE up
  BY DEF WriteResult
<1>7. UNCHANGED <<result, client, rpc, down, lost, page, opt, expired, cancelled,
                  outcome>>
  BY DEF WriteResult, env
<1>8. sent => session[w].job = "write" /\ ~lost[w]
  OBVIOUS
<1> HIDE DEF S, sent
<1>9. /\ session' \in [Workers -> Sessions] /\ session'[w] \in Sessions
      /\ ReportInv(session'[w]) /\ session'[w].job = "none"
      /\ ~sent => session'[w].finished
      /\ \A v \in Workers \ {w} : session'[v] = session[v]
  <2>1. ASSUME NEW f \in BOOLEAN
        PROVE  /\ finish(S, f) \in Sessions /\ ReportInv(finish(S, f))
               /\ finish(S, f).job = "none" /\ finish(S, f).finished
    BY <1>2, <1>4, FinishFacts
  <2>2. PICK U \in Sessions : /\ session' = [session EXCEPT ![w] = U]
                              /\ ReportInv(U) /\ U.job = "none"
                              /\ ~sent => U.finished
    <3>1. CASE session' = [session EXCEPT ![w] = S] /\ sent
      BY <3>1, <1>2, <1>4
    <3>2. CASE session' = [session EXCEPT ![w] = finish(S, TRUE)]
      BY <3>2, <2>1
    <3>3. CASE session' = [session EXCEPT ![w] = finish(S, FALSE)]
      BY <3>3, <2>1
    <3> QED BY <1>5, <3>1, <3>2, <3>3
  <2> QED BY <2>2 DEF TypeInv
<1>10. /\ up[w] = <<>> /\ down[w] = <<>> /\ rpc[w] = "served"
       /\ ~Stopped(w) /\ outcome.kind # "published"
  BY <1>3 DEF WorkerInv, FlowInv, QuietInv, Quiet
<1>11. /\ up' \in [Workers -> Frames]
       /\ \A v \in Workers \ {w} : up'[v] = up[v]
       /\ sent => up'[w] # <<>> /\ Head(up'[w]) = session[w].hits
       /\ ~sent => up'[w] = <<>>
  <2>1. S.hits \in Hits
    BY <1>2 DEF Sessions
  <2>2. CASE sent
    <3> DEFINE q == Append(<<>>, S.hits)
    <3>1. q \in Frames /\ q # <<>> /\ Head(q) = S.hits
      BY <2>1, PutFrame
    <3>2. up' = [up EXCEPT ![w] = q]
      BY <2>2, <1>6, <1>10
    <3> HIDE DEF q
    <3> QED BY <3>1, <3>2, <2>2, <1>2 DEF TypeInv
  <2>3. CASE ~sent
    BY <2>3, <1>6, <1>10 DEF TypeInv
  <2> QED BY <2>2, <2>3
<1>12. TypeInv'
  BY <1>7, <1>9, <1>11 DEF TypeInv
<1>13. StopInv'
  BY <1>7 DEF StopInv, AllEnded
<1>14. \A v \in Workers \ {w} : SameFor(v)
  BY <1>7, <1>9, <1>11 DEF SameFor
<1>15. ~Stopped(w)'
  BY <1>7, <1>10 DEF Stopped
<1>16. FlowInv(w)' /\ QuietInv(w)'
  BY <1>7, <1>9, <1>10, <1>15 DEF WorkerInv, FlowInv, QuietInv, batch_count
<1>17. SyncInv(w)'
  <2>1. CASE ~sent
    BY <2>1, <1>9, <1>11, <1>15 DEF SyncInv, Broken
  <2>2. CASE sent
    <3>1. Fetched(w, session[w].hits)
      BY <2>2, <1>8, <1>10 DEF WorkerInv, SyncInv, Broken
    <3>2. Fetched(w, Head(up[w]))'
      BY <3>1, <2>2, <1>7, <1>11 DEF Fetched
    <3> QED BY <2>2, <3>2, <1>11 DEF SyncInv
  <2> QED BY <2>1, <2>2
<1>18. BatchInv(w)' /\ OptInv(w)'
  BY <1>7, <1>15 DEF WorkerInv, BatchInv, OptInv, BatchUnits
<1>19. ReportInv(session[w])'
  BY <1>9 DEF ReportInv
<1> QED BY <1>7, <1>12, <1>13, <1>14, <1>16, <1>17, <1>18, <1>19 DEF Step, WorkerInv

LEMMA ReceiveControl_Inv ==
  ASSUME TypeInv, StopInv, NEW w \in Workers, WorkerInv(w), ReceiveControl(w)
  PROVE  Step(w)
<1> DEFINE S == session[w]
           c == Head(down[w])
           T == AfterControl(S, c)
<1>1. S \in Sessions /\ ReportInv(S) /\ down[w] # <<>>
  BY DEF TypeInv, WorkerInv, ReceiveControl
<1>2. S.job = "none" /\ rpc[w] = "served" /\ up[w] = <<>>
  BY <1>1 DEF WorkerInv, FlowInv
<1>3. /\ c \in {"CONTINUE", "STOP"} /\ Tail(down[w]) = <<>>
      /\ down[w] # <<"CONTINUE">> => c = "STOP"
  BY <1>1, OneControl DEF TypeInv
<1>4. session' = [session EXCEPT ![w] = T] /\ down' = [down EXCEPT ![w] = <<>>]
  BY <1>3 DEF ReceiveControl
<1>5. UNCHANGED <<result, client, rpc, up, lost, page, opt, expired, cancelled,
                  outcome>>
  BY DEF ReceiveControl, env
<1>6. /\ T \in Sessions /\ ReportInv(T) /\ (S.finished => T.finished)
      /\ T.job \in {"none", "schedule"} /\ (c = "STOP" => T.job = "none")
  <2> HIDE DEF S, c
  <2> QED BY <1>1, <1>2, <1>3, AfterControlFacts
<1> HIDE DEF T, c
<1>7. session'[w] = T /\ down'[w] = <<>>
  BY <1>4 DEF TypeInv
<1>8. TypeInv'
  <2>1. down' \in [Workers -> Controls]
    BY <1>4 DEF TypeInv, Controls
  <2> QED BY <2>1, <1>4, <1>5, <1>6 DEF TypeInv
<1>9. StopInv'
  BY <1>5 DEF StopInv, AllEnded
<1>10. \A v \in Workers \ {w} : SameFor(v)
  BY <1>4, <1>5 DEF TypeInv, SameFor
<1>11. Stopped(w)' <=> Stopped(w)
  BY <1>5 DEF Stopped
<1>12. FlowInv(w)'
  BY <1>2, <1>5, <1>7 DEF WorkerInv, FlowInv, batch_count
<1>13. QuietInv(w)'
  BY <1>2, <1>3, <1>5, <1>6, <1>7, <1>11 DEF WorkerInv, QuietInv, Quiet
<1>14. SyncInv(w)'
  BY <1>2, <1>5, <1>6, <1>7, <1>11 DEF WorkerInv, SyncInv, Broken, Fetched, NoHits
<1>15. BatchInv(w)' /\ OptInv(w)'
  BY <1>5, <1>11 DEF WorkerInv, BatchInv, OptInv, BatchUnits, batch_count
<1>16. ReportInv(session[w])'
  BY <1>6, <1>7 DEF ReportInv
<1> QED BY <1>5, <1>8, <1>9, <1>10, <1>12, <1>13, <1>14, <1>15, <1>16
        DEF Step, WorkerInv

\* The worker accepts the stream, or refuses it.
LEMMA Serve_Inv ==
  ASSUME TypeInv, StopInv, NEW w \in Workers, WorkerInv(w), Serve(w) \/ Refuse(w)
  PROVE  Step(w)
<1> DEFINE S == session[w]
           T == [S EXCEPT !.end = "open", !.job = "start"]
<1>1. S \in Sessions /\ ReportInv(S) /\ rpc[w] = "sent"
  BY DEF TypeInv, WorkerInv, Serve, Refuse
<1>2. /\ S.job = "none" /\ up[w] = <<>> /\ down[w] = <<>> /\ ~Stopped(w)
      /\ outcome.kind # "published"
  BY <1>1 DEF WorkerInv, FlowInv, QuietInv, Quiet
<1>3. T \in Sessions /\ T.job = "start" /\ T.finished = S.finished
  BY <1>1 DEF Sessions
<1>4. ReportInv(T)
  BY <1>1, <1>2 DEF ReportInv, Sessions
<1>5. UNCHANGED <<result, client, up, down, lost, page, opt, expired, cancelled,
                  outcome>>
  BY DEF Serve, Refuse, env
<1>6. \/ /\ session' = [session EXCEPT ![w] = T]
         /\ rpc' = [rpc EXCEPT ![w] = "served"]
      \/ session' = session /\ rpc' = [rpc EXCEPT ![w] = "refused"]
  BY DEF Serve, Refuse
<1> HIDE DEF T
<1>7. /\ session' \in [Workers -> Sessions] /\ ReportInv(session'[w])
      /\ rpc' \in [Workers -> {"none", "sent", "served", "refused"}]
      /\ \A v \in Workers \ {w} : session'[v] = session[v] /\ rpc'[v] = rpc[v]
      /\ session'[w].finished = S.finished
      /\ session'[w].job \in {"none", "start"}
      /\ rpc'[w] = "served" \/ session'[w].job = "none"
  BY <1>1, <1>2, <1>3, <1>4, <1>6 DEF TypeInv
<1>8. TypeInv'
  BY <1>5, <1>7 DEF TypeInv
<1>9. StopInv'
  BY <1>5 DEF StopInv, AllEnded
<1>10. \A v \in Workers \ {w} : SameFor(v)
  BY <1>5, <1>7 DEF SameFor
<1>11. ~Stopped(w)'
  BY <1>2, <1>5 DEF Stopped
<1>12. FlowInv(w)' /\ QuietInv(w)'
  BY <1>1, <1>2, <1>5, <1>7, <1>11 DEF WorkerInv, FlowInv, QuietInv, batch_count
<1>13. SyncInv(w)'
  BY <1>2, <1>5, <1>7, <1>11 DEF WorkerInv, SyncInv, Broken, Fetched, NoHits
<1>14. BatchInv(w)' /\ OptInv(w)'
  BY <1>5, <1>11 DEF WorkerInv, BatchInv, OptInv, BatchUnits
<1>15. ReportInv(session[w])'
  BY <1>7 DEF ReportInv
<1> QED BY <1>5, <1>8, <1>9, <1>10, <1>12, <1>13, <1>14, <1>15 DEF Step, WorkerInv

\* Frames under way are lost with the connection.
LEMMA Lost_Inv ==
  ASSUME TypeInv, StopInv, NEW w \in Workers, WorkerInv(w),
         ConnectionLost(w) \/ ServerStops(w)
  PROVE  Step(w)
<1>1. /\ lost' = [lost EXCEPT ![w] = TRUE]
      /\ up' = [up EXCEPT ![w] = <<>>] /\ down' = [down EXCEPT ![w] = <<>>]
  BY DEF ConnectionLost, ServerStops
<1>2. UNCHANGED <<result, client, rpc, session, page, opt, expired, cancelled,
                  outcome>>
  BY DEF ConnectionLost, ServerStops, env
<1>3. lost'[w] /\ up'[w] = <<>> /\ down'[w] = <<>>
  BY <1>1 DEF TypeInv
<1>4. TypeInv'
  <2>1. down' \in [Workers -> Controls] /\ up' \in [Workers -> Frames]
    BY <1>1 DEF TypeInv, Controls, Frames
  <2>2. lost' \in [Workers -> BOOLEAN]
    BY <1>1 DEF TypeInv
  <2> QED BY <2>1, <2>2, <1>2 DEF TypeInv
<1>5. StopInv'
  BY <1>2 DEF StopInv, AllEnded
<1>6. \A v \in Workers \ {w} : SameFor(v)
  BY <1>1, <1>2 DEF TypeInv, SameFor
<1>7. Stopped(w)' <=> Stopped(w)
  BY <1>2 DEF Stopped
<1>8. FlowInv(w)'
  BY <1>2, <1>3 DEF WorkerInv, FlowInv, batch_count
<1>9. QuietInv(w)'
  BY <1>2, <1>3, <1>7 DEF WorkerInv, QuietInv, Quiet
<1>10. SyncInv(w)'
  <2>1. CASE ~Stopped(w)
    BY <2>1, <1>3, <1>7 DEF SyncInv, Broken
  <2>2. CASE Stopped(w)
    BY <2>2, <1>2, <1>3, <1>7 DEF WorkerInv, QuietInv, Quiet, SyncInv, Broken, Fetched,
                                  NoHits
  <2> QED BY <2>1, <2>2
<1>11. BatchInv(w)' /\ OptInv(w)'
  BY <1>2, <1>7 DEF WorkerInv, BatchInv, OptInv, BatchUnits, batch_count
<1>12. ReportInv(session[w])'
  BY <1>2 DEF WorkerInv, ReportInv
<1> QED BY <1>2, <1>4, <1>5, <1>6, <1>8, <1>9, <1>10, <1>11, <1>12 DEF Step, WorkerInv

-----------------------------------------------------------------------------
(* Steps of the receiver.                                                  *)

\* A step that changes the state of a worker's stream and may fail the result,
\* but records nothing.
LEMMA ClientOnly ==
  ASSUME TypeInv, StopInv, NEW w \in Workers, WorkerInv(w),
         NEW R \in Results, result' = R,
         R.batch = result.batch, R.gated = result.gated,
         R.non_gated = result.non_gated, R.reason = result.reason,
         result.failed => R.failed, result.go => R.go \/ R.failed,
         \A v \in Workers \ {w} : R.state[v] = result.state[v],
         \/ R.state[w] = result.state[w]
         \/ /\ R.state[w] = "ENDED"
            /\ result.state[w] = "WAITING_RESULT" => R.failed,
         client' \in [Workers -> {"none", "open", "closing", "closed"}],
         \A v \in Workers \ {w} : client'[v] = client[v],
         R.state[w] = "ENDED" <=> client'[w] = "closed",
         rpc' \in [Workers -> {"none", "sent", "served", "refused"}],
         \A v \in Workers \ {w} : rpc'[v] = rpc[v],
         rpc'[w] = rpc[w] \/ (rpc[w] # "served" /\ rpc'[w] # "served"),
         client'[w] = "none" => rpc'[w] = "none",
         UNCHANGED <<session, up, down, lost, page, opt, expired, cancelled, outcome>>
  PROVE  Step(w)
<1>1. TypeInv'
  BY DEF TypeInv
<1>2. StopInv'
  <2>1. AllEnded(result) => AllEnded(R)
    BY DEF AllEnded
  <2>2. ~R.go => R.failed \/ R.reason # "COMPLETE" \/ expired \/ cancelled
    BY DEF StopInv
  <2> QED BY <2>1, <2>2 DEF StopInv, AllEnded
<1>3. \A v \in Workers \ {w} : SameFor(v)
  BY DEF SameFor
<1>4. Stopped(w)' => Stopped(w)
  BY DEF Stopped, TypeInv, Results
<1>5. FlowInv(w)'
  BY DEF WorkerInv, FlowInv, batch_count
<1>6. QuietInv(w)'
  BY <1>4 DEF WorkerInv, QuietInv, Quiet
<1>7. SyncInv(w)'
  BY <1>4 DEF WorkerInv, SyncInv, Broken, Fetched, NoHits
<1>8. BatchInv(w)' /\ OptInv(w)'
  BY <1>4 DEF WorkerInv, BatchInv, OptInv, BatchUnits, batch_count
<1>9. ReportInv(session[w])'
  BY DEF WorkerInv, ReportInv
<1> QED BY <1>1, <1>2, <1>3, <1>5, <1>6, <1>7, <1>8, <1>9 DEF WorkerInv, Step

LEMMA Connect_Inv ==
  ASSUME TypeInv, StopInv, NEW w \in Workers, WorkerInv(w),
         Connect(w) \/ RpcReturns(w)
  PROVE  Step(w)
<1>1. result \in Results /\ result' = result
  BY DEF TypeInv, Connect, RpcReturns
<1>2. UNCHANGED <<session, up, down, lost, page, opt, expired, cancelled, outcome>>
  BY DEF Connect, RpcReturns, env
<1>3. /\ result.state[w] = "ENDED" <=> client[w] = "closed"
      /\ client[w] = "none" => rpc[w] = "none"
  BY DEF WorkerInv, FlowInv
<1>4. CASE RpcReturns(w)
  BY <1>1, <1>2, <1>3, <1>4, ClientOnly DEF RpcReturns, TypeInv
<1>5. CASE Connect(w)
  <2>1. /\ client[w] = "none" /\ client' = [client EXCEPT ![w] = "open"]
        /\ rpc' = [rpc EXCEPT ![w] = "sent"]
    BY <1>5 DEF Connect
  <2> QED BY <1>1, <1>2, <1>3, <2>1, ClientOnly DEF TypeInv
<1> QED BY <1>4, <1>5

\* The stream is given up: a failed call, no frame for too long, a lost
\* connection.
LEMMA FailAndClose_Inv ==
  ASSUME TypeInv, StopInv, NEW w \in Workers, WorkerInv(w),
         RpcFails(w) \/ IdleTimeout(w) \/ ClientFailed(w)
  PROVE  Step(w)
<1> DEFINE R == mark_worker_failed(result)
<1>1. /\ R \in Results /\ R.failed
      /\ R.state = result.state /\ R.batch = result.batch /\ R.gated = result.gated
      /\ R.non_gated = result.non_gated /\ R.reason = result.reason
  BY FailedFacts DEF TypeInv
<1>2. /\ result' = R
      /\ client' = [client EXCEPT ![w] = IF @ = "open" THEN "closing" ELSE @]
  BY DEF RpcFails, IdleTimeout, ClientFailed, FailAndClose
<1>3. UNCHANGED <<rpc, session, up, down, lost, page, opt, expired, cancelled, outcome>>
  BY DEF RpcFails, IdleTimeout, ClientFailed, env
<1>4. /\ result.state[w] = "ENDED" <=> client[w] = "closed"
      /\ client[w] = "none" => rpc[w] = "none"
  BY DEF WorkerInv, FlowInv
<1> HIDE DEF R
<1> QED BY <1>1, <1>2, <1>3, <1>4, ClientOnly DEF TypeInv

LEMMA ConnectFails_Inv ==
  ASSUME TypeInv, StopInv, NEW w \in Workers, WorkerInv(w), ConnectFails(w)
  PROVE  Step(w)
<1> DEFINE F == mark_worker_failed(result)
           R == mark_worker_ended(F, w)
<1>1. /\ F \in Results /\ F.failed
      /\ F.state = result.state /\ F.batch = result.batch /\ F.gated = result.gated
      /\ F.non_gated = result.non_gated /\ F.reason = result.reason
  BY FailedFacts DEF TypeInv
<1> HIDE DEF F
<1>2. /\ R \in Results /\ R.failed
      /\ R.state = [result.state EXCEPT ![w] = "ENDED"]
      /\ R.batch = result.batch /\ R.gated = result.gated
      /\ R.non_gated = result.non_gated /\ R.reason = result.reason
  BY <1>1, EndedFacts
<1>3. /\ result' = R /\ client' = [client EXCEPT ![w] = "closed"]
  BY DEF ConnectFails, F
<1>4. UNCHANGED <<rpc, session, up, down, lost, page, opt, expired, cancelled, outcome>>
  BY DEF ConnectFails
<1> HIDE DEF R
<1>5. R.state[w] = "ENDED" /\ \A v \in Workers \ {w} : R.state[v] = result.state[v]
  BY <1>2 DEF TypeInv, Results
<1> QED BY <1>2, <1>3, <1>4, <1>5, ClientOnly DEF TypeInv

LEMMA ClientClosed_Inv ==
  ASSUME TypeInv, StopInv, NEW w \in Workers, WorkerInv(w), ClientClosed(w)
  PROVE  Step(w)
<1> DEFINE R == mark_worker_ended(result, w)
<1>1. /\ R \in Results
      /\ R.failed <=> result.failed \/ result.state[w] = "WAITING_RESULT"
      /\ result.go => R.go \/ R.failed
      /\ R.state = [result.state EXCEPT ![w] = "ENDED"]
      /\ R.batch = result.batch /\ R.gated = result.gated
      /\ R.non_gated = result.non_gated /\ R.reason = result.reason
  <2>1. result \in Results
    BY DEF TypeInv
  <2> QED BY <2>1, EndedFacts
<1>2. /\ result' = R /\ client' = [client EXCEPT ![w] = "closed"]
  BY DEF ClientClosed
<1>3. UNCHANGED <<rpc, session, up, down, lost, page, opt, expired, cancelled, outcome>>
  BY DEF ClientClosed, env
<1> HIDE DEF R
<1>4. R.state[w] = "ENDED" /\ \A v \in Workers \ {w} : R.state[v] = result.state[v]
  BY <1>1 DEF TypeInv, Results
<1> QED BY <1>1, <1>2, <1>3, <1>4, ClientOnly DEF TypeInv

\* A frame is recorded: the record catches up with the pages, and a worker that
\* is told to stop without a reason was at its last batch.
LEMMA Recorded ==
  ASSUME TypeInv, StopInv, NEW w \in Workers, WorkerInv(w),
         client[w] = "open", up[w] # <<>>,
         NEW R, R = record_batch_result(result, w, Head(up[w]))
  PROVE  /\ Expected(result, w)
         /\ R \in Results /\ R.failed = result.failed
         /\ \A v \in Workers \ {w} :
              /\ R.state[v] = result.state[v] /\ R.batch[v] = result.batch[v]
              /\ R.gated[v] = result.gated[v] /\ R.non_gated[v] = result.non_gated[v]
         /\ R.reason = "COMPLETE" => result.reason = "COMPLETE"
         /\ ~R.go => \/ R.failed \/ R.reason # "COMPLETE" \/ expired \/ cancelled
         /\ R.state[w] \in {"WAITING_RESULT", "WAITING_CLOSE"}
         /\ R.batch[w] < batch_count
         /\ R.gated[w] = page[w] /\ R.non_gated[w] = opt[w]
         /\ \A i \in 0 .. R.batch[w] - 1 : BatchUnits(i) \subseteq R.gated[w]
         /\ R.state[w] = "WAITING_CLOSE" /\ ~R.failed /\ R.reason = "COMPLETE" =>
              /\ R.batch[w] + 1 = batch_count
              /\ BatchUnits(R.batch[w]) \subseteq R.gated[w]
<1> DEFINE f == Head(up[w])
           complete == BatchUnits(result.batch[w]) \subseteq f.gated
           cont == Continues(result, w, complete)
<1>1. ~Stopped(w) /\ session[w].job = "none"
  BY DEF WorkerInv, FlowInv, QuietInv, Quiet
<1>2. result.state[w] = "WAITING_RESULT"
  BY <1>1 DEF WorkerInv, FlowInv, Stopped, TypeInv, Results
<1>3. result.batch[w] \in Nat /\ result.batch[w] < batch_count /\ batch_count \in Nat
  BY BatchCount DEF WorkerInv, FlowInv, TypeInv, Results
<1>4. f \in Hits
  BY OneFrame DEF TypeInv
<1>5. page[w] = result.gated[w] \union f.gated /\ opt[w] = result.non_gated[w] \union f.non_gated
  BY <1>1 DEF WorkerInv, SyncInv, Broken, Fetched
<1>6. complete \in BOOLEAN /\ cont \in BOOLEAN
  BY DEF Continues, GoAfter
<1>7. cont => complete /\ result.batch[w] + 1 < batch_count
  BY DEF Continues, MoreBatches
<1>8. GoAfter(result, complete) <=> result.go /\ complete /\ ~expired /\ ~cancelled
  BY DEF GoAfter
<1>9. /\ R \in Results /\ R.failed = result.failed
      /\ R.gated = [result.gated EXCEPT ![w] = @ \union f.gated]
      /\ R.non_gated = [result.non_gated EXCEPT ![w] = @ \union f.non_gated]
      /\ R.state = [result.state EXCEPT ![w] = IF cont THEN @ ELSE "WAITING_CLOSE"]
      /\ R.batch = [result.batch EXCEPT ![w] = IF cont THEN @ + 1 ELSE @]
      /\ R.go <=> GoAfter(result, complete)
      /\ R.reason = ReasonAfter(result, complete, MoreBatches(result, w))
  <2>1. result \in Results /\ expired \in BOOLEAN /\ cancelled \in BOOLEAN
    BY DEF TypeInv
  <2>2. /\ complete <=> BatchUnits(result.batch[w]) \subseteq f.gated
        /\ cont <=> Continues(result, w, complete)
        /\ R = record_batch_result(result, w, f)
    OBVIOUS
  <2> HIDE DEF f, complete, cont
  <2> QED BY <1>4, <1>6, <2>1, <2>2, RecordFacts
<1>10. /\ R.reason = "COMPLETE" => /\ result.reason = "COMPLETE" /\ complete
                                   /\ MoreBatches(result, w) => ~expired /\ ~cancelled
  BY <1>9 DEF ReasonAfter
<1>11. cont <=> MoreBatches(result, w) /\ GoAfter(result, complete)
  BY <1>8 DEF Continues
<1>12. MoreBatches(result, w) <=> result.batch[w] + 1 < batch_count
  BY DEF MoreBatches
<1> HIDE DEF complete, cont
<1>13. /\ \A v \in Workers \ {w} :
              /\ R.state[v] = result.state[v] /\ R.batch[v] = result.batch[v]
              /\ R.gated[v] = result.gated[v] /\ R.non_gated[v] = result.non_gated[v]
       /\ R.state[w] = IF cont THEN "WAITING_RESULT" ELSE "WAITING_CLOSE"
       /\ R.batch[w] = IF cont THEN result.batch[w] + 1 ELSE result.batch[w]
       /\ R.gated[w] = page[w] /\ R.non_gated[w] = opt[w]
  BY <1>2, <1>5, <1>9 DEF TypeInv, Results
<1>14. complete => BatchUnits(result.batch[w]) \subseteq R.gated[w]
  BY <1>5, <1>13 DEF complete
<1>15. ~R.go => \/ R.failed \/ R.reason # "COMPLETE" \/ expired \/ cancelled
  BY <1>8, <1>9, <1>10 DEF StopInv
<1>16. \A i \in 0 .. R.batch[w] - 1 : BatchUnits(i) \subseteq R.gated[w]
  <2>1. \A i \in 0 .. result.batch[w] - 1 : BatchUnits(i) \subseteq R.gated[w]
    BY <1>5, <1>13 DEF WorkerInv, BatchInv
  <2>2. \A i \in 0 .. R.batch[w] - 1 : i \in 0 .. result.batch[w] - 1
                                       \/ (cont /\ i = result.batch[w])
    BY <1>3, <1>13
  <2> QED BY <2>1, <2>2, <1>7, <1>14
<1>17. ASSUME R.state[w] = "WAITING_CLOSE", ~R.failed, R.reason = "COMPLETE"
       PROVE  /\ R.batch[w] + 1 = batch_count
              /\ BatchUnits(R.batch[w]) \subseteq R.gated[w]
  <2>1. ~cont /\ complete
    BY <1>10, <1>13, <1>17
  <2>2. ~MoreBatches(result, w)
    BY <2>1, <1>8, <1>9, <1>10, <1>11, <1>17 DEF StopInv
  <2> QED BY <2>1, <2>2, <1>3, <1>12, <1>13, <1>14
<1>18. Expected(result, w)
  BY <1>2, <1>3 DEF Expected
<1>19. R.batch[w] < batch_count /\ R.state[w] \in {"WAITING_RESULT", "WAITING_CLOSE"}
  BY <1>3, <1>7, <1>13
<1> HIDE DEF f
<1> QED BY <1>9, <1>10, <1>13, <1>15, <1>16, <1>17, <1>18, <1>19

\* A frame has been recorded, and the answer is under way unless it failed.
LEMMA RecordStep ==
  ASSUME TypeInv, StopInv, NEW w \in Workers, WorkerInv(w),
         client[w] = "open", up[w] # <<>>,
         NEW R, R = record_batch_result(result, w, Head(up[w])),
         NEW T \in Results, result' = T,
         T.state = R.state, T.batch = R.batch, T.gated = R.gated,
         T.non_gated = R.non_gated, T.reason = R.reason,
         R.failed => T.failed, T.failed \/ (T.go <=> R.go),
         up' = [up EXCEPT ![w] = Tail(@)],
         client' \in [Workers -> {"none", "open", "closing", "closed"}],
         \A v \in Workers \ {w} : client'[v] = client[v],
         client'[w] \in {"open", "closing"},
         down' \in [Workers -> Controls],
         \A v \in Workers \ {w} : down'[v] = down[v],
         R.state[w] = "WAITING_CLOSE" => down'[w] # <<"CONTINUE">>,
         UNCHANGED <<rpc, session, lost, page, opt, expired, cancelled, outcome>>
  PROVE  Step(w)
<1>1. /\ R \in Results /\ R.failed = result.failed
      /\ \A v \in Workers \ {w} :
           /\ R.state[v] = result.state[v] /\ R.batch[v] = result.batch[v]
           /\ R.gated[v] = result.gated[v] /\ R.non_gated[v] = result.non_gated[v]
      /\ R.reason = "COMPLETE" => result.reason = "COMPLETE"
      /\ ~R.go => \/ R.failed \/ R.reason # "COMPLETE" \/ expired \/ cancelled
      /\ R.state[w] \in {"WAITING_RESULT", "WAITING_CLOSE"}
      /\ R.batch[w] < batch_count
      /\ R.gated[w] = page[w] /\ R.non_gated[w] = opt[w]
  BY Recorded
<1>2. /\ \A i \in 0 .. R.batch[w] - 1 : BatchUnits(i) \subseteq R.gated[w]
      /\ R.state[w] = "WAITING_CLOSE" /\ ~R.failed /\ R.reason = "COMPLETE" =>
           /\ R.batch[w] + 1 = batch_count
           /\ BatchUnits(R.batch[w]) \subseteq R.gated[w]
  BY Recorded
<1>3. up' = [up EXCEPT ![w] = <<>>] /\ up'[w] = <<>>
  BY OneFrame DEF TypeInv
<1>4. /\ session[w].job = "none" /\ rpc[w] = "served"
      /\ result.state[w] # "ENDED"
  BY DEF WorkerInv, FlowInv
<1>5. outcome.kind = "pending"
  BY <1>4 DEF StopInv, AllEnded, TypeInv
<1>6. TypeInv'
  <2>1. up' \in [Workers -> Frames]
    BY <1>3 DEF TypeInv, Frames
  <2> QED BY <2>1 DEF TypeInv
<1>7. StopInv'
  BY <1>1, <1>5 DEF StopInv
<1>8. \A v \in Workers \ {w} : SameFor(v)
  BY <1>1, <1>3, <1>5 DEF TypeInv, SameFor
<1>9. Stopped(w)' <=> R.state[w] = "WAITING_CLOSE"
  BY <1>1 DEF Stopped
<1>10. FlowInv(w)'
  BY <1>1, <1>3, <1>4 DEF WorkerInv, FlowInv, batch_count
<1>11. QuietInv(w)'
  BY <1>3, <1>4, <1>5, <1>9 DEF QuietInv, Quiet
<1>12. SyncInv(w)'
  BY <1>1, <1>3, <1>4 DEF SyncInv, Fetched, NoHits
<1>13. BatchInv(w)'
  BY <1>2, <1>9 DEF BatchInv, BatchUnits, batch_count
<1>14. OptInv(w)' /\ ReportInv(session[w])'
  BY DEF WorkerInv, OptInv, ReportInv
<1> QED BY <1>5, <1>6, <1>7, <1>8, <1>10, <1>11, <1>12, <1>13, <1>14 DEF WorkerInv, Step

LEMMA ReceiveResult_Inv ==
  ASSUME TypeInv, StopInv, NEW w \in Workers, WorkerInv(w), ReceiveResult(w)
  PROVE  Step(w)
<1> DEFINE R == record_batch_result(result, w, Head(up[w]))
           c == IF R.state[w] = "WAITING_CLOSE" THEN "STOP" ELSE "CONTINUE"
<1>1. client[w] = "open" /\ up[w] # <<>> /\ up' = [up EXCEPT ![w] = Tail(@)]
  BY DEF ReceiveResult
<1>2. Expected(result, w) /\ R \in Results
  BY <1>1, Recorded
<1>3. result' = R /\ client' = client /\ down' = [down EXCEPT ![w] = Append(@, c)]
  BY <1>2 DEF ReceiveResult
<1>4. UNCHANGED <<rpc, session, lost, page, opt, expired, cancelled, outcome>>
  BY DEF ReceiveResult, env
<1>5. down[w] = <<>>
  BY <1>1 DEF WorkerInv, FlowInv
<1>6. down' = [down EXCEPT ![w] = <<c>>] /\ <<c>> \in Controls
  BY <1>3, <1>5 DEF Controls
<1>7. R.state[w] = "WAITING_CLOSE" => <<c>> # <<"CONTINUE">>
  OBVIOUS
<1> HIDE DEF c
<1>8. /\ down' \in [Workers -> Controls] /\ down'[w] = <<c>>
      /\ \A v \in Workers \ {w} : down'[v] = down[v]
  BY <1>6 DEF TypeInv
<1> QED BY <1>1, <1>2, <1>3, <1>4, <1>7, <1>8, RecordStep DEF TypeInv

LEMMA ControlFails_Inv ==
  ASSUME TypeInv, StopInv, NEW w \in Workers, WorkerInv(w), ControlFails(w)
  PROVE  Step(w)
<1> DEFINE R == record_batch_result(result, w, Head(up[w]))
           T == mark_worker_failed(R)
<1>1. client[w] = "open" /\ up[w] # <<>> /\ up' = [up EXCEPT ![w] = Tail(@)]
  BY DEF ControlFails
<1>2. R \in Results
  BY <1>1, Recorded
<1>3. result' = T /\ client' = [client EXCEPT ![w] = "closing"]
  BY DEF ControlFails
<1>4. UNCHANGED <<rpc, session, down, lost, page, opt, expired, cancelled, outcome>>
  BY DEF ControlFails
<1>5. down[w] = <<>>
  BY <1>1 DEF WorkerInv, FlowInv
<1>6. /\ T \in Results /\ T.failed
      /\ T.state = R.state /\ T.batch = R.batch /\ T.gated = R.gated
      /\ T.non_gated = R.non_gated /\ T.reason = R.reason
  <2> HIDE DEF R
  <2> QED BY <1>2, FailedFacts
<1>7. /\ client' \in [Workers -> {"none", "open", "closing", "closed"}]
      /\ client'[w] = "closing" /\ \A v \in Workers \ {w} : client'[v] = client[v]
  BY <1>3 DEF TypeInv
<1> HIDE DEF T
<1>8. <<>> # <<"CONTINUE">>
  OBVIOUS
<1> QED BY <1>1, <1>3, <1>4, <1>5, <1>6, <1>7, <1>8, RecordStep DEF TypeInv

-----------------------------------------------------------------------------
(* Steps of the prefetch as a whole.                                       *)

\* When every worker has stopped as asked, the record is what they have.
LEMMA AllFetched ==
  ASSUME TypeInv, StopInv, \A w \in Workers : WorkerInv(w),
         AllEnded(result), ~result.failed
  PROVE  \A w \in Workers :
           /\ Stopped(w) /\ Quiet(w)
           /\ page[w] = result.gated[w] /\ opt[w] = result.non_gated[w]
<1> SUFFICES ASSUME NEW w \in Workers
             PROVE  /\ Stopped(w) /\ Quiet(w)
                    /\ page[w] = result.gated[w] /\ opt[w] = result.non_gated[w]
  OBVIOUS
<1>1. Stopped(w)
  BY DEF AllEnded, Stopped
<1>2. Quiet(w)
  BY <1>1 DEF WorkerInv, QuietInv
<1>3. Fetched(w, NoHits)
  BY <1>1, <1>2 DEF WorkerInv, SyncInv, Broken, Quiet
<1> QED BY <1>1, <1>2, <1>3 DEF Fetched, NoHits

\* finalize_prefetch_tokens() on what the workers have.
LEMMA FinalUnitsFacts ==
  ASSUME page \in [Workers -> SUBSET Units], opt \in [Workers -> SUBSET Units],
         \A w \in Workers : OptInv(w),
         NEW g \in [Workers -> SUBSET Units], NEW n \in [Workers -> SUBSET Units],
         \A w \in Workers : page[w] = g[w] /\ opt[w] = n[w]
  PROVE  FinalUnits(g, n) =
           {u \in Units : \E v \in u .. NumUnits :
              \A w \in Workers : 1 .. v \subseteq page[w] /\ v \in opt[w]}
<1> DEFINE P(u) == \A v \in 1 .. u : \A w \in Workers : v \in page[w]
           O(u) == \A w \in Workers : u \in opt[w]
<1>1. CommonPrefix(g) = {u \in Units : P(u)}
  BY DEF CommonPrefix
<1>2. \A u : P(u) <=> \A w \in Workers : 1 .. u \subseteq page[w]
  OBVIOUS
<1>3. \A u \in Units : \A v : v \in u .. NumUnits <=> v \in Units /\ u <= v
  BY UnitsAssumption DEF Units
<1>4. \A u, v \in Units : u <= v /\ P(v) => P(u)
  BY UnitsAssumption DEF Units
<1>5. ~HasOptional => \A u \in Units : P(u) => O(u)
  <2>1. \A u \in Units : u \in 1 .. u
    BY UnitsAssumption DEF Units
  <2> QED BY <2>1 DEF OptInv
<1>6. \A u \in Units : u <= u
  BY UnitsAssumption DEF Units
<1>7. {u \in Units : \E v \in u .. NumUnits :
         \A w \in Workers : 1 .. v \subseteq page[w] /\ v \in opt[w]}
      = {u \in Units : \E v \in Units : u <= v /\ P(v) /\ O(v)}
  <2>1. \A v : P(v) /\ O(v) <=>
                 \A w \in Workers : 1 .. v \subseteq page[w] /\ v \in opt[w]
    BY <1>2
  <2> HIDE DEF P, O
  <2>2. \A u \in Units :
          (\E v \in u .. NumUnits : P(v) /\ O(v))
          <=> (\E v \in Units : u <= v /\ P(v) /\ O(v))
    BY <1>3
  <2> QED BY <2>1, <2>2
<1>8. CASE HasOptional
  <2> DEFINE usable == {u \in CommonPrefix(g) : \A w \in Workers : u \in n[w]}
  <2>1. usable = {u \in Units : P(u) /\ O(u)}
    BY <1>1
  <2>2. FinalUnits(g, n) = {u \in Units : \E v \in usable : u <= v}
    BY <1>8 DEF FinalUnits
  <2> HIDE DEF usable, P, O
  <2>3. FinalUnits(g, n) = {u \in Units : \E v \in Units : u <= v /\ P(v) /\ O(v)}
    BY <2>1, <2>2
  <2> QED BY <1>7, <2>3
<1>9. CASE ~HasOptional
  <2>1. FinalUnits(g, n) = {u \in Units : P(u)}
    BY <1>1, <1>9 DEF FinalUnits
  <2> HIDE DEF P, O
  <2>2. \A u \in Units : P(u) <=> \E v \in Units : u <= v /\ P(v) /\ O(v)
    BY <1>4, <1>5, <1>6, <1>9
  <2> QED BY <1>7, <2>1, <2>2
<1> QED BY <1>8, <1>9

LEMMA Finalize_Inv ==
  ASSUME IInv, Finalize
  PROVE  IInv'
<1>1. UNCHANGED <<result, session, page, opt, client, rpc, up, down, lost, expired,
                  cancelled>>
  BY DEF Finalize, stream
<1>2. TypeInv /\ StopInv /\ AllEnded(result) /\ \A w \in Workers : WorkerInv(w)
  BY DEF IInv, Finalize
<1>3. outcome' \in [kind : {"pending", "published", "discarded"}, units : SUBSET Units]
  <2>1. FinalUnits(result.gated, result.non_gated) \in SUBSET Units
    BY DEF FinalUnits, CommonPrefix
  <2> QED BY <2>1 DEF Finalize
<1>4. TypeInv'
  BY <1>1, <1>2, <1>3 DEF TypeInv
<1>5. StopInv'
  BY <1>1, <1>2 DEF StopInv, AllEnded
<1>6. \/ ~result.failed /\ outcome' = [kind |-> "published",
                             units |-> FinalUnits(result.gated, result.non_gated)]
      \/ outcome' = [kind |-> "discarded", units |-> {}]
  BY DEF Finalize
<1>7. outcome'.kind = "published" =>
        /\ ~result.failed
        /\ outcome'.units = FinalUnits(result.gated, result.non_gated)
  BY <1>6
<1>8. PublishedIsFetched'
  <2> SUFFICES ASSUME ~result.failed
               PROVE  FinalUnits(result.gated, result.non_gated) =
                        {u \in Units : \E v \in u .. NumUnits :
                           \A w \in Workers : 1 .. v \subseteq page[w] /\ v \in opt[w]}
    BY <1>1, <1>7 DEF PublishedIsFetched, Units
  <2>1. \A w \in Workers : page[w] = result.gated[w] /\ opt[w] = result.non_gated[w]
    BY <1>2, AllFetched
  <2>2. /\ result.gated \in [Workers -> SUBSET Units]
        /\ result.non_gated \in [Workers -> SUBSET Units]
        /\ page \in [Workers -> SUBSET Units] /\ opt \in [Workers -> SUBSET Units]
    BY <1>2 DEF TypeInv, Results
  <2>3. \A w \in Workers : OptInv(w)
    BY <1>2 DEF WorkerInv
  <2> QED BY <2>1, <2>2, <2>3, FinalUnitsFacts
<1>9. ASSUME NEW w \in Workers PROVE WorkerInv(w)'
  <2>1. Stopped(w)' <=> Stopped(w)
    BY <1>1 DEF Stopped
  <2>2. Quiet(w)' <=> Quiet(w)
    BY <1>1 DEF Quiet
  <2>3. QuietInv(w)'
    <3>1. outcome'.kind = "published" => Quiet(w)
      BY <1>2, <1>7, AllFetched
    <3> QED BY <1>2, <2>1, <2>2, <3>1 DEF WorkerInv, QuietInv
  <2>4. ReportInv(session[w])' /\ FlowInv(w)'
    BY <1>1, <1>2 DEF WorkerInv, ReportInv, FlowInv, batch_count
  <2>5. SyncInv(w)'
    BY <1>1, <1>2, <2>1 DEF WorkerInv, SyncInv, Broken, Fetched, NoHits
  <2>6. BatchInv(w)' /\ OptInv(w)'
    BY <1>1, <1>2, <2>1 DEF WorkerInv, BatchInv, OptInv, BatchUnits, batch_count
  <2> QED BY <2>3, <2>4, <2>5, <2>6 DEF WorkerInv
<1> QED BY <1>4, <1>5, <1>8, <1>9 DEF IInv

\* The timer, the end of the request and stuttering only touch flags.
LEMMA Flag_Inv ==
  ASSUME IInv, TimerExpires \/ Cancel \/ UNCHANGED vars
  PROVE  IInv'
<1>1. /\ UNCHANGED <<result, session, page, opt, client, rpc, up, down, lost, outcome>>
      /\ expired' \in BOOLEAN /\ cancelled' \in BOOLEAN
      /\ expired => expired'
      /\ cancelled => cancelled'
  BY DEF TimerExpires, Cancel, vars, stream, env, IInv, TypeInv
<1>2. TypeInv' /\ StopInv'
  BY <1>1 DEF IInv, TypeInv, StopInv, AllEnded
<1>3. PublishedIsFetched'
  BY <1>1 DEF IInv, PublishedIsFetched, Units
<1>4. ASSUME NEW w \in Workers PROVE WorkerInv(w)'
  <2>1. SameFor(w)
    BY <1>1 DEF SameFor
  <2> QED BY <2>1, SameKeeps DEF IInv
<1> QED BY <1>2, <1>3, <1>4 DEF IInv

LEMMA Init_Inv ==
  ASSUME Init
  PROVE  IInv
<1>1. NewSession \in Sessions
  BY DEF NewSession, Sessions, Hits
<1>2. NewResult \in Results
  BY DEF NewResult, Results
<1>3. TypeInv
  BY <1>1, <1>2 DEF Init, TypeInv, Frames, Controls
<1>4. StopInv
  BY DEF Init, StopInv, NewResult
<1>5. PublishedIsFetched
  BY DEF Init, PublishedIsFetched
<1>6. ASSUME NEW w \in Workers PROVE WorkerInv(w)
  <2>1. ReportInv(session[w])
    BY DEF Init, ReportInv, NewSession
  <2>2. FlowInv(w)
    BY BatchCount DEF Init, FlowInv, NewResult, NewSession
  <2>3. ~Stopped(w)
    BY DEF Init, Stopped, NewResult
  <2>4. QuietInv(w)
    BY <2>3 DEF Init, QuietInv
  <2>5. SyncInv(w)
    BY DEF Init, SyncInv, Fetched, NoHits, NewResult, NewSession
  <2>6. BatchInv(w) /\ OptInv(w)
    BY <2>3 DEF Init, BatchInv, OptInv, NewResult
  <2> QED BY <2>1, <2>2, <2>4, <2>5, <2>6 DEF WorkerInv
<1> QED BY <1>3, <1>4, <1>5, <1>6 DEF IInv

LEMMA Next_Inv ==
  ASSUME IInv, [Next]_vars
  PROVE  IInv'
<1>1. ASSUME NEW w \in Workers, SessionStep(w) \/ ClientStep(w) \/ FaultStep(w)
      PROVE  IInv'
  <2>0. TypeInv /\ StopInv /\ WorkerInv(w)
    BY DEF IInv
  <2>1. CASE SessionStep(w)
    <3>1. Step(w)
      BY <2>0, <2>1, Serve_Inv, Start_Inv, GetReturns_Inv, WriteResult_Inv,
         ReceiveControl_Inv, FinishClose_Inv, SessionFailed_Inv, SessionClosed_Inv,
         ShutdownReturns_Inv, Lost_Inv DEF SessionStep
    <3> QED BY <3>1, StepKeeps
  <2>2. CASE ClientStep(w)
    <3>1. Step(w)
      BY <2>0, <2>2, Connect_Inv, FailAndClose_Inv, ReceiveResult_Inv, ClientClosed_Inv
         DEF ClientStep
    <3> QED BY <3>1, StepKeeps
  <2>3. CASE FaultStep(w)
    <3>1. Step(w)
      BY <2>0, <2>3, Serve_Inv, GetInvalid_Inv, Shutdown_Inv, ConnectFails_Inv,
         FailAndClose_Inv, Lost_Inv, ControlFails_Inv DEF FaultStep
    <3> QED BY <3>1, StepKeeps
  <2> QED BY <1>1, <2>1, <2>2, <2>3
<1> QED BY <1>1, Finalize_Inv, Flag_Inv DEF Next

LEMMA Invariant == Spec => []IInv
<1> QED BY Init_Inv, Next_Inv, PTL DEF Spec

-----------------------------------------------------------------------------
(* The theorems.                                                           *)

\* What HierarchyBlockManagerPool publishes is exactly the prefix that every
\* worker has in its pages, whatever frames, calls and connections were lost.
THEOREM PublishesWhatWasFetched == Spec => []PublishedIsFetched
BY Invariant, PTL DEF IInv

\* No Get touches the pages of a published prefetch any more.
THEOREM PublishesQuietPages == Spec => []PublishedIsQuiet
<1>1. IInv => PublishedIsQuiet
  BY DEF IInv, WorkerInv, QuietInv, Quiet, PublishedIsQuiet
<1> QED BY <1>1, Invariant, PTL

\* Every unit belongs to one of the batches.
LEMMA UnitHasBatch ==
  ASSUME NEW u \in Units
  PROVE  (u - 1) \div BatchSize \in 0 .. batch_count - 1
<1> DEFINE B == BatchSize
           N == NumUnits
           a == (u - 1) \div B
           c == (N + B - 1) \div B
<1>1. u \in Nat /\ N \in Nat /\ B \in Nat /\ B > 0 /\ 1 <= u /\ u <= N
  BY UnitsAssumption DEF Units
<1>2. \A x \in Nat, y \in Nat \ {0} :
        /\ x \div y \in Nat
        /\ y * (x \div y) <= x /\ x < y * (x \div y) + y
  OBVIOUS
<1>3. a \in Nat /\ B * a <= u - 1
  BY <1>1, <1>2
<1>4. c \in Nat /\ N + B - 1 < B * c + B
  BY <1>1, <1>2
<1> HIDE DEF a, c
<1>5. B * a < B * c
  BY <1>1, <1>3, <1>4
<1>6. a < c
  BY <1>1, <1>3, <1>4, <1>5
<1> QED BY <1>3, <1>4, <1>6 DEF a, c, batch_count

\* A prefetch that records no reason to stop has fetched every unit on every
\* worker.
THEOREM CompleteIsComplete == Spec => []CompleteMeansAll
<1>1. ASSUME IInv, outcome.kind # "pending", ~result.failed,
             result.reason = "COMPLETE", NEW w \in Workers
      PROVE  page[w] = Units
  <2>1. TypeInv /\ StopInv /\ AllEnded(result) /\ \A v \in Workers : WorkerInv(v)
    BY <1>1 DEF IInv, StopInv
  <2>2. Stopped(w) /\ page[w] = result.gated[w]
    BY <1>1, <2>1, AllFetched
  <2>3. /\ result.batch[w] + 1 = batch_count
        /\ BatchUnits(result.batch[w]) \subseteq page[w]
        /\ \A i \in 0 .. result.batch[w] - 1 : BatchUnits(i) \subseteq page[w]
    BY <1>1, <2>1, <2>2 DEF WorkerInv, BatchInv
  <2>4. result.batch[w] \in Nat
    BY <2>1 DEF TypeInv, Results
  <2>5. \A i \in 0 .. batch_count - 1 : BatchUnits(i) \subseteq page[w]
    <3>1. \A i \in 0 .. batch_count - 1 : i \in 0 .. result.batch[w] - 1
                                          \/ i = result.batch[w]
      BY <2>3, <2>4
    <3> QED BY <2>3, <3>1
  <2>6. ASSUME NEW u \in Units PROVE u \in page[w]
    <3>1. u \in BatchUnits((u - 1) \div BatchSize)
      BY DEF BatchUnits
    <3> QED BY <3>1, <2>5, UnitHasBatch
  <2>7. page[w] \subseteq Units
    BY <2>1 DEF TypeInv
  <2> QED BY <2>6, <2>7
<1>2. IInv => CompleteMeansAll
  BY <1>1 DEF CompleteMeansAll
<1> QED BY <1>2, Invariant, PTL

\* A session's report counts all of its Gets.
THEOREM ReportsAreFinal == Spec => []ReportIsFinal
<1>1. IInv => ReportIsFinal
  BY DEF IInv, WorkerInv, ReportInv, ReportIsFinal
<1> QED BY <1>1, Invariant, PTL

\* A session whose shutdown() has returned starts no report, except for a Get
\* that was still running.
THEOREM ShutdownEndsReports == Spec => NoReportAfterShutdown
<1>1. ASSUME IInv, IInv', NEW w \in Workers, session[w].shut = "returned",
             ~session[w].running, session[w].report = "none",
             session'[w].report = "scheduled"
      PROVE  FALSE
  <2>1. ReportInv(session[w]) /\ ReportInv(session'[w])
    BY <1>1 DEF IInv, WorkerInv, ReportInv
  <2> QED BY <1>1, <2>1 DEF ReportInv
<1>2. IInv /\ IInv' => [\A w \in Workers :
        session[w].shut = "returned" /\ ~session[w].running =>
          ~(session[w].report = "none" /\ session'[w].report = "scheduled")]_vars
  BY <1>1
<1> QED BY <1>2, Invariant, PTL DEF NoReportAfterShutdown
=============================================================================
