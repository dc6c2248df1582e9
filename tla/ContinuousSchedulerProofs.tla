---------------------- MODULE ContinuousSchedulerProofs ----------------------
(***************************************************************************)
(* Proofs about ContinuousScheduler, for every set of requests, capacity,  *)
(* number of blocks and sequence of pauses.  When a pause is complete no   *)
(* request holds KV, under the prefill-first policy, because the pause     *)
(* goes over two lists, and every request that holds KV is in one of them  *)
(* whenever the loop thread looks at the pause state (HeldInv).  The       *)
(* request queue has room for all who were let in, under both policies,    *)
(* because the last of them to reserve left room for the rest (Ordered).   *)
(* Under the prefill-first policy a request is in one place (SpotInv), the *)
(* scheduler implements RequestService (ServeInv), and without overlap it  *)
(* fails only requests the device is too small for (FreshInv).             *)
(***************************************************************************)
EXTENDS ContinuousScheduler, FiniteSetTheorems, WellFoundedInduction, TLAPS

\* The state the argument is about is well typed.
TypeInv ==
  /\ request_queue \in Seq(Requests) /\ decode_queue \in Seq(Requests)
  /\ running \in Seq(Requests) /\ prefill_queue \subseteq Requests
  /\ held \in [Requests -> Int] /\ gen \in [Requests -> Nat]
  /\ pause_state \in {"RUNNING", "PAUSING", "PAUSED"}
  /\ loop \in {"top", "requeue", "prefill", "decode", "dispatch", "pausing"}

\* A request that holds KV is in the running list or waits for a decode.
HeldInv ==
  \A r \in Requests :
    held[r] # 0 => r \in ToSet(running) \union ToSet(decode_queue)

\* While the batch is put back, what is over has given up its KV already.
RequeueInv ==
  loop = "requeue" => \A r \in ToSet(running) : Over(r) => held[r] = 0

\* schedule_request is not left spinning when a pause begins or is complete,
\* and nothing moves while the scheduler is paused.
PauseInv ==
  /\ loop = "pausing" => ~spinning
  /\ pause_state = "PAUSED" => loop = "top" /\ ~spinning

IInv == TypeInv /\ HeldInv /\ RequeueInv /\ PauseInv /\ PausedHoldsNoKv

-----------------------------------------------------------------------------
(* Sequences, and the head of the prefill queue.                           *)

LEMMA AppendToSet ==
  ASSUME NEW S, NEW s \in Seq(S), NEW e \in S
  PROVE  Append(s, e) \in Seq(S) /\ ToSet(Append(s, e)) = ToSet(s) \union {e}
<1>1. Append(s, e) \in Seq(S) /\ Len(Append(s, e)) = Len(s) + 1
  OBVIOUS
<1>2. \A i \in 1 .. Len(s) : Append(s, e)[i] = s[i]
  OBVIOUS
<1>3. Append(s, e)[Len(s) + 1] = e
  OBVIOUS
<1>4. DOMAIN s = 1 .. Len(s) /\ DOMAIN Append(s, e) = 1 .. Len(s) + 1 /\ Len(s) \in Nat
  BY <1>1
<1> QED BY <1>2, <1>3, <1>4 DEF ToSet

LEMMA TailToSet ==
  ASSUME NEW S, NEW s \in Seq(S), s # <<>>
  PROVE  /\ Head(s) \in S /\ Tail(s) \in Seq(S)
         /\ ToSet(s) = {Head(s)} \union ToSet(Tail(s))
<1>1. Head(s) \in S /\ Tail(s) \in Seq(S) /\ Len(Tail(s)) = Len(s) - 1 /\ Len(s) \in Nat \ {0}
  OBVIOUS
<1>2. \A i \in 1 .. Len(s) - 1 : Tail(s)[i] = s[i + 1]
  OBVIOUS
<1>3. DOMAIN s = 1 .. Len(s) /\ DOMAIN Tail(s) = 1 .. Len(s) - 1 /\ Head(s) = s[1]
  BY <1>1
<1>4. ASSUME NEW x \in ToSet(s) PROVE x \in {Head(s)} \union ToSet(Tail(s))
  <2>1. PICK i \in 1 .. Len(s) : x = s[i]
    BY <1>3 DEF ToSet
  <2>2. i = 1 \/ (i - 1 \in 1 .. Len(s) - 1 /\ x = Tail(s)[i - 1])
    BY <2>1, <1>1, <1>2
  <2> QED BY <2>1, <2>2, <1>3 DEF ToSet
<1>5. ASSUME NEW x \in {Head(s)} \union ToSet(Tail(s)) PROVE x \in ToSet(s)
  <2>1. CASE x = Head(s)
    BY <2>1, <1>1, <1>3 DEF ToSet
  <2>2. CASE x \in ToSet(Tail(s))
    <3>1. PICK i \in 1 .. Len(s) - 1 : x = s[i + 1]
      BY <2>2, <1>2, <1>3 DEF ToSet
    <3>2. i + 1 \in 1 .. Len(s)
      BY <1>1
    <3> QED BY <3>1, <3>2, <1>3 DEF ToSet
  <2> QED BY <2>1, <2>2
<1> QED BY <1>1, <1>4, <1>5

LEMMA UpTo ==
  ASSUME NEW n \in Nat \ {0}, NEW i \in 1 .. n
  PROVE  i = n \/ i \in 1 .. n - 1
OBVIOUS

LEMMA FrontToSet ==
  ASSUME NEW S, NEW s \in Seq(S), s # <<>>
  PROVE  /\ Last(s) \in S /\ Front(s) \in Seq(S)
         /\ ToSet(s) = {Last(s)} \union ToSet(Front(s))
<1>1. Len(s) \in Nat \ {0} /\ DOMAIN s = 1 .. Len(s) /\ Last(s) \in S
  BY DEF Last
<1>2. Front(s) \in Seq(S) /\ Len(Front(s)) = Len(s) - 1
  BY <1>1 DEF Front
<1>3. \A i \in 1 .. Len(s) - 1 : Front(s)[i] = s[i]
  BY <1>1 DEF Front
<1>4. DOMAIN Front(s) = 1 .. Len(s) - 1
  BY <1>1, <1>2
<1>5. ASSUME NEW x \in ToSet(s) PROVE x \in {Last(s)} \union ToSet(Front(s))
  <2>1. PICK i \in 1 .. Len(s) : x = s[i]
    BY <1>1 DEF ToSet
  <2>2. i = Len(s) \/ i \in 1 .. Len(s) - 1
    BY <1>1, UpTo
  <2>3. x = Last(s) \/ (i \in DOMAIN Front(s) /\ x = Front(s)[i])
    BY <2>1, <2>2, <1>3, <1>4 DEF Last
  <2> QED BY <2>3 DEF ToSet
<1>6. ASSUME NEW x \in {Last(s)} \union ToSet(Front(s)) PROVE x \in ToSet(s)
  <2>1. CASE x = Last(s)
    BY <2>1, <1>1 DEF ToSet, Last
  <2>2. CASE x \in ToSet(Front(s))
    <3>1. PICK i \in 1 .. Len(s) - 1 : x = s[i]
      BY <2>2, <1>3, <1>4 DEF ToSet
    <3> QED BY <3>1, <1>1 DEF ToSet
  <2> QED BY <2>1, <2>2
<1> QED BY <1>1, <1>2, <1>5, <1>6

LEMMA ConsToSet ==
  ASSUME NEW S, NEW s \in Seq(S), NEW e \in S
  PROVE  <<e>> \o s \in Seq(S) /\ ToSet(<<e>> \o s) = {e} \union ToSet(s)
<1>1. <<e>> \in Seq(S) /\ Len(<<e>>) = 1 /\ <<e>>[1] = e /\ Len(s) \in Nat
  OBVIOUS
<1>2. <<e>> \o s \in Seq(S) /\ Len(<<e>> \o s) = 1 + Len(s)
  BY <1>1
<1>3. (<<e>> \o s)[1] = e /\ \A i \in 1 .. Len(s) : (<<e>> \o s)[i + 1] = s[i]
  BY <1>1
<1>4. DOMAIN s = 1 .. Len(s) /\ DOMAIN (<<e>> \o s) = 1 .. 1 + Len(s)
  BY <1>2
<1>5. ASSUME NEW x \in ToSet(<<e>> \o s) PROVE x \in {e} \union ToSet(s)
  <2>1. PICK i \in 1 .. 1 + Len(s) : x = (<<e>> \o s)[i]
    BY <1>4 DEF ToSet
  <2>2. i = 1 \/ (i - 1 \in 1 .. Len(s) /\ i = (i - 1) + 1)
    BY <1>1
  <2>3. x = e \/ (i - 1 \in DOMAIN s /\ x = s[i - 1])
    BY <2>1, <2>2, <1>3, <1>4
  <2> QED BY <2>3 DEF ToSet
<1>6. ASSUME NEW x \in {e} \union ToSet(s) PROVE x \in ToSet(<<e>> \o s)
  <2>1. CASE x = e
    BY <2>1, <1>1, <1>3, <1>4 DEF ToSet
  <2>2. CASE x \in ToSet(s)
    <3>1. PICK i \in 1 .. Len(s) : x = s[i]
      BY <2>2, <1>4 DEF ToSet
    <3>2. i + 1 \in DOMAIN (<<e>> \o s) /\ x = (<<e>> \o s)[i + 1]
      BY <3>1, <1>1, <1>3, <1>4
    <3> QED BY <3>2 DEF ToSet
  <2> QED BY <2>1, <2>2
<1> QED BY <1>2, <1>5, <1>6

LEMMA EmptyToSet == ToSet(<<>>) = {}
BY DEF ToSet

LEMMA LeastElement ==
  ASSUME NEW S \in SUBSET Nat, S # {}
  PROVE  \E x \in S : \A y \in S : x <= y
<1> DEFINE R == {ss \in Nat \X Nat : ss[1] < ss[2]}
<1>1. \E x \in S : \A y \in S : ~(<<y, x>> \in R)
  <2>1. IsWellFoundedOn(R, Nat)
    BY NatLessThanWellFounded DEF OpToRel
  <2> HIDE DEF R
  <2> QED BY <2>1, WFMin
<1>2. PICK x \in S : \A y \in S : ~(<<y, x>> \in R)
  BY <1>1
<1>3. ASSUME NEW y \in S PROVE x <= y
  <2>1. ~(y < x)
    BY <1>2
  <2> QED BY <2>1
<1> QED BY <1>3

\* The head of a queue that is not empty is one of its requests.
LEMMA MinIsMember ==
  ASSUME NEW S \in SUBSET Nat, S # {}
  PROVE  Min(S) \in S
BY LeastElement DEF Min

-----------------------------------------------------------------------------
(* The inductive invariant.                                                *)

\* What the invariant speaks of.
core == <<request_queue, prefill_queue, decode_queue, running, last_batch, held,
          spinning, gen, finished, cancelled, pause_state, looping>>

LEMMA CoreStutters ==
  ASSUME IInv, UNCHANGED core
  PROVE  IInv'
BY DEF IInv, TypeInv, HeldInv, RequeueInv, PauseInv, PausedHoldsNoKv, Over,
       core, looping

\* Nothing is held and nothing runs when the scheduler is built.
LEMMA InitIInv == Init => IInv
<1> SUFFICES ASSUME Init PROVE IInv
  OBVIOUS
<1>1. TypeInv
  BY DEF Init, TypeInv
<1>2. HeldInv /\ RequeueInv /\ PauseInv /\ PausedHoldsNoKv
  BY DEF Init, HeldInv, RequeueInv, PauseInv, PausedHoldsNoKv
<1> QED BY <1>1, <1>2 DEF IInv

LEMMA TokensType ==
  ASSUME TypeInv, NEW r \in Requests
  PROVE  Tokens(r) \in Int
BY SchedulerAssumption DEF Tokens, TypeInv

\* The requests of the prefill queue in their order.
LEMMA HeadOfQueue ==
  ASSUME TypeInv, prefill_queue # {}
  PROVE  Min(prefill_queue) \in prefill_queue /\ Min(prefill_queue) \in Requests
<1>1. prefill_queue \in SUBSET Nat
  BY SchedulerAssumption DEF TypeInv
<1> QED BY <1>1, MinIsMember DEF TypeInv

\* The callers' threads and the prefetch callbacks touch one queue.
LEMMA AdmissionIInv ==
  ASSUME IInv, NEW r \in Requests,
         \/ Reserve(r) \/ Admit(r) \/ PrefetchDone(r) \/ PrefetchRelease(r) \/ Disconnect(r)
  PROVE  IInv'
<1>1. CASE Reserve(r) \/ Admit(r) \/ PrefetchRelease(r) \/ Disconnect(r)
  BY <1>1, CoreStutters
     DEF Reserve, Admit, PrefetchRelease, Disconnect, core, admission, queues, batch,
         requests, pausing, looping
<1>2. CASE PrefetchDone(r)
  <2>1. request_queue' \in Seq(Requests)
    BY <1>2, AppendToSet DEF PrefetchDone, IInv, TypeInv
  <2> QED
    BY <1>2, <2>1
       DEF PrefetchDone, IInv, TypeInv, HeldInv, RequeueInv, PauseInv, PausedHoldsNoKv,
           Over, queues, batch, requests, pausing, looping
<1> QED BY <1>1, <1>2

LEMMA PauseCallsIInv ==
  ASSUME IInv, (\E m \in Modes : Pause(m)) \/ Resume
  PROVE  IInv'
BY DEF Pause, Resume, IInv, TypeInv, HeldInv, RequeueInv, PauseInv, PausedHoldsNoKv,
       Over, queues, batch, requests, looping

\* Collected requests give up their KV; the scheduler is not paused.
LEMMA CollectIInv ==
  ASSUME IInv, ~Unified, Collect
  PROVE  IInv'
<1>1. pause_state # "PAUSED" /\ pause_state' = pause_state /\ loop = "top" /\ loop' = "requeue"
  BY DEF Collect, Scheduling, pausing, IInv, PauseInv
<1>2. /\ running' = running /\ decode_queue' = decode_queue /\ request_queue' = <<>>
      /\ finished' = finished /\ gen' = gen
      /\ prefill_queue' = prefill_queue \union ToSet(request_queue)
  BY DEF Collect
<1>3. ToSet(request_queue) \subseteq Requests
  BY DEF IInv, TypeInv, ToSet
<1>4. /\ held' \in [Requests -> Int]
      /\ \A r \in Requests : held'[r] = held[r] \/ held'[r] = 0
      /\ \A r \in Requests : r \in ToSet(running) /\ (r \in finished \/ r \in cancelled') => held'[r] = 0
  BY DEF Collect, IInv, TypeInv
<1>5. ToSet(running) \subseteq Requests
  BY DEF IInv, TypeInv, ToSet
<1>6. TypeInv'
  BY <1>1, <1>2, <1>3, <1>4 DEF IInv, TypeInv
<1>7. HeldInv'
  BY <1>2, <1>4 DEF IInv, HeldInv
<1>8. RequeueInv'
  BY <1>2, <1>4, <1>5 DEF RequeueInv, Over
<1>9. PauseInv' /\ PausedHoldsNoKv'
  BY <1>1 DEF PauseInv, PausedHoldsNoKv
<1> QED BY <1>6, <1>7, <1>8, <1>9 DEF IInv

\* A request taken from the running list holds nothing or goes to the other list.
LEMMA RequeueOneIInv ==
  ASSUME IInv, ~Unified, RequeueOne
  PROVE  IInv'
<1> DEFINE r == IF Forward THEN Head(running) ELSE Last(running)
<1>1. /\ r \in Requests /\ running' \in Seq(Requests)
      /\ ToSet(running) = {r} \union ToSet(running')
  BY TailToSet, FrontToSet DEF RequeueOne, IInv, TypeInv
<1>2. /\ decode_queue' \in Seq(Requests)
      /\ ToSet(decode_queue) \subseteq ToSet(decode_queue')
      /\ ~Over(r) => r \in ToSet(decode_queue')
  <2>1. CASE Over(r)
    BY <2>1 DEF RequeueOne, IInv, TypeInv
  <2>2. CASE ~Over(r)
    <3>1. decode_queue \in Seq(Requests)
      BY DEF IInv, TypeInv
    <3>2. decode_queue' = IF Forward THEN Append(decode_queue, r) ELSE <<r>> \o decode_queue
      BY <2>2 DEF RequeueOne
    <3> HIDE DEF r
    <3>3. CASE Forward
      BY <3>1, <3>2, <3>3, <1>1, AppendToSet
    <3>4. CASE ~Forward
      BY <3>1, <3>2, <3>4, <1>1, ConsToSet
    <3> QED BY <3>3, <3>4
  <2> QED BY <2>1, <2>2
<1>3. /\ loop = "requeue" /\ loop' = loop /\ held' = held /\ pause_state' = pause_state
      /\ prefill_queue' = prefill_queue /\ request_queue' = request_queue
      /\ gen' = gen /\ finished' = finished /\ cancelled' = cancelled
  BY DEF RequeueOne, requests, pausing, looping
<1>4. Over(r) => held[r] = 0
  BY <1>1, <1>3 DEF IInv, RequeueInv
<1> HIDE DEF r
<1>5. TypeInv'
  BY <1>1, <1>2, <1>3 DEF IInv, TypeInv
<1>6. HeldInv'
  BY <1>1, <1>2, <1>3, <1>4 DEF IInv, HeldInv
<1>7. RequeueInv'
  BY <1>1, <1>3 DEF IInv, RequeueInv, Over
<1>8. PauseInv' /\ PausedHoldsNoKv'
  BY <1>3 DEF IInv, PauseInv, PausedHoldsNoKv
<1> QED BY <1>5, <1>6, <1>7, <1>8 DEF IInv

LEMMA RequeueStopIInv ==
  ASSUME IInv, ~Unified, RequeueStop
  PROVE  IInv'
BY DEF RequeueStop, IInv, TypeInv, HeldInv, RequeueInv, PauseInv, PausedHoldsNoKv,
       requests, pausing

\* In the middle of a step the scheduler is not paused.
LEMMA MidStep ==
  ASSUME IInv, loop \notin {"top", "pausing"}, loop' # "pausing",
         pause_state' = pause_state
  PROVE  PauseInv' /\ PausedHoldsNoKv'
BY DEF IInv, PauseInv, PausedHoldsNoKv

\* A prefill gives a request KV and puts it into the running list.
LEMMA PrefillOneIInv ==
  ASSUME IInv, ~Unified, PrefillOne
  PROVE  IInv'
<1> DEFINE r == Min(prefill_queue)
<1>1. r \in Requests
  BY HeadOfQueue DEF PrefillOne, PrefillMore, IInv
<1> HIDE DEF r
<1>2. /\ loop = "prefill" /\ loop' = loop /\ pause_state' = pause_state
      /\ prefill_queue' = prefill_queue \ {r} /\ request_queue' = request_queue
      /\ decode_queue' = decode_queue /\ gen' = gen
  BY DEF PrefillOne, PrefillMore, pausing, looping, r
<1>3. \/ held' = [held EXCEPT ![r] = 0] /\ running' = running
      \/ held' = [held EXCEPT ![r] = Tokens(r)] /\ running' = Append(running, r)
  BY DEF PrefillOne, Answer, Run, r
<1>4. TypeInv /\ running \in Seq(Requests) /\ held \in [Requests -> Int] /\ Tokens(r) \in Int
  BY <1>1, TokensType DEF IInv, TypeInv
<1>5. /\ running' \in Seq(Requests) /\ held' \in [Requests -> Int]
      /\ ToSet(running) \subseteq ToSet(running')
      /\ \A q \in Requests : held'[q] # 0 => held[q] # 0 \/ q \in ToSet(running')
  <2>1. CASE held' = [held EXCEPT ![r] = 0] /\ running' = running
    BY <2>1, <1>1, <1>4
  <2>2. CASE held' = [held EXCEPT ![r] = Tokens(r)] /\ running' = Append(running, r)
    <3>1. running' \in Seq(Requests) /\ ToSet(running') = ToSet(running) \union {r}
      BY <2>2, <1>1, <1>4, AppendToSet
    <3> QED BY <2>2, <3>1, <1>1, <1>4
  <2> QED BY <1>3, <2>1, <2>2
<1>6. TypeInv'
  BY <1>2, <1>4, <1>5 DEF TypeInv
<1>7. HeldInv'
  BY <1>2, <1>5 DEF IInv, HeldInv
<1>8. RequeueInv'
  BY <1>2 DEF RequeueInv
<1>9. PauseInv' /\ PausedHoldsNoKv'
  BY <1>2, MidStep
<1> QED BY <1>6, <1>7, <1>8, <1>9 DEF IInv

LEMMA PrefillStopIInv ==
  ASSUME IInv, ~Unified, PrefillStop
  PROVE  IInv'
<1>1. /\ loop = "prefill" /\ loop' \in {"dispatch", "decode"} /\ pause_state' = pause_state
      /\ request_queue' = request_queue /\ running' = running
      /\ decode_queue' = decode_queue /\ gen' = gen
  BY DEF PrefillStop, pausing
<1>2. prefill_queue' \subseteq prefill_queue
  BY DEF PrefillStop
<1>3. /\ held' \in [Requests -> Int]
      /\ \A q \in Requests : held'[q] = held[q] \/ held'[q] = 0
  <2>1. held' = held \/ held' = [held EXCEPT ![Min(prefill_queue)] = 0]
    BY DEF PrefillStop, Answer
  <2> QED BY <2>1 DEF IInv, TypeInv
<1>4. TypeInv'
  BY <1>1, <1>2, <1>3 DEF IInv, TypeInv
<1>5. HeldInv'
  BY <1>1, <1>3 DEF IInv, HeldInv
<1>6. RequeueInv'
  BY <1>1 DEF RequeueInv
<1>7. PauseInv' /\ PausedHoldsNoKv'
  BY <1>1, MidStep
<1> QED BY <1>4, <1>5, <1>6, <1>7 DEF IInv

\* A decode moves a request to the running list; a preempted one gives up its KV.
LEMMA DecodeOneIInv ==
  ASSUME IInv, ~Unified, DecodeOne
  PROVE  IInv'
<1> DEFINE r == Head(decode_queue)
           v == Last(decode_queue)
<1>1. /\ loop = "decode" /\ loop' = loop /\ pause_state' = pause_state
      /\ request_queue' = request_queue /\ gen' = gen
  BY DEF DecodeOne, pausing, looping
<1>2. /\ r \in Requests /\ Tail(decode_queue) \in Seq(Requests)
      /\ ToSet(decode_queue) = {r} \union ToSet(Tail(decode_queue))
      /\ v \in Requests /\ Front(decode_queue) \in Seq(Requests)
      /\ ToSet(decode_queue) = {v} \union ToSet(Front(decode_queue))
  BY TailToSet, FrontToSet DEF DecodeOne, IInv, TypeInv
<1>3. \/ /\ running' = Append(running, r) /\ decode_queue' = Tail(decode_queue)
         /\ prefill_queue' = prefill_queue
         /\ held' = held \/ held' = [held EXCEPT ![r] = Tokens(r)]
      \/ /\ held' = [held EXCEPT ![v] = 0] /\ decode_queue' = Front(decode_queue)
         /\ prefill_queue' = prefill_queue \union {v} /\ running' = running
  BY DEF DecodeOne, Run, RequeuePreempted
<1> HIDE DEF r, v
<1>4. /\ TypeInv /\ running \in Seq(Requests) /\ held \in [Requests -> Int]
      /\ Tokens(r) \in Int /\ prefill_queue \subseteq Requests
  BY <1>2, TokensType DEF IInv, TypeInv
<1>5. /\ running' \in Seq(Requests) /\ decode_queue' \in Seq(Requests)
      /\ prefill_queue' \subseteq Requests /\ held' \in [Requests -> Int]
      /\ \A q \in Requests :
           held'[q] # 0 =>
             /\ held[q] # 0 \/ q \in ToSet(running') \union ToSet(decode_queue')
             /\ q \in ToSet(running) \union ToSet(decode_queue) =>
                  q \in ToSet(running') \union ToSet(decode_queue')
  <2>1. CASE /\ running' = Append(running, r) /\ decode_queue' = Tail(decode_queue)
             /\ prefill_queue' = prefill_queue
             /\ held' = held \/ held' = [held EXCEPT ![r] = Tokens(r)]
    <3>1. running' \in Seq(Requests) /\ ToSet(running') = ToSet(running) \union {r}
      BY <2>1, <1>2, <1>4, AppendToSet
    <3>2. ToSet(decode_queue') \union {r} = ToSet(decode_queue)
      BY <2>1, <1>2
    <3>3. held' \in [Requests -> Int] /\ \A q \in Requests : q = r \/ held'[q] = held[q]
      BY <2>1, <1>2, <1>4
    <3> QED BY <2>1, <3>1, <3>2, <3>3, <1>2, <1>4
  <2>2. CASE /\ held' = [held EXCEPT ![v] = 0] /\ decode_queue' = Front(decode_queue)
             /\ prefill_queue' = prefill_queue \union {v} /\ running' = running
    <3>1. ToSet(decode_queue') \union {v} = ToSet(decode_queue)
      BY <2>2, <1>2
    <3>2. /\ held' \in [Requests -> Int] /\ held'[v] = 0
          /\ \A q \in Requests : q = v \/ held'[q] = held[q]
      BY <2>2, <1>2, <1>4
    <3> QED BY <2>2, <3>1, <3>2, <1>2, <1>4
  <2> QED BY <1>3, <2>1, <2>2
<1>6. TypeInv'
  BY <1>1, <1>4, <1>5 DEF TypeInv
<1>7. HeldInv'
  BY <1>5 DEF IInv, HeldInv
<1>8. RequeueInv'
  BY <1>1 DEF RequeueInv
<1>9. PauseInv' /\ PausedHoldsNoKv'
  BY <1>1, MidStep
<1> QED BY <1>6, <1>7, <1>8, <1>9 DEF IInv

LEMMA DecodeStopIInv ==
  ASSUME IInv, ~Unified, DecodeStop
  PROVE  IInv'
<1>1. /\ loop = "decode" /\ loop' = "dispatch" /\ pause_state' = pause_state
      /\ request_queue' = request_queue /\ running' = running
      /\ prefill_queue' = prefill_queue /\ gen' = gen
  BY DEF DecodeStop, pausing
<1>2. \/ decode_queue' = decode_queue /\ held' = held
      \/ /\ Len(decode_queue) = 1 /\ decode_queue' = <<>>
         /\ held' = [held EXCEPT ![Head(decode_queue)] = 0]
  BY DEF DecodeStop, Answer
<1>3. /\ decode_queue' \in Seq(Requests) /\ held' \in [Requests -> Int]
      /\ \A q \in Requests :
           held'[q] # 0 =>
             held[q] # 0 /\ (q \in ToSet(decode_queue) => q \in ToSet(decode_queue'))
  <2>1. CASE decode_queue' = decode_queue /\ held' = held
    BY <2>1 DEF IInv, TypeInv
  <2>2. CASE /\ Len(decode_queue) = 1 /\ decode_queue' = <<>>
             /\ held' = [held EXCEPT ![Head(decode_queue)] = 0]
    <3>1. decode_queue \in Seq(Requests) /\ held \in [Requests -> Int]
      BY DEF IInv, TypeInv
    <3>2. ToSet(decode_queue) = {Head(decode_queue)}
      <4>1. DOMAIN decode_queue = {1} /\ Head(decode_queue) = decode_queue[1]
        BY <2>2, <3>1
      <4> QED BY <4>1 DEF ToSet
    <3>3. Head(decode_queue) \in Requests /\ decode_queue' \in Seq(Requests)
      <4>1. decode_queue # <<>> /\ <<>> \in Seq(Requests)
        BY <2>2
      <4> QED BY <4>1, <2>2, <3>1, TailToSet
    <3> DEFINE h == Head(decode_queue)
    <3> HIDE DEF h
    <3>4. /\ held' \in [Requests -> Int] /\ held'[h] = 0
          /\ \A q \in Requests : q = h \/ held'[q] = held[q]
      BY <2>2, <3>1, <3>3 DEF h
    <3>5. ToSet(decode_queue) = {h}
      BY <3>2 DEF h
    <3> QED BY <3>3, <3>4, <3>5
  <2> QED BY <1>2, <2>1, <2>2
<1>4. TypeInv'
  BY <1>1, <1>3 DEF IInv, TypeInv
<1>5. HeldInv'
  BY <1>1, <1>3 DEF IInv, HeldInv
<1>6. RequeueInv'
  BY <1>1 DEF RequeueInv
<1>7. PauseInv' /\ PausedHoldsNoKv'
  BY <1>1, MidStep
<1> QED BY <1>4, <1>5, <1>6, <1>7 DEF IInv

LEMMA DispatchIInv ==
  ASSUME IInv, ~Unified, Dispatch
  PROVE  IInv'
<1>1. /\ loop = "dispatch" /\ loop' = "top" /\ pause_state' = pause_state
      /\ request_queue' = request_queue /\ running' = running
      /\ prefill_queue' = prefill_queue /\ decode_queue' = decode_queue /\ held' = held
  BY DEF Dispatch, pausing
<1>2. gen' \in [Requests -> Nat]
  BY DEF Dispatch, Results, IInv, TypeInv
<1>3. TypeInv' /\ HeldInv' /\ RequeueInv'
  BY <1>1, <1>2 DEF IInv, TypeInv, HeldInv, RequeueInv
<1>4. PauseInv' /\ PausedHoldsNoKv'
  BY <1>1, MidStep
<1> QED BY <1>3, <1>4 DEF IInv

\* What the pause goes over holds all the KV there is.
LEMMA PauseStepsIInv ==
  ASSUME IInv, ~Unified, PauseBegin \/ PauseEnd
  PROVE  IInv'
<1>1. CASE PauseBegin
  BY <1>1 DEF PauseBegin, IInv, TypeInv, HeldInv, RequeueInv, PauseInv, PausedHoldsNoKv,
              queues, batch, requests, pausing
<1>2. CASE PauseEnd
  <2>1. /\ loop' = "top" /\ spinning' = spinning /\ ~spinning /\ pause_state' = "PAUSED"
        /\ loop_mode' = loop_mode /\ request_queue' = request_queue
    BY <1>2 DEF PauseEnd, IInv, PauseInv
  <2>2. RequeueInv' /\ PauseInv'
    BY <2>1 DEF RequeueInv, PauseInv
  <2>3. CASE loop_mode = "WAIT"
    <3>1. UNCHANGED <<queues, running, last_batch, held, gen>>
      BY <1>2, <2>3 DEF PauseEnd
    <3> QED BY <2>1, <2>2, <2>3, <3>1 DEF IInv, TypeInv, HeldInv, PausedHoldsNoKv, queues
  <2>4. CASE loop_mode # "WAIT"
    <3>1. /\ held' = [q \in Requests |-> IF q \in ToPreempt THEN 0 ELSE held[q]]
          /\ running' = <<>> /\ decode_queue' = <<>> /\ last_batch' = {}
      BY <1>2, <2>4 DEF PauseEnd
    <3>2. \A q \in Requests : held'[q] = 0
      BY <3>1 DEF IInv, HeldInv, ToPreempt
    <3>3. prefill_queue' \subseteq Requests
      <4>1. ToPreempt \subseteq Requests
        BY DEF ToPreempt, ToSet, IInv, TypeInv
      <4> QED BY <1>2, <2>4, <4>1 DEF PauseEnd, IInv, TypeInv
    <3>4. gen' \in [Requests -> Nat]
      BY <1>2, <2>4 DEF PauseEnd, Results, IInv, TypeInv
    <3>5. held' \in [Requests -> Int]
      BY <3>1 DEF IInv, TypeInv
    <3>6. TypeInv'
      BY <2>1, <3>1, <3>3, <3>4, <3>5 DEF IInv, TypeInv
    <3> QED BY <2>2, <3>1, <3>2, <3>6 DEF IInv, HeldInv, PausedHoldsNoKv
  <2> QED BY <2>3, <2>4
<1> QED BY <1>1, <1>2

LEMMA NextIInv ==
  ASSUME IInv, ~Unified, [Next]_vars
  PROVE  IInv'
<1>1. CASE \E r \in Requests : \/ Reserve(r) \/ Admit(r) \/ PrefetchDone(r)
                               \/ PrefetchRelease(r) \/ Disconnect(r)
  BY <1>1, AdmissionIInv
<1>2. CASE (\E m \in Modes : Pause(m)) \/ Resume
  BY <1>2, PauseCallsIInv
<1>3. CASE Loop
  <2>1. ~UnifiedOne /\ ~UnifiedStop
    BY DEF UnifiedOne, UnifiedStop, IInv, TypeInv
  <2> QED
    BY <1>3, <2>1, CollectIInv, RequeueOneIInv, RequeueStopIInv, PrefillOneIInv,
       PrefillStopIInv, DecodeOneIInv, DecodeStopIInv, DispatchIInv, PauseStepsIInv
       DEF Loop
<1>4. CASE UNCHANGED vars
  BY <1>4, CoreStutters
     DEF vars, core, admission, queues, batch, requests, pausing, looping
<1> QED BY <1>1, <1>2, <1>3, <1>4 DEF Next

\* Under the prefill-first policy, when a KEEP or ABORT pause is complete
\* (pause_state_ = PAUSED after try_complete_pause) no request holds KV and no
\* batch is in flight, until resume(): preempting or aborting the running list
\* and the decode queue reaches every request that has blocks, at whatever
\* point of a step, of an admission or of another pause() the pause came.
THEOREM PausedSchedulerHoldsNoKv ==
  ASSUME ~Unified
  PROVE  SafeSpec => []PausedHoldsNoKv
<1>1. Init => IInv
  BY InitIInv
<1>2. IInv /\ [Next]_vars => IInv'
  BY NextIInv
<1>3. IInv => PausedHoldsNoKv
  BY DEF IInv
<1> QED BY <1>1, <1>2, <1>3, PTL DEF SafeSpec
-----------------------------------------------------------------------------
(* Admission: the queue has room for everyone who was let in.  The pending *)
(* requests and the queued ones stand in the order of their reservations:  *)
(* a request was let in only if those before it left room, and those       *)
(* before it only become fewer.                                            *)

\* prefetching_requests_ counts these.
Active == {r \in Requests : stage[r] \in {"reserved", "prefetch", "wrote"}}
Queued == ToSet(request_queue)
LetIn  == {r \in Requests : stage[r] = "prefetch"} \union Queued

AdmitInv ==
  /\ stage \in [Requests -> {"new", "reserved", "prefetch", "wrote", "in", "rejected"}]
  /\ seen \in [Requests -> Nat] /\ prefetching = Cardinality(Active)
  /\ request_queue \in Seq(Requests)
  /\ \A i, j \in 1 .. Len(request_queue) : request_queue[i] = request_queue[j] => i = j
  /\ \A r \in Queued : stage[r] \in {"wrote", "in"}

\* ord[r] tells when r made its reservation, n is later than all of them.
Before(ord, s) == {x \in Active \union Queued : ord[x] < ord[s]}

Ordered(n, ord) ==
  /\ \A r \in Requests : ord[r] < n
  /\ \A x, y \in Active \union Queued : x # y => ord[x] # ord[y]
  /\ \A s \in Requests :
       stage[s] = "reserved" => Cardinality(Before(ord, s) \intersect Active) <= seen[s]
  /\ \A s \in LetIn : Cardinality(Before(ord, s)) < Capacity

QInv == AdmitInv /\ \E n \in Nat : \E ord \in [Requests -> Nat] : Ordered(n, ord)

LEMMA QueuedType ==
  ASSUME AdmitInv
  PROVE  /\ Queued \subseteq Requests /\ IsFiniteSet(Queued)
         /\ Cardinality(Queued) = Len(request_queue)
         /\ \A i \in 1 .. Len(request_queue) : request_queue[i] \in Queued
<1> DEFINE N == 1 .. Len(request_queue)
<1>1. Len(request_queue) \in Nat /\ DOMAIN request_queue = N
  BY DEF AdmitInv
<1>2. Queued = {request_queue[i] : i \in N}
  BY <1>1 DEF Queued, ToSet
<1>3. request_queue \in [N -> Queued]
  BY <1>1, <1>2 DEF AdmitInv
<1>4. request_queue \in Surjection(N, Queued)
  BY <1>2, <1>3 DEF Surjection
<1>5. request_queue \in Injection(N, Queued)
  BY <1>3 DEF Injection, IsInjective, AdmitInv
<1>6. IsFiniteSet(N) /\ Cardinality(N) = Len(request_queue)
  <2>1. \A k \in Nat : IsFiniteSet(1 .. k) /\ Cardinality(1 .. k) = k
    BY FS_Interval
  <2> QED BY <1>1, <2>1
<1>7. IsFiniteSet(Queued) /\ Cardinality(Queued) = Cardinality(N)
  <2> HIDE DEF N
  <2> QED BY <1>4, <1>5, <1>6, FS_Surjection
<1> QED BY <1>1, <1>2, <1>6, <1>7 DEF AdmitInv

LEMMA Subsets ==
  ASSUME NEW S, NEW T, IsFiniteSet(T), S \subseteq T
  PROVE  IsFiniteSet(S) /\ Cardinality(S) \in Nat /\ Cardinality(T) \in Nat
         /\ Cardinality(S) <= Cardinality(T)
BY FS_Subset, FS_CardinalityType

LEMMA BeforeFinite ==
  ASSUME AdmitInv, NEW ord, NEW s
  PROVE  /\ IsFiniteSet(Active) /\ IsFiniteSet(Before(ord, s))
         /\ Cardinality(Before(ord, s)) \in Nat
         /\ Cardinality(Before(ord, s) \intersect Active) \in Nat
<1>1. IsFiniteSet(Requests) /\ Active \subseteq Requests
  BY SchedulerAssumption DEF Active
<1>2. Before(ord, s) \subseteq Requests
  BY <1>1, QueuedType DEF Before
<1> QED BY <1>1, <1>2, Subsets

\* A step that lets nobody in behind the others' backs.
LEMMA ShrinkOrdered ==
  ASSUME AdmitInv, AdmitInv', NEW n \in Nat, NEW ord \in [Requests -> Nat], Ordered(n, ord),
         Active' \subseteq Active, Queued' \subseteq Queued \union Active,
         \A s \in Requests :
           stage'[s] = "reserved" => stage[s] = "reserved" /\ seen'[s] = seen[s],
         \A s \in LetIn' : s \in LetIn \/ Cardinality(Before(ord, s)) < Capacity
  PROVE  Ordered(n, ord)'
<1>1. ASSUME NEW s PROVE Before(ord, s)' \subseteq Before(ord, s)
  BY DEF Before
<1>2. \A x, y \in (Active \union Queued)' : x # y => ord[x] # ord[y]
  BY DEF Ordered
<1>3. ASSUME NEW s \in Requests, stage'[s] = "reserved"
      PROVE  Cardinality(Before(ord, s)' \intersect Active') <= seen'[s]
  <2>1. stage[s] = "reserved" /\ seen'[s] = seen[s] /\ seen[s] \in Nat
    BY <1>3 DEF AdmitInv
  <2>2. Before(ord, s)' \intersect Active' \subseteq Before(ord, s) \intersect Active
    BY <1>1
  <2>3. IsFiniteSet(Before(ord, s) \intersect Active)
    BY BeforeFinite, Subsets
  <2>4. Cardinality(Before(ord, s) \intersect Active) <= seen[s]
    BY <2>1 DEF Ordered
  <2> QED BY <2>1, <2>2, <2>3, <2>4, Subsets
<1>4. ASSUME NEW s \in LetIn' PROVE Cardinality(Before(ord, s)') < Capacity
  <2>1. Cardinality(Before(ord, s)) < Capacity
    BY DEF Ordered
  <2>2. Cardinality(Before(ord, s)') <= Cardinality(Before(ord, s))
        /\ Cardinality(Before(ord, s)') \in Nat /\ Cardinality(Before(ord, s)) \in Nat
    BY <1>1, BeforeFinite, Subsets
  <2> QED BY <2>1, <2>2, SchedulerAssumption
<1>5. \A r \in Requests : ord[r] < n
  BY DEF Ordered
<1> QED BY <1>2, <1>3, <1>4, <1>5 DEF Ordered
\* add_request takes its place behind all others.
LEMMA ReserveQInv ==
  ASSUME QInv, NEW r \in Requests, Reserve(r)
  PROVE  QInv'
<1>1. PICK n \in Nat : \E ord \in [Requests -> Nat] : Ordered(n, ord)
  BY DEF QInv
<1>2. PICK ord \in [Requests -> Nat] : Ordered(n, ord)
  BY <1>1
<1> DEFINE nxt == [ord EXCEPT ![r] = n]
<1>3. AdmitInv /\ stage[r] = "new" /\ stage' = [stage EXCEPT ![r] = "reserved"]
      /\ seen' = [seen EXCEPT ![r] = prefetching] /\ prefetching' = prefetching + 1
      /\ request_queue' = request_queue /\ Queued' = Queued
  BY DEF QInv, Reserve, Queued
<1>4. Active' = Active \union {r} /\ r \notin Active /\ r \notin Queued /\ Active \subseteq Requests
  BY <1>3 DEF Active, AdmitInv
<1>5. IsFiniteSet(Active) /\ Cardinality(Active) \in Nat
  BY <1>3, BeforeFinite, FS_CardinalityType
<1>6. Cardinality(Active') = Cardinality(Active) + 1
  BY <1>4, <1>5, FS_AddElement
<1>7. AdmitInv'
  BY <1>3, <1>4, <1>5, <1>6 DEF AdmitInv
<1>8. nxt \in [Requests -> Nat] /\ nxt[r] = n
      /\ \A x \in Requests : x # r => nxt[x] = ord[x] /\ ord[x] < n /\ ord[x] \in Nat
  BY <1>2 DEF Ordered
<1>9. Queued \subseteq Requests /\ LetIn' = LetIn /\ LetIn \subseteq Requests \ {r}
  BY <1>3, <1>4, QueuedType DEF LetIn, AdmitInv
<1> HIDE DEF nxt
<1>10. ASSUME NEW s \in Requests, s # r
       PROVE  Before(nxt, s)' = Before(ord, s)
  <2>1. ~(nxt[r] < nxt[s]) /\ nxt[s] = ord[s]
    BY <1>8, <1>10
  <2>2. \A x \in (Active \union Queued) : nxt[x] = ord[x]
    BY <1>4, <1>8, <1>9
  <2> QED BY <1>3, <1>4, <2>1, <2>2 DEF Before
<1>11. ASSUME NEW s \in Requests, stage'[s] = "reserved"
       PROVE  Cardinality(Before(nxt, s)' \intersect Active') <= seen'[s]
  <2>1. CASE s = r
    <3>1. ~(nxt[r] < nxt[r])
      BY <1>8
    <3>2. Before(nxt, r)' \intersect Active' \subseteq Active
      BY <1>4, <3>1 DEF Before
    <3>3. seen'[r] = Cardinality(Active)
      BY <1>3 DEF AdmitInv
    <3> QED BY <1>5, <2>1, <3>2, <3>3, Subsets
  <2>2. CASE s # r
    <3>1. stage[s] = "reserved" /\ seen'[s] = seen[s]
      BY <1>3, <1>11, <2>2 DEF AdmitInv
    <3>2. Before(nxt, s)' \intersect Active' = Before(ord, s) \intersect Active
      BY <1>4, <1>10, <2>2 DEF Before
    <3> QED BY <1>2, <3>1, <3>2 DEF Ordered
  <2> QED BY <2>1, <2>2
<1>12. ASSUME NEW s \in LetIn' PROVE Cardinality(Before(nxt, s)') < Capacity
  BY <1>2, <1>9, <1>10 DEF Ordered
<1>13. \A x, y \in (Active \union Queued)' : x # y => nxt[x] # nxt[y]
  <2>1. \A x, y \in Active \union Queued : x # y => nxt[x] # nxt[y]
    BY <1>2, <1>4, <1>8, <1>9 DEF Ordered
  <2>2. \A x \in Active \union Queued : nxt[x] # nxt[r]
    BY <1>4, <1>8, <1>9
  <2> QED BY <1>3, <1>4, <2>1, <2>2
<1>14. \A x \in Requests : nxt[x] < n + 1
  BY <1>8
<1>15. Ordered(n + 1, nxt)'
  BY <1>11, <1>12, <1>13, <1>14 DEF Ordered
<1> QED BY <1>7, <1>8, <1>15 DEF QInv

\* A request is let in when those before it leave room, whatever has been
\* reserved, written or drained since the count was read.
LEMMA AdmitQInv ==
  ASSUME QInv, NEW r \in Requests, Admit(r)
  PROVE  QInv'
<1>1. PICK n \in Nat : \E ord \in [Requests -> Nat] : Ordered(n, ord)
  BY DEF QInv
<1>2. PICK ord \in [Requests -> Nat] : Ordered(n, ord)
  BY <1>1
<1>3. AdmitInv /\ stage[r] = "reserved" /\ seen' = seen
      /\ request_queue' = request_queue /\ Queued' = Queued
  BY DEF QInv, Admit, Queued
<1>4. Queued \subseteq Requests /\ r \notin Queued /\ IsFiniteSet(Queued)
      /\ Cardinality(Queued) = Len(request_queue) /\ Len(request_queue) \in Nat
  BY <1>3, QueuedType DEF AdmitInv
<1>5. r \in Active /\ IsFiniteSet(Active) /\ Cardinality(Active) \in Nat
  BY <1>3, BeforeFinite, FS_CardinalityType DEF Active
<1>6. CASE NoRoom(r)
  <2>1. stage' = [stage EXCEPT ![r] = "rejected"] /\ prefetching' = prefetching - 1
    BY <1>6 DEF Admit
  <2>2. Active' = Active \ {r}
    BY <1>3, <2>1 DEF Active, AdmitInv
  <2>3. Cardinality(Active') = Cardinality(Active) - 1
    BY <1>5, <2>2, FS_RemoveElement
  <2>4. AdmitInv'
    BY <1>3, <1>4, <2>1, <2>3 DEF AdmitInv
  <2>5. LetIn' \subseteq LetIn
    BY <1>3, <2>1 DEF LetIn, AdmitInv
  <2>6. \A s \in Requests : stage'[s] = "reserved" => stage[s] = "reserved" /\ seen'[s] = seen[s]
    BY <1>3, <2>1 DEF AdmitInv
  <2>7. Ordered(n, ord)'
    BY <1>2, <1>3, <2>2, <2>4, <2>5, <2>6, ShrinkOrdered
  <2> QED BY <2>4, <2>7 DEF QInv
<1>7. CASE ~NoRoom(r)
  <2>1. stage' = [stage EXCEPT ![r] = "prefetch"] /\ prefetching' = prefetching
    BY <1>7 DEF Admit
  <2>2. Active' = Active
    BY <1>3, <2>1 DEF Active, AdmitInv
  <2>3. AdmitInv'
    BY <1>3, <1>4, <2>1, <2>2 DEF AdmitInv
  <2>4. LetIn' \subseteq LetIn \union {r}
    BY <1>3, <2>1 DEF LetIn, AdmitInv
  <2>5. \A s \in Requests : stage'[s] = "reserved" => stage[s] = "reserved" /\ seen'[s] = seen[s]
    BY <1>3, <2>1 DEF AdmitInv
  <2>6. Cardinality(Before(ord, r)) < Capacity
    <3> DEFINE A == Before(ord, r) \intersect Active
    <3>1. Before(ord, r) \subseteq A \union Queued
      BY DEF Before
    <3>2. IsFiniteSet(A) /\ Cardinality(A) \in Nat /\ Cardinality(A) <= seen[r] /\ seen[r] \in Nat
      BY <1>2, <1>3, BeforeFinite, Subsets DEF Ordered, AdmitInv
    <3> HIDE DEF A
    <3>3. IsFiniteSet(A \union Queued)
          /\ Cardinality(A \union Queued) =
               Cardinality(A) + Cardinality(Queued) - Cardinality(A \intersect Queued)
      BY <1>4, <3>2, FS_Union
    <3>4. Cardinality(A \intersect Queued) \in Nat
      BY <1>4, Subsets
    <3>5. Cardinality(Before(ord, r)) <= Cardinality(A \union Queued)
          /\ Cardinality(Before(ord, r)) \in Nat
      BY <3>1, <3>3, Subsets
    <3>6. ~(Len(request_queue) + seen[r] >= Capacity) /\ Capacity \in Nat
      BY <1>7, SchedulerAssumption DEF NoRoom
    <3> QED BY <1>4, <3>2, <3>3, <3>4, <3>5, <3>6
  <2>7. Ordered(n, ord)'
    BY <1>2, <1>3, <2>2, <2>3, <2>4, <2>5, <2>6, ShrinkOrdered
  <2> QED BY <2>3, <2>7 DEF QInv
<1> QED BY <1>6, <1>7

\* The prefetch callback writes the request and then uncounts it.
LEMMA CallbackQInv ==
  ASSUME QInv, NEW r \in Requests, PrefetchDone(r) \/ PrefetchRelease(r)
  PROVE  QInv'
<1>1. PICK n \in Nat : \E ord \in [Requests -> Nat] : Ordered(n, ord)
  BY DEF QInv
<1>2. PICK ord \in [Requests -> Nat] : Ordered(n, ord)
  BY <1>1
<1>3. AdmitInv
  BY DEF QInv
<1>4. CASE PrefetchDone(r)
  <2>1. stage[r] = "prefetch" /\ stage' = [stage EXCEPT ![r] = "wrote"] /\ seen' = seen
        /\ request_queue' = Append(request_queue, r) /\ prefetching' = prefetching
    BY <1>4 DEF PrefetchDone
  <2>2. Active' = Active /\ r \in Active
    BY <1>3, <2>1 DEF Active, AdmitInv
  <2>3. request_queue' \in Seq(Requests) /\ Queued' = Queued \union {r} /\ r \notin Queued
    BY <1>3, <2>1, AppendToSet DEF Queued, AdmitInv
  <2>4. \A i, j \in 1 .. Len(request_queue') : request_queue'[i] = request_queue'[j] => i = j
    <3>1. Len(request_queue) \in Nat /\ Len(request_queue') = Len(request_queue) + 1
          /\ request_queue'[Len(request_queue) + 1] = r
      BY <1>3, <2>1 DEF AdmitInv
    <3>2. \A i \in 1 .. Len(request_queue) : request_queue'[i] = request_queue[i]
      BY <1>3, <2>1 DEF AdmitInv
    <3>3. \A i \in 1 .. Len(request_queue) : request_queue[i] # r
      BY <1>3, <2>3, QueuedType
    <3>4. \A i \in 1 .. Len(request_queue') :
            i \in 1 .. Len(request_queue) \/ i = Len(request_queue) + 1
      BY <3>1
    <3>5. \A i, j \in 1 .. Len(request_queue) : request_queue[i] = request_queue[j] => i = j
      BY <1>3 DEF AdmitInv
    <3> QED BY <3>1, <3>2, <3>3, <3>4, <3>5
  <2>5. AdmitInv'
    BY <1>3, <2>1, <2>2, <2>3, <2>4 DEF AdmitInv
  <2>6. LetIn' \subseteq LetIn
    BY <1>3, <2>1, <2>3 DEF LetIn, AdmitInv
  <2>7. \A s \in Requests : stage'[s] = "reserved" => stage[s] = "reserved" /\ seen'[s] = seen[s]
    BY <1>3, <2>1 DEF AdmitInv
  <2>8. Ordered(n, ord)'
    BY <1>2, <1>3, <2>2, <2>3, <2>5, <2>6, <2>7, ShrinkOrdered
  <2> QED BY <2>5, <2>8 DEF QInv
<1>5. CASE PrefetchRelease(r)
  <2>1. stage[r] = "wrote" /\ stage' = [stage EXCEPT ![r] = "in"] /\ seen' = seen
        /\ request_queue' = request_queue /\ prefetching' = prefetching - 1 /\ Queued' = Queued
    BY <1>5 DEF PrefetchRelease, Queued
  <2>2. Active' = Active \ {r} /\ r \in Active
    BY <1>3, <2>1 DEF Active, AdmitInv
  <2>3. Cardinality(Active') = Cardinality(Active) - 1
    BY <1>3, <2>2, BeforeFinite, FS_RemoveElement
  <2>4. AdmitInv'
    BY <1>3, <2>1, <2>3, QueuedType DEF AdmitInv
  <2>5. LetIn' \subseteq LetIn
    BY <1>3, <2>1 DEF LetIn, AdmitInv
  <2>6. \A s \in Requests : stage'[s] = "reserved" => stage[s] = "reserved" /\ seen'[s] = seen[s]
    BY <1>3, <2>1 DEF AdmitInv
  <2>7. Ordered(n, ord)'
    BY <1>2, <1>3, <2>1, <2>2, <2>4, <2>5, <2>6, ShrinkOrdered
  <2> QED BY <2>4, <2>7 DEF QInv
<1> QED BY <1>4, <1>5

\* The loop thread drains the queue, or leaves admission alone.
LEMMA OthersQInv ==
  ASSUME QInv, UNCHANGED admission, request_queue' \in {request_queue, <<>>}
  PROVE  QInv'
<1>1. PICK n \in Nat : \E ord \in [Requests -> Nat] : Ordered(n, ord)
  BY DEF QInv
<1>2. PICK ord \in [Requests -> Nat] : Ordered(n, ord)
  BY <1>1
<1>3. AdmitInv /\ stage' = stage /\ seen' = seen /\ prefetching' = prefetching
  BY DEF QInv, admission
<1>4. Active' = Active /\ Queued' \subseteq Queued /\ Queued' \subseteq Requests
  BY <1>3, QueuedType, EmptyToSet DEF Active, Queued
<1>5. AdmitInv'
  <2>1. CASE request_queue' = request_queue
    BY <1>3, <1>4, <2>1 DEF AdmitInv, Queued
  <2>2. CASE request_queue' = <<>>
    <3>1. Queued' = {} /\ Len(request_queue') = 0 /\ request_queue' \in Seq(Requests)
      BY <2>2, EmptyToSet DEF Queued
    <3> QED BY <1>3, <1>4, <3>1 DEF AdmitInv
  <2> QED BY <2>1, <2>2
<1>6. LetIn' \subseteq LetIn
  BY <1>3, <1>4 DEF LetIn
<1>7. Ordered(n, ord)'
  BY <1>2, <1>3, <1>4, <1>5, <1>6, ShrinkOrdered
<1> QED BY <1>5, <1>7 DEF QInv

LEMMA NextQInv ==
  ASSUME QInv, [Next]_vars
  PROVE  QInv'
<1>1. ASSUME NEW r \in Requests, Reserve(r) PROVE QInv'
  BY <1>1, ReserveQInv
<1>2. ASSUME NEW r \in Requests, Admit(r) PROVE QInv'
  BY <1>2, AdmitQInv
<1>3. ASSUME NEW r \in Requests, PrefetchDone(r) \/ PrefetchRelease(r) PROVE QInv'
  BY <1>3, CallbackQInv
<1>4. ASSUME NEW r \in Requests, Disconnect(r) PROVE QInv'
  BY <1>4, OthersQInv DEF Disconnect
<1>5. CASE Loop
  <2>1. UNCHANGED admission /\ request_queue' \in {request_queue, <<>>}
    BY <1>5 DEF Loop, Collect, RequeueOne, RequeueStop, PrefillOne, PrefillStop,
                DecodeOne, DecodeStop, UnifiedOne, UnifiedStop, Dispatch,
                PauseBegin, PauseEnd
  <2> QED BY <2>1, OthersQInv
<1>6. CASE (\E m \in Modes : Pause(m)) \/ Resume
  BY <1>6, OthersQInv DEF Pause, Resume
<1>7. CASE UNCHANGED vars
  BY <1>7, OthersQInv DEF vars
<1> QED BY <1>1, <1>2, <1>3, <1>4, <1>5, <1>6, <1>7 DEF Next

LEMMA InitQInv == Init => QInv
<1> SUFFICES ASSUME Init PROVE QInv
  OBVIOUS
<1>1. Active = {} /\ Queued = {} /\ LetIn = {}
  BY EmptyToSet DEF Init, Active, Queued, LetIn
<1>2. AdmitInv
  BY <1>1, FS_EmptySet DEF Init, AdmitInv
<1> DEFINE zero == [r \in Requests |-> 0]
<1>3. Ordered(1, zero)
  BY <1>1 DEF Ordered, Init
<1>4. zero \in [Requests -> Nat]
  OBVIOUS
<1> QED BY <1>2, <1>3, <1>4 DEF QInv

\* A set of requests that is not empty has a last one.
LEMMA LastOne ==
  ASSUME NEW n \in Nat, NEW ord \in [Requests -> Nat], \A r \in Requests : ord[r] < n,
         NEW S \in SUBSET Requests, S # {}
  PROVE  \E s \in S : \A x \in S : ord[x] <= ord[s]
<1> DEFINE D == {n - ord[s] : s \in S}
<1>1. D \in SUBSET Nat /\ D # {}
  OBVIOUS
<1>2. \E d \in D : \A e \in D : d <= e
  <2> HIDE DEF D
  <2> QED BY <1>1, LeastElement
<1>3. PICK s \in S : \A e \in D : n - ord[s] <= e
  BY <1>2
<1>4. ASSUME NEW x \in S PROVE ord[x] <= ord[s]
  <2>1. n - ord[s] <= n - ord[x]
    BY <1>3
  <2> QED BY <2>1
<1> QED BY <1>4

\* The request queue has room for every request that was let in, for any
\* capacity and any number of callers, callbacks and drains between the reading
\* of the two counts, under both policies: the blockingWrite of a prefetch
\* callback never blocks (add_request, enqueue_ready_request).
THEOREM CallbacksNeverBlock == SafeSpec => []QueueNeverFull
<1>1. ASSUME QInv PROVE QueueNeverFull
  <2> DEFINE P == {r \in Requests : stage[r] = "prefetch"}
  <2>1. AdmitInv
    BY <1>1 DEF QInv
  <2>2. PICK n \in Nat : \E ord \in [Requests -> Nat] : Ordered(n, ord)
    BY <1>1 DEF QInv
  <2>3. PICK ord \in [Requests -> Nat] : Ordered(n, ord)
    BY <2>2
  <2>4. /\ Queued \subseteq Requests /\ IsFiniteSet(Queued) /\ IsFiniteSet(P)
        /\ Cardinality(Queued) = Len(request_queue) /\ Len(request_queue) \in Nat
        /\ Cardinality(P) \in Nat /\ P \intersect Queued = {} /\ P \subseteq Active
    BY <2>1, QueuedType, Subsets, SchedulerAssumption DEF AdmitInv, Active
  <2>5. IsFiniteSet(LetIn)
        /\ Cardinality(LetIn) = Cardinality(P) + Len(request_queue)
    <3>1. LetIn = P \union Queued
      BY DEF LetIn
    <3> HIDE DEF P
    <3>2. IsFiniteSet(P \union Queued)
          /\ Cardinality(P \union Queued) =
               Cardinality(P) + Cardinality(Queued) - Cardinality(P \intersect Queued)
      BY <2>4, FS_Union
    <3>3. Cardinality(P \intersect Queued) = 0
      BY <2>4, FS_EmptySet
    <3> QED BY <2>4, <3>1, <3>2, <3>3
  <2>6. Cardinality(LetIn) <= Capacity
    <3>1. CASE LetIn = {}
      BY <3>1, FS_EmptySet, SchedulerAssumption
    <3>2. CASE LetIn # {}
      <4>1. LetIn \in SUBSET Requests /\ LetIn \subseteq Active \union Queued
        BY <2>4 DEF LetIn
      <4>2. PICK s \in LetIn : \A x \in LetIn : ord[x] <= ord[s]
        BY <2>3, <3>2, <4>1, LastOne DEF Ordered
      <4>3. \A x \in LetIn \ {s} : ord[x] < ord[s]
        BY <2>3, <4>1, <4>2 DEF Ordered
      <4>4. LetIn \ {s} \subseteq Before(ord, s)
        BY <4>1, <4>3 DEF Before
      <4>5. Cardinality(LetIn \ {s}) = Cardinality(LetIn) - 1 /\ Cardinality(LetIn) \in Nat
        BY <2>5, <4>2, FS_RemoveElement, FS_CardinalityType
      <4>6. Cardinality(LetIn \ {s}) <= Cardinality(Before(ord, s))
            /\ Cardinality(Before(ord, s)) \in Nat
        BY <2>1, <4>4, BeforeFinite, Subsets
      <4>7. Cardinality(Before(ord, s)) < Capacity /\ Capacity \in Nat
        BY <2>3, <4>2, SchedulerAssumption DEF Ordered
      <4> QED BY <4>5, <4>6, <4>7
    <3> QED BY <3>1, <3>2
  <2> QED BY <2>4, <2>5, <2>6 DEF QueueNeverFull
<1> QED BY <1>1, InitQInv, NextQInv, PTL DEF SafeSpec
-----------------------------------------------------------------------------
(* Under the prefill-first policy a request is in one place only.          *)

Decoding == ToSet(decode_queue)
Running  == ToSet(running)

\* Request r is in at most one place, and in one as long as it has neither
\* finished nor been answered.
SpotInv(r) ==
  /\ r \in Queued => r \notin prefill_queue /\ r \notin Decoding /\ r \notin Running
  /\ r \in prefill_queue => r \notin Decoding /\ r \notin Running
  /\ r \in Decoding => r \notin Running
  /\ r \in prefill_queue \/ r \in Decoding \/ r \in Running =>
       stage[r] \in {"wrote", "in"}
  /\ stage[r] \in {"wrote", "in"} /\ r \notin finished /\ ans[r] = "none" =>
       r \in Queued \/ r \in prefill_queue \/ r \in Decoding \/ r \in Running

PlaceInv ==
  /\ IsInjective(running) /\ IsInjective(decode_queue)
  /\ unified_queue = <<>> /\ preempted = <<>>
  /\ ans \in [Requests -> {"none", "done", "failed", "aborted"}]
  /\ loop = "requeue" => \A r \in Running : r \in cancelled => ans[r] # "none"
  /\ \A r \in Requests : SpotInv(r)

UInv == IInv /\ QInv /\ PlaceInv

LEMMA TailInjective ==
  ASSUME NEW S, NEW s \in Seq(S), s # <<>>, IsInjective(s)
  PROVE  IsInjective(Tail(s)) /\ Head(s) \notin ToSet(Tail(s))
<1>1. DOMAIN s = 1 .. Len(s) /\ DOMAIN Tail(s) = 1 .. Len(s) - 1 /\ Len(s) \in Nat \ {0}
      /\ Head(s) = s[1]
  OBVIOUS
<1>2. \A i \in 1 .. Len(s) - 1 : Tail(s)[i] = s[i + 1] /\ i + 1 \in 1 .. Len(s) /\ 1 \in 1 .. Len(s)
  OBVIOUS
<1>3. \A i, j \in 1 .. Len(s) : s[i] = s[j] => i = j
  BY <1>1 DEF IsInjective
<1>4. \A i, j \in 1 .. Len(s) - 1 : Tail(s)[i] = Tail(s)[j] => i = j
  BY <1>2, <1>3
<1>5. \A i \in 1 .. Len(s) - 1 : Tail(s)[i] # s[1]
  BY <1>2, <1>3
<1> QED BY <1>1, <1>4, <1>5 DEF IsInjective, ToSet

LEMMA FrontInjective ==
  ASSUME NEW S, NEW s \in Seq(S), s # <<>>, IsInjective(s)
  PROVE  IsInjective(Front(s)) /\ Last(s) \notin ToSet(Front(s))
<1>1. DOMAIN s = 1 .. Len(s) /\ Len(s) \in Nat \ {0} /\ Last(s) = s[Len(s)]
  BY DEF Last
<1>2. DOMAIN Front(s) = 1 .. Len(s) - 1 /\ \A i \in 1 .. Len(s) - 1 : Front(s)[i] = s[i]
  BY <1>1 DEF Front
<1>3. \A i, j \in 1 .. Len(s) : s[i] = s[j] => i = j
  BY <1>1 DEF IsInjective
<1>4. \A i \in 1 .. Len(s) - 1 : i \in 1 .. Len(s) /\ i # Len(s) /\ Len(s) \in 1 .. Len(s)
  <2>1. \A k \in Nat \ {0} : \A i \in 1 .. k - 1 : i \in 1 .. k /\ i # k /\ k \in 1 .. k
    OBVIOUS
  <2> QED BY <1>1, <2>1
<1>5. \A i, j \in 1 .. Len(s) - 1 : Front(s)[i] = Front(s)[j] => i = j
  BY <1>2, <1>3, <1>4
<1>6. \A i \in 1 .. Len(s) - 1 : Front(s)[i] # s[Len(s)]
  BY <1>2, <1>3, <1>4
<1> QED BY <1>1, <1>2, <1>5, <1>6 DEF IsInjective, ToSet

LEMMA ConcatInjective ==
  ASSUME NEW S, NEW s \in Seq(S), NEW t \in Seq(S), IsInjective(s), IsInjective(t),
         \A x \in ToSet(s) : x \notin ToSet(t)
  PROVE  /\ s \o t \in Seq(S) /\ IsInjective(s \o t)
         /\ ToSet(s \o t) = ToSet(s) \union ToSet(t)
<1> DEFINE m == Len(s)
           k == Len(t)
<1>1. m \in Nat /\ k \in Nat /\ s \o t \in Seq(S) /\ Len(s \o t) = m + k
      /\ DOMAIN s = 1 .. m /\ DOMAIN t = 1 .. k /\ DOMAIN (s \o t) = 1 .. m + k
  OBVIOUS
<1>2. \A i \in 1 .. m : (s \o t)[i] = s[i]
  OBVIOUS
<1>3. \A i \in 1 .. m + k : i \notin 1 .. m =>
        (s \o t)[i] = t[i - m] /\ i - m \in 1 .. k
  BY <1>1
<1>4. \A i \in 1 .. k : (s \o t)[i + m] = t[i] /\ i + m \in 1 .. m + k
  BY <1>1
<1>5. \A i, j \in 1 .. m : s[i] = s[j] => i = j
  BY <1>1 DEF IsInjective
<1>6. \A i, j \in 1 .. k : t[i] = t[j] => i = j
  BY <1>1 DEF IsInjective
<1>7. \A i \in 1 .. m, j \in 1 .. k : s[i] # t[j]
  BY <1>1 DEF ToSet
<1>8. ToSet(s \o t) = {(s \o t)[i] : i \in 1 .. m + k}
      /\ ToSet(s) = {s[i] : i \in 1 .. m} /\ ToSet(t) = {t[i] : i \in 1 .. k}
  BY <1>1 DEF ToSet
<1>11. \A i \in 1 .. m : i \in 1 .. m + k
  BY <1>1
<1>9. ToSet(s \o t) = ToSet(s) \union ToSet(t)
  <2>1. ASSUME NEW i \in 1 .. m + k PROVE (s \o t)[i] \in ToSet(s) \union ToSet(t)
    BY <1>2, <1>3, <1>8
  <2>2. ASSUME NEW i \in 1 .. m PROVE s[i] \in ToSet(s \o t)
    BY <1>2, <1>8, <1>11
  <2>3. ASSUME NEW i \in 1 .. k PROVE t[i] \in ToSet(s \o t)
    <3>1. (s \o t)[i + m] = t[i] /\ i + m \in 1 .. m + k
      BY <1>4
    <3> QED BY <1>8, <3>1
  <2>4. \A x \in ToSet(s \o t) : x \in ToSet(s) \union ToSet(t)
    BY <1>8, <2>1
  <2>5. \A x \in ToSet(s) \union ToSet(t) : x \in ToSet(s \o t)
    BY <1>8, <2>2, <2>3
  <2> QED BY <2>4, <2>5
<1>10. ASSUME NEW i \in 1 .. m + k, NEW j \in 1 .. m + k, (s \o t)[i] = (s \o t)[j]
       PROVE  i = j
  <2>1. CASE i \in 1 .. m /\ j \in 1 .. m
    BY <1>2, <1>5, <1>10, <2>1
  <2>2. CASE i \in 1 .. m /\ j \notin 1 .. m
    BY <1>2, <1>3, <1>7, <1>10, <2>2
  <2>3. CASE i \notin 1 .. m /\ j \in 1 .. m
    BY <1>2, <1>3, <1>7, <1>10, <2>3
  <2>4. CASE i \notin 1 .. m /\ j \notin 1 .. m
    <3>1. i - m = j - m
      BY <1>3, <1>6, <1>10, <2>4
    <3> QED BY <1>1, <3>1
  <2> QED BY <2>1, <2>2, <2>3, <2>4
<1> QED BY <1>1, <1>9, <1>10 DEF IsInjective

LEMMA Singleton ==
  ASSUME NEW S, NEW e \in S
  PROVE  <<e>> \in Seq(S) /\ IsInjective(<<e>>) /\ ToSet(<<e>>) = {e}
BY DEF IsInjective, ToSet

LEMMA ConsInjective ==
  ASSUME NEW S, NEW s \in Seq(S), NEW e \in S, IsInjective(s), e \notin ToSet(s)
  PROVE  IsInjective(<<e>> \o s)
<1>1. <<e>> \in Seq(S) /\ IsInjective(<<e>>) /\ ToSet(<<e>>) = {e}
  BY Singleton
<1> QED BY <1>1, ConcatInjective

LEMMA SnocInjective ==
  ASSUME NEW S, NEW s \in Seq(S), NEW e \in S, IsInjective(s), e \notin ToSet(s)
  PROVE  Append(s, e) = s \o <<e>> /\ IsInjective(s \o <<e>>)
<1>1. Append(s, e) = s \o <<e>>
  OBVIOUS
<1>2. <<e>> \in Seq(S) /\ IsInjective(<<e>>) /\ ToSet(<<e>>) = {e}
  BY Singleton
<1>3. IsInjective(s \o <<e>>)
  BY <1>2, ConcatInjective
<1> QED BY <1>1, <1>3

LEMMA CountOnce ==
  ASSUME NEW S, NEW s \in Seq(S), IsInjective(s), NEW r
  PROVE  Cardinality({i \in DOMAIN s : s[i] = r}) = IF r \in ToSet(s) THEN 1 ELSE 0
<1>1. CASE r \in ToSet(s)
  <2>1. PICK i \in DOMAIN s : s[i] = r
    BY <1>1 DEF ToSet
  <2>2. {j \in DOMAIN s : s[j] = r} = {i}
    BY <2>1 DEF IsInjective
  <2> QED BY <1>1, <2>2, FS_Singleton
<1>2. CASE r \notin ToSet(s)
  <2>1. {j \in DOMAIN s : s[j] = r} = {}
    BY <1>2 DEF ToSet
  <2> QED BY <1>2, <2>1, FS_EmptySet
<1> QED BY <1>1, <1>2
LEMMA PlaceTypes ==
  ASSUME UInv
  PROVE  /\ TypeInv /\ AdmitInv /\ PlaceInv
         /\ Running \subseteq Requests /\ Decoding \subseteq Requests
         /\ Queued \subseteq Requests /\ prefill_queue \subseteq Requests
         /\ \A r \in Requests : SpotInv(r)
<1>1. TypeInv /\ AdmitInv /\ PlaceInv
  BY DEF UInv, IInv, QInv
<1>2. \A s \in Seq(Requests) : ToSet(s) \subseteq Requests
  BY DEF ToSet
<1> QED BY <1>1, <1>2, QueuedType DEF TypeInv, Running, Decoding, PlaceInv

\* A step that moves nothing, and changes at most the stage of a request.
LEMMA AdmissionPlace ==
  ASSUME UInv, NEW r \in Requests,
         Reserve(r) \/ Admit(r) \/ PrefetchDone(r) \/ PrefetchRelease(r) \/ Disconnect(r)
  PROVE  PlaceInv'
<1>1. UNCHANGED <<queues, running, finished, ans, cancelled, loop>>
  BY DEF Reserve, Admit, PrefetchDone, PrefetchRelease, Disconnect, batch, requests, looping
<1>2. Running' = Running /\ Decoding' = Decoding /\ prefill_queue' = prefill_queue
      /\ finished' = finished /\ ans' = ans
  BY <1>1 DEF Running, Decoding, queues
<1>3. ASSUME NEW q \in Requests PROVE SpotInv(q)'
  <2>1. SpotInv(q) /\ AdmitInv
    BY PlaceTypes
  <2>2. CASE Reserve(r) \/ Admit(r) \/ PrefetchRelease(r) \/ Disconnect(r)
    <3>1. Queued' = Queued /\ (stage'[q] \in {"wrote", "in"} <=> stage[q] \in {"wrote", "in"})
      BY <2>1, <2>2 DEF Reserve, Admit, PrefetchRelease, Disconnect, Queued, AdmitInv, admission
    <3> QED BY <1>2, <2>1, <3>1 DEF SpotInv
  <2>3. CASE PrefetchDone(r)
    <3>1. stage[r] = "prefetch" /\ stage' = [stage EXCEPT ![r] = "wrote"]
      BY <2>3 DEF PrefetchDone
    <3>2. Queued' = Queued \union {r}
      BY <2>1, <2>3, AppendToSet DEF PrefetchDone, Queued, AdmitInv
    <3> QED BY <1>2, <2>1, <3>1, <3>2 DEF SpotInv, AdmitInv
  <2> QED BY <2>2, <2>3
<1> QED BY <1>1, <1>2, <1>3, PlaceTypes DEF PlaceInv, queues

\* pause(), resume() and the begin of a pause move nothing.
LEMMA StillPlace ==
  ASSUME UInv, UNCHANGED <<stage, request_queue, queues, running, finished, ans>>,
         loop' # "requeue" \/ UNCHANGED <<cancelled, loop>>
  PROVE  PlaceInv'
<1>1. Running' = Running /\ Decoding' = Decoding /\ prefill_queue' = prefill_queue
      /\ finished' = finished /\ ans' = ans /\ Queued' = Queued /\ stage' = stage
      /\ unified_queue' = unified_queue /\ preempted' = preempted
  BY DEF Running, Decoding, Queued, queues
<1>2. ASSUME NEW q \in Requests PROVE SpotInv(q)'
  BY <1>1, PlaceTypes DEF SpotInv
<1>3. IsInjective(running') /\ IsInjective(decode_queue')
  BY PlaceTypes DEF PlaceInv, queues
<1> QED BY <1>1, <1>2, <1>3, PlaceTypes DEF PlaceInv

LEMMA CollectPlace ==
  ASSUME UInv, ~Unified, Collect
  PROVE  PlaceInv'
<1>1. Running' = Running /\ Decoding' = Decoding /\ running' = running
      /\ decode_queue' = decode_queue /\ finished' = finished /\ stage' = stage
      /\ prefill_queue' = prefill_queue \union Queued /\ Queued' = {}
      /\ unified_queue' = unified_queue /\ preempted' = preempted
  BY EmptyToSet DEF Collect, Running, Decoding, Queued, admission
<1>2. \A q \in Requests :
        /\ ans'[q] \in {ans[q], "done"} /\ (ans'[q] = "none" => ans[q] = "none")
        /\ q \in Running /\ q \in cancelled' => ans'[q] # "none"
  BY DEF Collect, Running
<1>3. ans' \in [Requests -> {"none", "done", "failed", "aborted"}]
  BY PlaceTypes DEF Collect, PlaceInv
<1>4. ASSUME NEW q \in Requests PROVE SpotInv(q)'
  BY <1>1, <1>2, PlaceTypes DEF SpotInv, AdmitInv
<1>5. \A q \in Running' : q \in cancelled' => ans'[q] # "none"
  BY <1>1, <1>2, PlaceTypes
<1> QED BY <1>1, <1>3, <1>4, <1>5, PlaceTypes DEF PlaceInv

\* The running list is put back one by one; what is over has its answer.
LEMMA RequeueOnePlace ==
  ASSUME UInv, ~Unified, RequeueOne
  PROVE  PlaceInv'
<1> DEFINE r == IF Forward THEN Head(running) ELSE Last(running)
           rest == IF Forward THEN Tail(running) ELSE Front(running)
<1>1. running \in Seq(Requests) /\ decode_queue \in Seq(Requests) /\ running # <<>>
      /\ IsInjective(running) /\ IsInjective(decode_queue) /\ loop = "requeue"
  BY PlaceTypes DEF TypeInv, PlaceInv, RequeueOne
<1>2. r \in Requests /\ rest \in Seq(Requests) /\ IsInjective(rest)
      /\ Running = ToSet(rest) \union {r} /\ r \notin ToSet(rest)
  BY <1>1, TailToSet, FrontToSet, TailInjective, FrontInjective DEF Running
<1>3. /\ running' = rest /\ stage' = stage /\ finished' = finished /\ ans' = ans
      /\ prefill_queue' = prefill_queue /\ Queued' = Queued /\ cancelled' = cancelled
      /\ unified_queue' = unified_queue /\ preempted' = preempted /\ loop' = loop
      /\ \/ Over(r) /\ decode_queue' = decode_queue
         \/ ~Over(r) /\ decode_queue' \in {Append(decode_queue, r), <<r>> \o decode_queue}
  BY DEF RequeueOne, Queued, admission, requests, looping
<1> HIDE DEF r, rest
<1>4. Running' = ToSet(rest)
  BY <1>3 DEF Running
<1>5. SpotInv(r) /\ r \in Running
  BY <1>2, PlaceTypes
<1>6. CASE Over(r)
  <2>1. decode_queue' = decode_queue /\ Decoding' = Decoding
    BY <1>3, <1>6 DEF Decoding
  <2>2. r \in finished \/ ans[r] # "none"
    BY <1>1, <1>5, <1>6, PlaceTypes DEF Over, PlaceInv
  <2>3. ASSUME NEW q \in Requests PROVE SpotInv(q)'
    BY <1>2, <1>3, <1>4, <2>1, <2>2, PlaceTypes DEF SpotInv
  <2> QED BY <1>1, <1>2, <1>3, <1>4, <2>1, <2>3, PlaceTypes DEF PlaceInv
<1>7. CASE ~Over(r)
  <2>1. r \notin Decoding
    BY <1>5 DEF SpotInv
  <2>2. Decoding' = Decoding \union {r} /\ IsInjective(decode_queue')
    <3>1. r \notin ToSet(decode_queue)
      BY <2>1 DEF Decoding
    <3>2. CASE decode_queue' = Append(decode_queue, r)
      <4>1. ToSet(decode_queue') = ToSet(decode_queue) \union {r}
        BY <1>1, <1>2, <3>2, AppendToSet
      <4>2. IsInjective(decode_queue')
        <5>1. decode_queue' = decode_queue \o <<r>> /\ IsInjective(decode_queue \o <<r>>)
          BY <1>1, <1>2, <3>1, <3>2, SnocInjective
        <5> QED BY <5>1
      <4> QED BY <4>1, <4>2 DEF Decoding
    <3>3. CASE decode_queue' = <<r>> \o decode_queue
      <4>1. ToSet(<<r>> \o decode_queue) = {r} \union ToSet(decode_queue)
        BY <1>1, <1>2, ConsToSet
      <4>2. IsInjective(<<r>> \o decode_queue)
        BY <1>1, <1>2, <3>1, ConsInjective
      <4> QED BY <3>3, <4>1, <4>2 DEF Decoding
    <3> QED BY <1>3, <1>7, <3>2, <3>3
  <2>3. ASSUME NEW q \in Requests PROVE SpotInv(q)'
    BY <1>2, <1>3, <1>4, <2>2, PlaceTypes DEF SpotInv
  <2> QED BY <1>1, <1>2, <1>3, <1>4, <2>2, <2>3, PlaceTypes DEF PlaceInv
<1> QED BY <1>6, <1>7
LEMMA PrefillOnePlace ==
  ASSUME UInv, ~Unified, PrefillOne
  PROVE  PlaceInv'
<1> DEFINE r == Min(prefill_queue)
<1>1. r \in prefill_queue /\ r \in Requests /\ loop # "requeue" /\ loop' = loop
  BY PlaceTypes, MinIsMember, SchedulerAssumption DEF PrefillOne, PrefillMore, looping
<1>2. /\ prefill_queue' = prefill_queue \ {r} /\ stage' = stage /\ finished' = finished
      /\ Queued' = Queued /\ Decoding' = Decoding /\ decode_queue' = decode_queue
      /\ unified_queue' = unified_queue /\ preempted' = preempted
      /\ \/ ans' = [ans EXCEPT ![r] = IF @ = "none" THEN "done" ELSE @] /\ running' = running
         \/ ans' = ans /\ running' = Append(running, r)
  BY DEF PrefillOne, Answer, Run, Queued, Decoding, admission
<1>3. SpotInv(r) /\ ans \in [Requests -> {"none", "done", "failed", "aborted"}]
      /\ IsInjective(running) /\ running \in Seq(Requests)
  BY <1>1, PlaceTypes DEF PlaceInv, TypeInv
<1> HIDE DEF r
<1>4. CASE running' = running
           /\ ans' = [ans EXCEPT ![r] = IF @ = "none" THEN "done" ELSE @]
  <2>1. Running' = Running
    BY <1>4 DEF Running
  <2>2. ASSUME NEW q \in Requests PROVE SpotInv(q)'
    BY <1>1, <1>2, <1>3, <1>4, <2>1, PlaceTypes DEF SpotInv
  <2>3. ans' \in [Requests -> {"none", "done", "failed", "aborted"}]
    BY <1>1, <1>3, <1>4
  <2> QED BY <1>1, <1>2, <1>3, <1>4, <2>2, <2>3, PlaceTypes DEF PlaceInv
<1>5. CASE ans' = ans /\ running' = Append(running, r)
  <2>1. r \notin Running
    BY <1>1, <1>3 DEF SpotInv
  <2>2. Running' = Running \union {r} /\ IsInjective(running')
    <3>1. ToSet(running') = ToSet(running) \union {r}
      BY <1>1, <1>3, <1>5, AppendToSet
    <3>2. r \notin ToSet(running)
      BY <2>1 DEF Running
    <3>3. IsInjective(running')
      <4>1. running' = running \o <<r>> /\ IsInjective(running \o <<r>>)
        BY <1>1, <1>3, <1>5, <3>2, SnocInjective
      <4> QED BY <4>1
    <3> QED BY <3>1, <3>3 DEF Running
  <2>3. ASSUME NEW q \in Requests PROVE SpotInv(q)'
    BY <1>1, <1>2, <1>5, <2>2, PlaceTypes DEF SpotInv
  <2> QED BY <1>1, <1>2, <1>3, <1>5, <2>2, <2>3, PlaceTypes DEF PlaceInv
<1> QED BY <1>2, <1>4, <1>5

LEMMA PrefillStopPlace ==
  ASSUME UInv, ~Unified, PrefillStop
  PROVE  PlaceInv'
<1>1. /\ stage' = stage /\ finished' = finished /\ Queued' = Queued /\ Decoding' = Decoding
      /\ decode_queue' = decode_queue /\ running' = running /\ Running' = Running
      /\ unified_queue' = unified_queue /\ preempted' = preempted /\ loop' # "requeue"
  BY DEF PrefillStop, Queued, Decoding, Running, admission
<1>2. CASE prefill_queue' = prefill_queue /\ ans' = ans
  <2>1. ASSUME NEW q \in Requests PROVE SpotInv(q)'
    BY <1>1, <1>2, PlaceTypes DEF SpotInv
  <2> QED BY <1>1, <1>2, <2>1, PlaceTypes DEF PlaceInv
<1>3. CASE /\ prefill_queue # {} /\ prefill_queue' = prefill_queue \ {Min(prefill_queue)}
           /\ ans' = [ans EXCEPT ![Min(prefill_queue)] = IF @ = "none" THEN "failed" ELSE @]
  <2> DEFINE r == Min(prefill_queue)
  <2>1. r \in Requests
    BY <1>3, PlaceTypes, MinIsMember, SchedulerAssumption
  <2>2. prefill_queue' = prefill_queue \ {r}
        /\ ans' = [ans EXCEPT ![r] = IF @ = "none" THEN "failed" ELSE @]
        /\ ans \in [Requests -> {"none", "done", "failed", "aborted"}]
    BY <1>3, PlaceTypes DEF PlaceInv
  <2> HIDE DEF r
  <2>3. ASSUME NEW q \in Requests PROVE SpotInv(q)'
    BY <1>1, <2>1, <2>2, PlaceTypes DEF SpotInv
  <2>4. ans' \in [Requests -> {"none", "done", "failed", "aborted"}]
    BY <2>1, <2>2
  <2> QED BY <1>1, <2>3, <2>4, PlaceTypes DEF PlaceInv
<1> QED BY <1>2, <1>3 DEF PrefillStop, Answer

LEMMA DecodeOnePlace ==
  ASSUME UInv, ~Unified, DecodeOne
  PROVE  PlaceInv'
<1> DEFINE r == Head(decode_queue)
           v == Last(decode_queue)
<1>1. /\ stage' = stage /\ finished' = finished /\ Queued' = Queued
      /\ unified_queue' = unified_queue /\ preempted' = preempted
      /\ loop' # "requeue" /\ ans' = ans /\ decode_queue # <<>>
  BY DEF DecodeOne, Run, Queued, admission, looping
<1>2. decode_queue \in Seq(Requests) /\ running \in Seq(Requests)
      /\ IsInjective(running) /\ IsInjective(decode_queue)
  BY PlaceTypes DEF PlaceInv, TypeInv
<1>3. \/ /\ running' = Append(running, r) /\ decode_queue' = Tail(decode_queue)
         /\ prefill_queue' = prefill_queue
      \/ /\ running' = running /\ decode_queue' = Front(decode_queue)
         /\ prefill_queue' = prefill_queue \union {v}
  BY DEF DecodeOne, Run, RequeuePreempted
<1>4. /\ r \in Requests /\ Decoding = ToSet(Tail(decode_queue)) \union {r}
      /\ r \notin ToSet(Tail(decode_queue)) /\ IsInjective(Tail(decode_queue))
  BY <1>1, <1>2, TailToSet, TailInjective DEF Decoding
<1>5. /\ v \in Requests /\ Decoding = ToSet(Front(decode_queue)) \union {v}
      /\ v \notin ToSet(Front(decode_queue)) /\ IsInjective(Front(decode_queue))
  BY <1>1, <1>2, FrontToSet, FrontInjective DEF Decoding
<1> HIDE DEF r, v
<1>6. CASE /\ running' = Append(running, r) /\ decode_queue' = Tail(decode_queue)
           /\ prefill_queue' = prefill_queue
  <2>1. Decoding' = Decoding \ {r} /\ r \notin Running
    BY <1>4, <1>6, PlaceTypes DEF Decoding, SpotInv
  <2>2. Running' = Running \union {r} /\ IsInjective(running')
    <3>1. ToSet(running') = ToSet(running) \union {r}
      BY <1>2, <1>4, <1>6, AppendToSet
    <3>2. r \notin ToSet(running)
      BY <2>1 DEF Running
    <3>3. IsInjective(running')
      <4>1. running' = running \o <<r>> /\ IsInjective(running \o <<r>>)
        BY <1>2, <1>4, <1>6, <3>2, SnocInjective
      <4> QED BY <4>1
    <3> QED BY <3>1, <3>3 DEF Running
  <2>3. ASSUME NEW q \in Requests PROVE SpotInv(q)'
    BY <1>1, <1>4, <1>6, <2>1, <2>2, PlaceTypes DEF SpotInv
  <2> QED BY <1>1, <1>4, <1>6, <2>2, <2>3, PlaceTypes DEF PlaceInv
<1>7. CASE /\ running' = running /\ decode_queue' = Front(decode_queue)
           /\ prefill_queue' = prefill_queue \union {v}
  <2>1. Decoding' = Decoding \ {v} /\ Running' = Running
    BY <1>5, <1>7 DEF Decoding, Running
  <2>2. ASSUME NEW q \in Requests PROVE SpotInv(q)'
    BY <1>1, <1>5, <1>7, <2>1, PlaceTypes DEF SpotInv
  <2> QED BY <1>1, <1>2, <1>5, <1>7, <2>2, PlaceTypes DEF PlaceInv
<1> QED BY <1>3, <1>6, <1>7

LEMMA DecodeStopPlace ==
  ASSUME UInv, ~Unified, DecodeStop
  PROVE  PlaceInv'
<1> DEFINE r == Head(decode_queue)
<1>1. /\ stage' = stage /\ finished' = finished /\ Queued' = Queued /\ running' = running
      /\ prefill_queue' = prefill_queue /\ unified_queue' = unified_queue
      /\ preempted' = preempted /\ loop' # "requeue" /\ Running' = Running
  BY DEF DecodeStop, Queued, Running, admission
<1>2. CASE decode_queue' = decode_queue /\ ans' = ans
  <2>1. Decoding' = Decoding
    BY <1>2 DEF Decoding
  <2>2. ASSUME NEW q \in Requests PROVE SpotInv(q)'
    BY <1>1, <1>2, <2>1, PlaceTypes DEF SpotInv
  <2> QED BY <1>1, <1>2, <2>2, PlaceTypes DEF PlaceInv
<1>3. CASE /\ Len(decode_queue) = 1 /\ decode_queue' = <<>>
           /\ ans' = [ans EXCEPT ![r] = IF @ = "none" THEN "failed" ELSE @]
  <2>1. decode_queue \in Seq(Requests) /\ ans \in [Requests -> {"none", "done", "failed", "aborted"}]
    BY PlaceTypes DEF TypeInv, PlaceInv
  <2>2. Decoding = {r} /\ r \in Requests
    <3>1. DOMAIN decode_queue = {1} /\ r = decode_queue[1]
      BY <1>3, <2>1
    <3>2. Decoding = {decode_queue[i] : i \in {1}} /\ decode_queue[1] \in Requests
      BY <2>1, <3>1 DEF Decoding, ToSet
    <3> QED BY <3>1, <3>2
  <2>3. Decoding' = {} /\ IsInjective(decode_queue')
    BY <1>3, EmptyToSet DEF Decoding, IsInjective
  <2> HIDE DEF r
  <2>4. ans' \in [Requests -> {"none", "done", "failed", "aborted"}]
    BY <1>3, <2>1, <2>2
  <2>5. ASSUME NEW q \in Requests PROVE SpotInv(q)'
    BY <1>1, <1>3, <2>1, <2>2, <2>3, PlaceTypes DEF SpotInv
  <2> QED BY <1>1, <2>3, <2>4, <2>5, PlaceTypes DEF PlaceInv
<1> QED BY <1>2, <1>3 DEF DecodeStop, Answer

LEMMA DispatchPlace ==
  ASSUME UInv, Dispatch
  PROVE  PlaceInv'
<1>1. /\ stage' = stage /\ Queued' = Queued /\ running' = running /\ Running' = Running
      /\ prefill_queue' = prefill_queue /\ unified_queue' = unified_queue /\ ans' = ans
      /\ decode_queue' = decode_queue /\ Decoding' = Decoding
      /\ preempted' = preempted /\ loop' # "requeue"
  BY DEF Dispatch, Queued, Running, Decoding, admission
<1>2. finished \subseteq finished'
  BY DEF Dispatch, Results
<1>3. ASSUME NEW q \in Requests PROVE SpotInv(q)'
  BY <1>1, <1>2, PlaceTypes DEF SpotInv
<1> QED BY <1>1, <1>3, PlaceTypes DEF PlaceInv

\* A pause moves what is not finished to the prefill queue, or answers it.
LEMMA PauseEndPlace ==
  ASSUME UInv, ~Unified, PauseEnd
  PROVE  PlaceInv'
<1>1. stage' = stage /\ request_queue' = request_queue /\ Queued' = Queued /\ loop' # "requeue"
  BY DEF PauseEnd, Queued, admission
<1>2. CASE loop_mode = "WAIT"
  <2>1. UNCHANGED <<queues, running, finished, ans>>
    BY <1>2 DEF PauseEnd
  <2> QED BY <1>1, <2>1, StillPlace
<1>3. CASE loop_mode # "WAIT"
  <2>1. /\ running' = <<>> /\ decode_queue' = <<>> /\ unified_queue' = unified_queue
        /\ preempted' = preempted /\ finished \subseteq finished'
        /\ Running' = {} /\ Decoding' = {}
    BY <1>3, EmptyToSet DEF PauseEnd, Results, Running, Decoding
  <2> DEFINE left == (Running \union Decoding) \ finished'
  <2>2. \/ prefill_queue' = prefill_queue \union left /\ ans' = ans
        \/ /\ prefill_queue' = prefill_queue
           /\ ans' = [r \in Requests |-> IF r \in left THEN "aborted" ELSE ans[r]]
    BY <1>3 DEF PauseEnd, ToPreempt, Running, Decoding
  <2>3. ans' \in [Requests -> {"none", "done", "failed", "aborted"}]
    BY <2>2, PlaceTypes DEF PlaceInv
  <2>4. ASSUME NEW q \in Requests PROVE SpotInv(q)'
    <3>1. SpotInv(q)
      BY PlaceTypes
    <3>2. CASE prefill_queue' = prefill_queue \union left /\ ans' = ans
      BY <1>1, <2>1, <3>1, <3>2 DEF SpotInv
    <3>3. CASE /\ prefill_queue' = prefill_queue
               /\ ans' = [r \in Requests |-> IF r \in left THEN "aborted" ELSE ans[r]]
      BY <1>1, <2>1, <3>1, <3>3 DEF SpotInv
    <3> QED BY <2>2, <3>2, <3>3
  <2>5. IsInjective(<<>>)
    BY DEF IsInjective
  <2> QED BY <1>1, <2>1, <2>3, <2>4, <2>5, PlaceTypes DEF PlaceInv
<1> QED BY <1>2, <1>3

LEMMA NextUInv ==
  ASSUME UInv, ~Unified, [Next]_vars
  PROVE  UInv'
<1>1. IInv' /\ QInv'
  BY NextIInv, NextQInv DEF UInv
<1>2. CASE \E r \in Requests : \/ Reserve(r) \/ Admit(r) \/ PrefetchDone(r)
                               \/ PrefetchRelease(r) \/ Disconnect(r)
  BY <1>1, <1>2, AdmissionPlace DEF UInv
<1>3. CASE (\E m \in Modes : Pause(m)) \/ Resume \/ PauseBegin \/ UNCHANGED vars
  <2>1. UNCHANGED <<stage, request_queue, queues, running, finished, ans>>
        /\ (loop' # "requeue" \/ UNCHANGED <<cancelled, loop>>)
    BY <1>3 DEF Pause, Resume, PauseBegin, vars, admission, batch, requests, looping
  <2> QED BY <1>1, <2>1, StillPlace DEF UInv
<1>4. CASE RequeueStop
  <2>1. UNCHANGED <<stage, request_queue, queues, running, finished, ans>> /\ loop' # "requeue"
    BY <1>4 DEF RequeueStop, admission, queues, requests
  <2> QED BY <1>1, <2>1, StillPlace DEF UInv
<1>5. CASE Collect \/ RequeueOne \/ PrefillOne \/ PrefillStop \/ DecodeOne \/ DecodeStop
           \/ Dispatch \/ PauseEnd
  BY <1>1, <1>5, CollectPlace, RequeueOnePlace, PrefillOnePlace, PrefillStopPlace,
     DecodeOnePlace, DecodeStopPlace, DispatchPlace, PauseEndPlace DEF UInv
<1>6. ~UnifiedOne /\ ~UnifiedStop
  BY PlaceTypes DEF UnifiedOne, UnifiedStop, TypeInv
<1> QED BY <1>2, <1>3, <1>4, <1>5, <1>6 DEF Next, Loop

LEMMA InitUInv == Init => UInv
<1> SUFFICES ASSUME Init PROVE UInv
  OBVIOUS
<1>1. Running = {} /\ Decoding = {} /\ Queued = {} /\ IsInjective(<<>>)
  BY EmptyToSet DEF Init, Running, Decoding, Queued, IsInjective
<1>2. PlaceInv
  BY <1>1 DEF Init, PlaceInv, SpotInv
<1> QED BY <1>2, InitIInv, InitQInv DEF UInv

\* Under the prefill-first policy a request that came through the request queue
\* and is neither finished nor answered is in exactly one place and once in it,
\* whatever preemptions, requeues, cancellations and pauses met, with and
\* without overlap (PrefillFirstPolicy::schedule, preempt_all_running_requests).
THEOREM NoRequestIsLost ==
  ASSUME ~Unified
  PROVE  SafeSpec => []UnfinishedIsQueued
<1>1. ASSUME UInv PROVE UnfinishedIsQueued
  <2> SUFFICES ASSUME NEW r \in Requests,
                      stage[r] \in {"wrote", "in"}, r \notin finished, ans[r] = "none"
               PROVE  LET places == request_queue \o decode_queue \o running
                                      \o unified_queue \o preempted
                      IN Cardinality({i \in DOMAIN places : places[i] = r})
                         + Cardinality(prefill_queue \intersect {r}) = 1
    BY DEF UnfinishedIsQueued
  <2> DEFINE qd == request_queue \o decode_queue
             qdr == qd \o running
  <2>1. /\ request_queue \in Seq(Requests) /\ decode_queue \in Seq(Requests)
        /\ running \in Seq(Requests) /\ IsInjective(request_queue)
        /\ IsInjective(decode_queue) /\ IsInjective(running)
        /\ unified_queue = <<>> /\ preempted = <<>>
    <3>1. TypeInv /\ AdmitInv /\ PlaceInv
      BY <1>1, PlaceTypes
    <3>2. DOMAIN request_queue = 1 .. Len(request_queue)
      BY <3>1 DEF TypeInv
    <3>3. IsInjective(request_queue)
      BY <3>1, <3>2 DEF AdmitInv, IsInjective
    <3> QED BY <3>1, <3>3 DEF TypeInv, PlaceInv
  <2>2. \A q \in Requests : SpotInv(q)
    BY <1>1, PlaceTypes
  <2>3. qd \in Seq(Requests) /\ IsInjective(qd) /\ ToSet(qd) = Queued \union Decoding
    <3>1. \A x \in ToSet(request_queue) : x \notin ToSet(decode_queue)
      BY <1>1, <2>2, PlaceTypes DEF SpotInv, Queued, Decoding
    <3> QED BY <2>1, <3>1, ConcatInjective DEF Queued, Decoding
  <2> HIDE DEF qd
  <2>4. qdr \in Seq(Requests) /\ IsInjective(qdr)
        /\ ToSet(qdr) = Queued \union Decoding \union Running
    <3>1. \A x \in ToSet(qd) : x \notin ToSet(running)
      BY <1>1, <2>2, <2>3, PlaceTypes DEF SpotInv, Running
    <3> QED BY <2>1, <2>3, <3>1, ConcatInjective DEF Running
  <2> HIDE DEF qdr
  <2>5. qdr \o <<>> \o <<>> = qdr
    BY <2>4
  <2>6. Cardinality({i \in DOMAIN qdr : qdr[i] = r}) = IF r \in ToSet(qdr) THEN 1 ELSE 0
    BY <2>4, CountOnce
  <2>7. Cardinality(prefill_queue \intersect {r}) = IF r \in prefill_queue THEN 1 ELSE 0
    <3>1. CASE r \in prefill_queue
      <4>1. prefill_queue \intersect {r} = {r}
        BY <3>1
      <4> QED BY <3>1, <4>1, FS_Singleton
    <3>2. CASE r \notin prefill_queue
      <4>1. prefill_queue \intersect {r} = {}
        BY <3>2
      <4> QED BY <3>2, <4>1, FS_EmptySet
    <3> QED BY <3>1, <3>2
  <2>8. r \in prefill_queue <=> r \notin ToSet(qdr)
    BY <2>2, <2>4 DEF SpotInv
  <2>9. Cardinality({i \in DOMAIN qdr : qdr[i] = r})
        + Cardinality(prefill_queue \intersect {r}) = 1
    BY <2>6, <2>7, <2>8
  <2> QED BY <2>1, <2>5, <2>9 DEF qd, qdr
<1> QED BY <1>1, InitUInv, NextUInv, PTL DEF SafeSpec
-----------------------------------------------------------------------------
(* Answers and KV, under the prefill-first policy.                         *)

AnsNone(r) == ans[r] = "none"

\* A request in a queue or in the batch has no answer yet, one with an answer
\* has no KV, and no request has more blocks than tokens.
ServeInv ==
  /\ held \in [Requests -> Nat] /\ (~Overlap => last_batch = {})
  /\ \A r \in Requests :
       /\ r \notin finished => held[r] <= Tokens(r)
       /\ held[r] # 0 => AnsNone(r)
       /\ r \in Queued \/ r \in prefill_queue \/ r \in Decoding => AnsNone(r)
       /\ r \in Running => AnsNone(r) \/ (loop = "requeue" /\ Over(r))
       /\ stage[r] \notin {"wrote", "in"} => AnsNone(r)

SInv == UInv /\ ServeInv

LEMMA BlocksOfOne ==
  ASSUME NEW r, NEW k \in Nat
  PROVE  IsFiniteSet({r} \X (1 .. k)) /\ Cardinality({r} \X (1 .. k)) = k
<1>1. IsFiniteSet(1 .. k) /\ Cardinality(1 .. k) = k
  BY FS_Interval
<1>2. IsFiniteSet({r}) /\ Cardinality({r}) = 1
  BY FS_Singleton
<1> QED BY <1>1, <1>2, FS_Product

LEMMA UsedType ==
  ASSUME held \in [Requests -> Nat]
  PROVE  UsedBlocks \in Nat /\ \A r \in Requests : held[r] <= UsedBlocks
<1> DEFINE B == {{r} \X (1 .. held[r]) : r \in Requests}
           f == [r \in Requests |-> {r} \X (1 .. held[r])]
<1>1. f \in Surjection(Requests, B)
  BY DEF Surjection
<1>2. IsFiniteSet(B)
  <2>1. IsFiniteSet(Requests)
    BY SchedulerAssumption
  <2> HIDE DEF f, B
  <2> QED BY <1>1, <2>1, FS_Surjection
<1>3. \A T \in B : IsFiniteSet(T)
  <2>1. ASSUME NEW r \in Requests PROVE IsFiniteSet({r} \X (1 .. held[r]))
    <3>1. held[r] \in Nat
      OBVIOUS
    <3> QED BY <3>1, BlocksOfOne
  <2> QED BY <2>1
<1>4. IsFiniteSet(UNION B)
  <2> HIDE DEF B
  <2> QED BY <1>2, <1>3, FS_UNION
<1>5. ASSUME NEW r \in Requests PROVE held[r] <= Cardinality(UNION B)
  <2>1. {r} \X (1 .. held[r]) \subseteq UNION B
    OBVIOUS
  <2>2. Cardinality({r} \X (1 .. held[r])) = held[r]
    BY BlocksOfOne
  <2> HIDE DEF B
  <2> QED BY <1>4, <2>1, <2>2, Subsets
<1>6. Cardinality(UNION B) \in Nat
  <2> HIDE DEF B
  <2> QED BY <1>4, FS_CardinalityType
<1> QED BY <1>5, <1>6 DEF UsedBlocks

LEMMA UsedByOne ==
  ASSUME held \in [Requests -> Nat], NEW r \in Requests,
         \A q \in Requests : q # r => held[q] = 0
  PROVE  UsedBlocks = held[r]
<1>1. ASSUME NEW q \in Requests, q # r PROVE {q} \X (1 .. held[q]) = {}
  <2>1. 1 .. held[q] = {}
    BY <1>1
  <2> QED BY <2>1
<1>2. UNION {{q} \X (1 .. held[q]) : q \in Requests} = {r} \X (1 .. held[r])
  BY <1>1
<1>3. Cardinality({r} \X (1 .. held[r])) = held[r]
  <2>1. held[r] \in Nat
    OBVIOUS
  <2> QED BY <2>1, BlocksOfOne
<1> QED BY <1>2, <1>3 DEF UsedBlocks

LEMMA TokensNat ==
  ASSUME UInv
  PROVE  \A r \in Requests : Tokens(r) \in Nat /\ Tokens(r) > 0
BY PlaceTypes, SchedulerAssumption DEF TypeInv, Tokens

LEMMA ServeFacts ==
  ASSUME SInv
  PROVE  /\ UInv /\ ServeInv /\ TypeInv /\ AdmitInv /\ PlaceInv
         /\ held \in [Requests -> Nat]
         /\ ans \in [Requests -> {"none", "done", "failed", "aborted"}]
         /\ Running \subseteq Requests /\ Decoding \subseteq Requests
         /\ Queued \subseteq Requests /\ prefill_queue \subseteq Requests
         /\ \A r \in Requests : held[r] # 0 => r \in Running \/ r \in Decoding
<1>1. UInv /\ ServeInv
  BY DEF SInv
<1>2. HeldInv
  BY <1>1 DEF UInv, IInv
<1> QED BY <1>1, <1>2, PlaceTypes DEF ServeInv, PlaceInv, HeldInv, Running, Decoding
\* RequestService's view of the requests.
Status ==
  [r \in Requests |->
     IF stage[r] \in {"new", "reserved"} THEN "offered"
     ELSE IF stage[r] = "rejected" THEN "rejected"
     ELSE IF ans[r] = "none" THEN "accepted" ELSE ans[r]]

Serves == Service!Next \/ (Status' = Status /\ held' = held)

\* A request that may run gets the blocks it lacks.
LEMMA AllocateServes ==
  ASSUME SInv, NEW r \in Requests, r \notin finished, CanAllocate(r), AnsNone(r),
         stage[r] \in {"wrote", "in"}, stage' = stage, ans' = ans,
         held' = [held EXCEPT ![r] = Tokens(r)]
  PROVE  Serves
<1>1. held \in [Requests -> Nat] /\ Tokens(r) \in Nat /\ held[r] <= Tokens(r)
  BY ServeFacts, TokensNat DEF ServeInv
<1>2. UsedBlocks \in Nat /\ held[r] <= UsedBlocks
  BY <1>1, UsedType
<1>3. Status' = Status /\ Status[r] = "accepted"
  BY DEF Status, AnsNone
<1>4. CASE Tokens(r) = held[r]
  <2>1. held' = held
    BY <1>1, <1>4
  <2> QED BY <1>3, <2>1 DEF Serves
<1>5. CASE Tokens(r) # held[r]
  <2>1. UsedBlocks + Tokens(r) - held[r] <= Blocks /\ Tokens(r) \in held[r] + 1 .. Blocks
    BY <1>1, <1>2, <1>5, SchedulerAssumption DEF CanAllocate
  <2>2. Service!InUse = UsedBlocks
    <3>1. \A S : Service!Cardinality(S) = Cardinality(S)
      BY Zenon DEF Service!Cardinality, Cardinality
    <3> QED BY <3>1 DEF Service!InUse, UsedBlocks
  <2>3. Service!Allocate(r)
    BY <1>3, <2>1, <2>2 DEF Service!Allocate, Status
  <2> QED BY <2>3 DEF Serves, Service!Next
<1> QED BY <1>4, <1>5

\* Requests lose their blocks, and some of them are answered.
LEMMA ReleaseServes ==
  ASSUME SInv, NEW L \in SUBSET Requests, NEW A \in SUBSET L,
         NEW a \in {"done", "failed", "aborted"}, stage' = stage,
         \A r \in L : AnsNone(r) /\ stage[r] \in {"wrote", "in"},
         ans' = [r \in Requests |-> IF r \in A THEN a ELSE ans[r]],
         held' = [r \in Requests |-> IF r \in L THEN 0 ELSE held[r]]
  PROVE  Serves
<1>1. \A r \in L : Status[r] = "accepted"
  BY DEF Status, AnsNone
<1>2. Status' = [r \in Requests |-> IF r \in A THEN a ELSE Status[r]]
  BY DEF Status
<1>3. Service!Release(L, A)
  BY <1>1, <1>2 DEF Service!Release, Status
<1> QED BY <1>3 DEF Serves, Service!Next

LEMMA AdmissionServes ==
  ASSUME SInv, UInv', NEW r \in Requests,
         Reserve(r) \/ Admit(r) \/ PrefetchDone(r) \/ PrefetchRelease(r) \/ Disconnect(r)
  PROVE  ServeInv' /\ Serves
<1>1. UNCHANGED <<queues, batch, requests, loop>>
  BY DEF Reserve, Admit, PrefetchDone, PrefetchRelease, Disconnect, looping
<1>2. Running' = Running /\ Decoding' = Decoding /\ prefill_queue' = prefill_queue
      /\ finished' = finished /\ ans' = ans /\ held' = held /\ last_batch' = last_batch
      /\ gen' = gen /\ loop' = loop /\ cancelled' = cancelled
  BY <1>1 DEF Running, Decoding, queues, batch, requests
<1>3. AdmitInv /\ ServeInv
  BY ServeFacts
<1>4. /\ \A q \in Requests : q # r => stage'[q] = stage[q]
      /\ stage[r] \in {"wrote", "in"} => stage'[r] \in {"wrote", "in"}
      /\ Queued' \subseteq Queued \union {r}
      /\ r \in Queued' /\ r \notin Queued => stage[r] = "prefetch"
  <2>1. CASE PrefetchDone(r)
    <3>1. stage[r] = "prefetch" /\ stage' = [stage EXCEPT ![r] = "wrote"]
      BY <2>1 DEF PrefetchDone
    <3>2. Queued' = Queued \union {r}
      BY <1>3, <2>1, AppendToSet DEF PrefetchDone, Queued, AdmitInv
    <3> QED BY <1>3, <3>1, <3>2 DEF AdmitInv
  <2>2. CASE Reserve(r) \/ Admit(r) \/ PrefetchRelease(r) \/ Disconnect(r)
    BY <1>3, <2>2 DEF Reserve, Admit, PrefetchRelease, Disconnect, admission, AdmitInv, Queued
  <2> QED BY <2>1, <2>2
<1>5. ASSUME NEW q \in Requests PROVE Tokens(q)' = Tokens(q) /\ (Over(q)' <=> Over(q))
  BY <1>2 DEF Tokens, Over
<1>6. ServeInv'
  BY <1>2, <1>3, <1>4, <1>5 DEF ServeInv, AnsNone
<1>7. Serves
  <2>1. CASE Admit(r)
    <3>1. stage[r] = "reserved"
          /\ \E d \in {"rejected", "prefetch"} : stage' = [stage EXCEPT ![r] = d]
      BY <2>1 DEF Admit
    <3>2. PICK d \in {"rejected", "prefetch"} : stage' = [stage EXCEPT ![r] = d]
      BY <3>1
    <3>3. AnsNone(r)
      BY <1>3, <3>1 DEF ServeInv
    <3>4. Status[r] = "offered" /\ Status' =
            [Status EXCEPT ![r] = IF d = "rejected" THEN "rejected" ELSE "accepted"]
      BY <1>2, <1>3, <3>1, <3>2, <3>3 DEF Status, AnsNone, AdmitInv
    <3>5. Service!Decide(r)
      BY <1>2, <3>4 DEF Service!Decide, Status
    <3> QED BY <3>5 DEF Serves, Service!Next
  <2>2. CASE Reserve(r) \/ PrefetchDone(r) \/ PrefetchRelease(r) \/ Disconnect(r)
    <3>1. Status' = Status
      BY <1>2, <1>3, <2>2
         DEF Status, Reserve, PrefetchDone, PrefetchRelease, Disconnect, admission, AdmitInv
    <3> QED BY <1>2, <3>1 DEF Serves
  <2> QED BY <2>1, <2>2
<1> QED BY <1>6, <1>7

\* A step that changes none of what RequestService sees, and moves requests
\* without an answer.
LEMMA QuietServes ==
  ASSUME SInv, UNCHANGED <<stage, ans, held, gen, finished, cancelled, last_batch>>,
         \A r \in Requests :
           /\ r \in Queued' \/ r \in prefill_queue' \/ r \in Decoding' => AnsNone(r)
           /\ r \in Running' => AnsNone(r) \/ (loop' = "requeue" /\ Over(r))
  PROVE  ServeInv' /\ Serves
<1>1. ASSUME NEW q \in Requests
      PROVE  Tokens(q)' = Tokens(q) /\ (Over(q)' <=> Over(q)) /\ (AnsNone(q)' <=> AnsNone(q))
  BY DEF Tokens, Over, AnsNone
<1>2. ServeInv'
  BY <1>1, ServeFacts DEF ServeInv
<1>3. Status' = Status /\ held' = held
  BY DEF Status
<1> QED BY <1>2, <1>3 DEF Serves
LEMMA CollectServes ==
  ASSUME SInv, ~Unified, Collect
  PROVE  ServeInv' /\ Serves
<1> DEFINE gone == cancelled \union {r \in cancel_queue : ans[r] = "none"}
           over == {r \in Running : r \in finished \/ r \in gone}
           L == {r \in over : ans[r] = "none"}
<1>1. /\ Running' = Running /\ Decoding' = Decoding /\ finished' = finished /\ stage' = stage
      /\ prefill_queue' = prefill_queue \union Queued /\ Queued' = {} /\ loop' = "requeue"
      /\ gen' = gen /\ last_batch' = last_batch /\ cancelled' = gone /\ loop = "top"
  BY EmptyToSet DEF Collect, Running, Decoding, Queued, admission
<1>2. /\ ans' = [r \in Requests |-> IF r \in over /\ ans[r] = "none" THEN "done" ELSE ans[r]]
      /\ held' = [r \in Requests |-> IF r \in over THEN 0 ELSE held[r]]
  BY DEF Collect, Running
<1>3. ServeInv /\ over \subseteq Requests /\ PlaceInv
      /\ held \in [Requests -> Nat] /\ ans \in [Requests -> {"none", "done", "failed", "aborted"}]
  BY ServeFacts
<1>4. \A q \in over : AnsNone(q) /\ stage[q] \in {"wrote", "in"}
        /\ q \notin Decoding /\ q \notin Queued /\ q \notin prefill_queue
  BY <1>1, <1>3 DEF ServeInv, PlaceInv, SpotInv
<1>5. L = over /\ ans' = [r \in Requests |-> IF r \in over THEN "done" ELSE ans[r]]
  BY <1>2, <1>4 DEF AnsNone
<1>6. \A q \in Requests : q \in over => Over(q)'
  BY <1>1 DEF Over
<1> HIDE DEF over
<1>7. Serves
  BY <1>1, <1>2, <1>3, <1>4, <1>5, ReleaseServes
<1>8. ASSUME NEW q \in Requests
      PROVE  Tokens(q)' = Tokens(q) /\ held'[q] \in {0, held[q]} /\ held'[q] \in Nat
             /\ Tokens(q) \in Nat
             /\ (q \notin over => (AnsNone(q)' <=> AnsNone(q)) /\ held'[q] = held[q])
             /\ (q \in over => held'[q] = 0)
  BY <1>1, <1>2, <1>3, <1>5, ServeFacts, TokensNat DEF Tokens, AnsNone
<1>9. ServeInv'
  BY <1>1, <1>2, <1>3, <1>4, <1>6, <1>8 DEF ServeInv
<1> QED BY <1>7, <1>9

LEMMA RequeueOneServes ==
  ASSUME SInv, ~Unified, RequeueOne
  PROVE  ServeInv' /\ Serves
<1> DEFINE r == IF Forward THEN Head(running) ELSE Last(running)
           rest == IF Forward THEN Tail(running) ELSE Front(running)
<1>1. running \in Seq(Requests) /\ decode_queue \in Seq(Requests) /\ running # <<>>
      /\ ServeInv /\ TypeInv
  BY ServeFacts DEF TypeInv, RequeueOne
<1>2. r \in Requests /\ Running = ToSet(rest) \union {r}
  BY <1>1, TailToSet, FrontToSet DEF Running
<1>3. /\ running' = rest /\ prefill_queue' = prefill_queue /\ Queued' = Queued
      /\ UNCHANGED <<stage, ans, held, gen, finished, cancelled, last_batch, loop>>
      /\ \/ Over(r) /\ decode_queue' = decode_queue
         \/ ~Over(r) /\ decode_queue' \in {Append(decode_queue, r), <<r>> \o decode_queue}
  BY DEF RequeueOne, Queued, admission, requests, looping
<1> HIDE DEF r, rest
<1>4. Running' \subseteq Running
  BY <1>2, <1>3 DEF Running
<1>5. Decoding' \subseteq Decoding \union {r} /\ (Over(r) => Decoding' = Decoding)
  <2>1. ToSet(Append(decode_queue, r)) = ToSet(decode_queue) \union {r}
    BY <1>1, <1>2, AppendToSet
  <2>2. ToSet(<<r>> \o decode_queue) = {r} \union ToSet(decode_queue)
    BY <1>1, <1>2, ConsToSet
  <2>3. CASE decode_queue' = decode_queue /\ Over(r)
    BY <2>3 DEF Decoding
  <2>4. CASE decode_queue' = Append(decode_queue, r) /\ ~Over(r)
    BY <2>1, <2>4 DEF Decoding
  <2>5. CASE decode_queue' = <<r>> \o decode_queue /\ ~Over(r)
    BY <2>2, <2>5 DEF Decoding
  <2> QED BY <1>3, <2>3, <2>4, <2>5
<1>6. Over(r) \/ AnsNone(r)
  BY <1>1, <1>2 DEF ServeInv
<1> QED BY <1>1, <1>3, <1>4, <1>5, <1>6, QuietServes DEF ServeInv

LEMMA DispatchServes ==
  ASSUME SInv, Dispatch
  PROVE  ServeInv' /\ Serves
<1> DEFINE b == IF Overlap THEN last_batch ELSE Sequenced
<1>1. /\ UNCHANGED <<stage, ans, held, prefill_queue>> /\ loop = "dispatch"
      /\ Queued' = Queued /\ Running' = Running /\ Decoding' = Decoding
      /\ last_batch' = (IF Overlap THEN Sequenced ELSE {})
  BY DEF Dispatch, Queued, Running, Decoding, admission
<1>2. PICK ended \in SUBSET (b \ finished) :
        /\ gen' = [r \in Requests |-> IF r \in b \ finished THEN gen[r] + 1 ELSE gen[r]]
        /\ finished' = finished \union ended
  BY DEF Dispatch, Results
<1>3. ServeInv /\ TypeInv /\ held \in [Requests -> Nat]
  BY ServeFacts
<1>4. ASSUME NEW q \in Requests, q \notin finished'
      PROVE  held[q] <= Tokens(q)'
  <2>1. q \notin finished /\ held[q] <= Tokens(q) /\ held[q] \in Nat /\ gen[q] \in Nat
        /\ Prompt[q] \in Nat
    BY <1>2, <1>3, <1>4, SchedulerAssumption DEF ServeInv, TypeInv
  <2>2. CASE q \in last_batch
    <3>1. Overlap /\ gen'[q] = gen[q] + 1
      BY <1>2, <1>3, <2>1, <2>2 DEF ServeInv
    <3> QED BY <2>1, <2>2, <3>1 DEF Tokens
  <2>3. CASE q \notin last_batch
    <3>1. gen'[q] \in {gen[q], gen[q] + 1}
      BY <1>2
    <3> QED BY <2>1, <2>3, <3>1 DEF Tokens
  <2> QED BY <2>2, <2>3
<1>5. ServeInv'
  BY <1>1, <1>3, <1>4 DEF ServeInv, AnsNone
<1>6. Status' = Status
  BY <1>1 DEF Status
<1> QED BY <1>1, <1>5, <1>6 DEF Serves
\* A queued request gives up its blocks and is answered.
LEMMA AnswerServes ==
  ASSUME SInv, NEW r \in Requests, NEW a \in {"done", "failed", "aborted"},
         AnsNone(r), stage[r] \in {"wrote", "in"}, Answer(r, a),
         UNCHANGED <<stage, gen, finished, cancelled, last_batch>>,
         Queued' \subseteq Queued \ {r}, prefill_queue' \subseteq prefill_queue \ {r},
         Decoding' \subseteq Decoding \ {r}, Running' \subseteq Running \ {r}, loop # "requeue"
  PROVE  ServeInv' /\ Serves
<1>1. /\ ServeInv /\ held \in [Requests -> Nat]
      /\ ans \in [Requests -> {"none", "done", "failed", "aborted"}]
      /\ \A q \in Requests : Tokens(q) \in Nat
  BY ServeFacts, TokensNat
<1>2. /\ ans' = [q \in Requests |-> IF q \in {r} THEN a ELSE ans[q]]
      /\ held' = [q \in Requests |-> IF q \in {r} THEN 0 ELSE held[q]]
  BY <1>1 DEF Answer, AnsNone
<1>3. Serves
  <2>1. {r} \in SUBSET Requests /\ {r} \in SUBSET {r}
        /\ \A q \in {r} : AnsNone(q) /\ stage[q] \in {"wrote", "in"}
    OBVIOUS
  <2> QED BY <1>2, <2>1, ReleaseServes
<1>4. ASSUME NEW q \in Requests
      PROVE  /\ Tokens(q)' = Tokens(q) /\ (q # r => held'[q] = held[q] /\ (AnsNone(q)' <=> AnsNone(q)))
             /\ held'[r] = 0
  BY <1>2 DEF Tokens, AnsNone
<1>5. held' \in [Requests -> Nat]
  BY <1>1, <1>2
<1> QED BY <1>1, <1>3, <1>4, <1>5 DEF ServeInv

\* A queued request is put into the batch.
LEMMA RunServes ==
  ASSUME SInv, NEW r \in Requests, AnsNone(r), stage[r] \in {"wrote", "in"},
         r \notin finished, CanAllocate(r), held' = [held EXCEPT ![r] = Tokens(r)],
         UNCHANGED <<stage, ans, gen, finished, cancelled, last_batch>>,
         Queued' \subseteq Queued, prefill_queue' \subseteq prefill_queue,
         Decoding' \subseteq Decoding, Running' \subseteq Running \union {r}, loop # "requeue"
  PROVE  ServeInv' /\ Serves
<1>1. /\ ServeInv /\ held \in [Requests -> Nat]
      /\ \A q \in Requests : Tokens(q) \in Nat
  BY ServeFacts, TokensNat
<1>2. Serves
  BY AllocateServes
<1>3. ASSUME NEW q \in Requests
      PROVE  /\ Tokens(q)' = Tokens(q) /\ (AnsNone(q)' <=> AnsNone(q))
             /\ held'[q] = IF q = r THEN Tokens(q) ELSE held[q]
  BY <1>1 DEF Tokens, AnsNone
<1>4. held' \in [Requests -> Nat]
  BY <1>1
<1> QED BY <1>1, <1>2, <1>3, <1>4 DEF ServeInv

\* Requests lose their blocks without an answer and wait for a prefill again.
LEMMA PreemptServes ==
  ASSUME SInv, NEW v \in Decoding, held' = [held EXCEPT ![v] = 0],
         UNCHANGED <<stage, ans, gen, finished, cancelled, last_batch>>,
         Queued' \subseteq Queued, prefill_queue' \subseteq prefill_queue \union {v},
         Decoding' \subseteq Decoding, Running' \subseteq Running, loop # "requeue"
  PROVE  ServeInv' /\ Serves
<1>1. /\ ServeInv /\ held \in [Requests -> Nat] /\ v \in Requests
      /\ ans \in [Requests -> {"none", "done", "failed", "aborted"}]
      /\ \A q \in Requests : Tokens(q) \in Nat
  BY ServeFacts, TokensNat
<1>2. AnsNone(v) /\ stage[v] \in {"wrote", "in"}
  BY <1>1, ServeFacts DEF ServeInv, PlaceInv, SpotInv
<1>3. Serves
  <2>1. /\ ans' = [q \in Requests |-> IF q \in {} THEN "done" ELSE ans[q]]
        /\ held' = [q \in Requests |-> IF q \in {v} THEN 0 ELSE held[q]]
    BY <1>1
  <2>2. {v} \in SUBSET Requests /\ {} \in SUBSET {v}
        /\ \A q \in {v} : AnsNone(q) /\ stage[q] \in {"wrote", "in"}
    BY <1>1, <1>2
  <2> QED BY <2>1, <2>2, ReleaseServes
<1>4. ASSUME NEW q \in Requests
      PROVE  /\ Tokens(q)' = Tokens(q) /\ (AnsNone(q)' <=> AnsNone(q))
             /\ held'[q] = IF q = v THEN 0 ELSE held[q]
  BY <1>1 DEF Tokens, AnsNone
<1>5. held' \in [Requests -> Nat]
  BY <1>1
<1> QED BY <1>1, <1>2, <1>3, <1>4, <1>5 DEF ServeInv

LEMMA PrefillOneServes ==
  ASSUME SInv, PrefillOne
  PROVE  ServeInv' /\ Serves
<1> DEFINE r == Min(prefill_queue)
<1>1. r \in prefill_queue /\ r \in Requests /\ loop # "requeue"
  BY ServeFacts, HeadOfQueue DEF PrefillOne, PrefillMore
<1>2. AnsNone(r) /\ SpotInv(r) /\ stage[r] \in {"wrote", "in"} /\ running \in Seq(Requests)
  BY <1>1, ServeFacts DEF ServeInv, PlaceInv, SpotInv, TypeInv
<1>3. /\ UNCHANGED <<stage, gen, finished, cancelled, last_batch>>
      /\ Queued' = Queued /\ Decoding' = Decoding /\ prefill_queue' = prefill_queue \ {r}
      /\ \/ Answer(r, "done") /\ Running' = Running
         \/ /\ ~Over(r) /\ CanAllocate(r) /\ running' = Append(running, r)
            /\ held' = [held EXCEPT ![r] = Tokens(r)] /\ ans' = ans
  BY DEF PrefillOne, Run, Queued, Decoding, Running, admission
<1> HIDE DEF r
<1>4. CASE Answer(r, "done") /\ Running' = Running
  <2>1. r \notin Queued /\ r \notin Decoding /\ r \notin Running
    BY <1>1, <1>2 DEF SpotInv
  <2> QED BY <1>1, <1>2, <1>3, <1>4, <2>1, AnswerServes
<1>5. CASE /\ ~Over(r) /\ CanAllocate(r) /\ running' = Append(running, r)
           /\ held' = [held EXCEPT ![r] = Tokens(r)] /\ ans' = ans
  <2>1. Running' = Running \union {r} /\ r \notin finished
    BY <1>1, <1>2, <1>5, AppendToSet DEF Running, Over
  <2> QED BY <1>1, <1>2, <1>3, <1>5, <2>1, RunServes
<1> QED BY <1>3, <1>4, <1>5

LEMMA PrefillStopServes ==
  ASSUME SInv, PrefillStop
  PROVE  ServeInv' /\ Serves
<1>1. /\ UNCHANGED <<stage, gen, finished, cancelled, last_batch>> /\ loop # "requeue"
      /\ Queued' = Queued /\ Decoding' = Decoding /\ Running' = Running
  BY DEF PrefillStop, Queued, Decoding, Running, admission
<1>2. CASE UNCHANGED <<prefill_queue, ans, held>>
  BY <1>1, <1>2, ServeFacts, QuietServes DEF ServeInv
<1>3. CASE /\ prefill_queue # {} /\ Answer(Min(prefill_queue), "failed")
           /\ prefill_queue' = prefill_queue \ {Min(prefill_queue)}
  <2> DEFINE r == Min(prefill_queue)
  <2>1. r \in prefill_queue /\ r \in Requests
    BY <1>3, ServeFacts, HeadOfQueue
  <2>2. AnsNone(r) /\ SpotInv(r) /\ stage[r] \in {"wrote", "in"}
        /\ r \notin Queued /\ r \notin Decoding /\ r \notin Running
    BY <2>1, ServeFacts DEF ServeInv, PlaceInv, SpotInv
  <2>3. Answer(r, "failed") /\ prefill_queue' = prefill_queue \ {r}
    BY <1>3
  <2> HIDE DEF r
  <2> QED BY <1>1, <2>1, <2>2, <2>3, AnswerServes
<1> QED BY <1>2, <1>3 DEF PrefillStop

LEMMA DecodeOneServes ==
  ASSUME SInv, DecodeOne
  PROVE  ServeInv' /\ Serves
<1> DEFINE r == Head(decode_queue)
           v == Last(decode_queue)
<1>1. /\ UNCHANGED <<stage, gen, finished, cancelled, last_batch>> /\ loop # "requeue"
      /\ Queued' = Queued /\ decode_queue # <<>> /\ ans' = ans
  BY DEF DecodeOne, Run, Queued, admission
<1>2. decode_queue \in Seq(Requests) /\ running \in Seq(Requests)
      /\ ServeInv /\ PlaceInv
  BY ServeFacts DEF TypeInv
<1>3. \/ /\ running' = Append(running, r) /\ decode_queue' = Tail(decode_queue)
         /\ prefill_queue' = prefill_queue
         /\ \/ held' = held
            \/ r \notin finished /\ CanAllocate(r) /\ held' = [held EXCEPT ![r] = Tokens(r)]
      \/ /\ running' = running /\ decode_queue' = Front(decode_queue)
         /\ prefill_queue' = prefill_queue \union {v} /\ held' = [held EXCEPT ![v] = 0]
  BY DEF DecodeOne, Run, RequeuePreempted
<1>4. r \in Requests /\ Decoding = ToSet(Tail(decode_queue)) \union {r}
  BY <1>1, <1>2, TailToSet DEF Decoding
<1>5. v \in Requests /\ Decoding = ToSet(Front(decode_queue)) \union {v}
  BY <1>1, <1>2, FrontToSet DEF Decoding
<1>6. AnsNone(r) /\ stage[r] \in {"wrote", "in"}
  BY <1>2, <1>4 DEF ServeInv, PlaceInv, SpotInv
<1> HIDE DEF r, v
<1>7. CASE /\ running' = Append(running, r) /\ decode_queue' = Tail(decode_queue)
           /\ prefill_queue' = prefill_queue
  <2>1. Running' = Running \union {r} /\ Decoding' \subseteq Decoding
    BY <1>2, <1>4, <1>7, AppendToSet DEF Running, Decoding
  <2>2. CASE held' = held
    BY <1>1, <1>2, <1>6, <1>7, <2>1, <2>2, QuietServes DEF ServeInv
  <2>3. CASE r \notin finished /\ CanAllocate(r) /\ held' = [held EXCEPT ![r] = Tokens(r)]
    BY <1>1, <1>4, <1>6, <1>7, <2>1, <2>3, RunServes
  <2>4. CASE running' = running
    <3>1. Len(running') = Len(running) + 1 /\ Len(running) \in Nat
      BY <1>2, <1>4, <1>7
    <3> QED BY <2>4, <3>1
  <2> QED BY <1>3, <2>2, <2>3, <2>4
<1>8. CASE /\ running' = running /\ decode_queue' = Front(decode_queue)
           /\ prefill_queue' = prefill_queue \union {v} /\ held' = [held EXCEPT ![v] = 0]
  <2>1. Running' = Running /\ Decoding' \subseteq Decoding /\ v \in Decoding
    BY <1>5, <1>8 DEF Running, Decoding
  <2> QED BY <1>1, <1>8, <2>1, PreemptServes
<1> QED BY <1>3, <1>7, <1>8

LEMMA DecodeStopServes ==
  ASSUME SInv, DecodeStop
  PROVE  ServeInv' /\ Serves
<1>1. /\ UNCHANGED <<stage, gen, finished, cancelled, last_batch, prefill_queue>>
      /\ loop # "requeue" /\ Queued' = Queued /\ Running' = Running
  BY DEF DecodeStop, Queued, Running, admission
<1>2. CASE UNCHANGED <<decode_queue, held, ans>>
  <2>1. Decoding' = Decoding
    BY <1>2 DEF Decoding
  <2> QED BY <1>1, <1>2, <2>1, ServeFacts, QuietServes DEF ServeInv
<1>3. CASE /\ Len(decode_queue) = 1 /\ Answer(Head(decode_queue), "failed")
           /\ decode_queue' = <<>>
  <2> DEFINE r == Head(decode_queue)
  <2>1. decode_queue \in Seq(Requests) /\ decode_queue # <<>>
    <3>1. decode_queue \in Seq(Requests)
      BY ServeFacts DEF TypeInv
    <3>2. Len(<<>>) = 0
      OBVIOUS
    <3> QED BY <1>3, <3>1, <3>2
  <2>2. r \in Requests /\ r \in Decoding
    BY <2>1, TailToSet DEF Decoding
  <2>3. AnsNone(r) /\ stage[r] \in {"wrote", "in"}
        /\ r \notin Queued /\ r \notin prefill_queue /\ r \notin Running
    BY <2>2, ServeFacts DEF ServeInv, PlaceInv, SpotInv
  <2>4. Answer(r, "failed") /\ Decoding' = {}
    BY <1>3, EmptyToSet DEF Decoding
  <2> HIDE DEF r
  <2> QED BY <1>1, <2>2, <2>3, <2>4, AnswerServes
<1> QED BY <1>2, <1>3 DEF DecodeStop

LEMMA PauseEndServes ==
  ASSUME SInv, UInv', PauseEnd
  PROVE  ServeInv' /\ Serves
<1>1. stage' = stage /\ Queued' = Queued /\ loop = "pausing"
  BY DEF PauseEnd, Queued, admission
<1>2. /\ ServeInv /\ PlaceInv /\ held \in [Requests -> Nat]
      /\ ans \in [Requests -> {"none", "done", "failed", "aborted"}]
      /\ Running \subseteq Requests /\ Decoding \subseteq Requests
      /\ \A r \in Requests : held[r] # 0 => r \in Running \/ r \in Decoding
  BY ServeFacts
<1>3. CASE loop_mode = "WAIT"
  <2>1. UNCHANGED <<queues, running, last_batch, held, gen, finished, cancelled, ans>>
    BY <1>3 DEF PauseEnd
  <2>2. Running' = Running /\ Decoding' = Decoding /\ prefill_queue' = prefill_queue
    BY <2>1 DEF Running, Decoding, queues
  <2> QED BY <1>1, <1>2, <2>1, <2>2, QuietServes DEF ServeInv
<1>4. CASE loop_mode # "WAIT"
  <2> DEFINE L == Running \union Decoding
             left == L \ finished'
  <2>1. /\ Running' = {} /\ Decoding' = {} /\ last_batch' = {}
        /\ held' = [r \in Requests |-> IF r \in L THEN 0 ELSE held[r]]
        /\ \/ prefill_queue' = prefill_queue \union left /\ ans' = ans
           \/ /\ prefill_queue' = prefill_queue
              /\ ans' = [r \in Requests |-> IF r \in left THEN "aborted" ELSE ans[r]]
    BY <1>4, EmptyToSet DEF PauseEnd, ToPreempt, Running, Decoding
  <2>2. \A r \in L : AnsNone(r) /\ stage[r] \in {"wrote", "in"}
    BY <1>1, <1>2 DEF ServeInv, PlaceInv, SpotInv
  <2>3. left \subseteq L /\ L \subseteq Requests
    BY <1>2
  <2>4. \A r \in Requests : held'[r] = 0 /\ Tokens(r)' \in Nat
    <3>1. gen' \in [Requests -> Nat]
      BY DEF UInv, IInv, TypeInv
    <3>2. \A r \in Requests : Tokens(r)' \in Nat
      BY <3>1, SchedulerAssumption DEF Tokens
    <3> QED BY <1>2, <2>1, <3>2
  <2>5. \A r \in Requests : r \in L \/ r \in Queued \/ r \in prefill_queue => AnsNone(r)
    BY <1>2, <2>2 DEF ServeInv
  <2>6. \A r \in Requests :
          r \in Queued' \/ r \in prefill_queue' => r \notin left \/ ans' = ans
    <3>1. \A r \in L : r \notin Queued /\ r \notin prefill_queue
      BY <1>2, <2>3 DEF PlaceInv, SpotInv
    <3> QED BY <1>1, <2>1, <2>3, <3>1
  <2>7. Serves
    <3>1. \E A \in SUBSET L :
            ans' = [r \in Requests |-> IF r \in A THEN "aborted" ELSE ans[r]]
      <4>1. CASE ans' = ans
        <5>1. ans' = [r \in Requests |-> IF r \in {} THEN "aborted" ELSE ans[r]]
          BY <1>2, <4>1
        <5>2. {} \in SUBSET L
          OBVIOUS
        <5> HIDE DEF L
        <5> QED BY <5>1, <5>2
      <4>2. CASE ans' = [r \in Requests |-> IF r \in left THEN "aborted" ELSE ans[r]]
        BY <2>3, <4>2
      <4> QED BY <2>1, <4>1, <4>2
    <3> HIDE DEF L
    <3>2. PICK A \in SUBSET L :
            ans' = [r \in Requests |-> IF r \in A THEN "aborted" ELSE ans[r]]
      BY <3>1
    <3> QED BY <1>1, <2>1, <2>2, <2>3, <3>2, ReleaseServes
  <2> HIDE DEF L, left
  <2>8. \A r \in Requests : r \notin left \/ ans' = ans => (AnsNone(r)' <=> AnsNone(r))
    BY <1>2, <2>1 DEF AnsNone
  <2>9. /\ \A r \in Requests : stage[r] \notin {"wrote", "in"} => AnsNone(r)'
        /\ held' \in [Requests -> Nat]
    <3>1. \A r \in Requests : stage[r] \notin {"wrote", "in"} => r \notin left /\ AnsNone(r)
      BY <1>2, <2>2, <2>3 DEF ServeInv
    <3> QED BY <1>2, <2>1, <2>8, <3>1
  <2>10. \A r \in Requests : r \in Queued' \/ r \in prefill_queue' => AnsNone(r)'
    <3>1. \A r \in Requests : r \in Queued' \/ r \in prefill_queue' => AnsNone(r)
      BY <1>1, <2>1, <2>3, <2>5
    <3> QED BY <2>6, <2>8, <3>1
  <2> QED BY <1>1, <2>1, <2>4, <2>7, <2>9, <2>10 DEF ServeInv
<1> QED BY <1>3, <1>4

LEMMA NextSInv ==
  ASSUME SInv, ~Unified, [Next]_vars
  PROVE  SInv' /\ Serves
<1>1. UInv'
  BY NextUInv DEF SInv
<1>2. CASE \E r \in Requests : \/ Reserve(r) \/ Admit(r) \/ PrefetchDone(r)
                               \/ PrefetchRelease(r) \/ Disconnect(r)
  BY <1>1, <1>2, AdmissionServes DEF SInv
<1>3. CASE (\E m \in Modes : Pause(m)) \/ Resume \/ PauseBegin \/ RequeueStop \/ UNCHANGED vars
  <2>1. /\ UNCHANGED <<stage, ans, held, gen, finished, cancelled, last_batch>>
        /\ UNCHANGED <<request_queue, prefill_queue, decode_queue, running>>
        /\ loop' = loop \/ loop = "top" \/ running = <<>>
    BY <1>3 DEF Pause, Resume, PauseBegin, RequeueStop, vars, admission, queues, batch,
                requests, looping
  <2>2. Queued' = Queued /\ Decoding' = Decoding /\ Running' = Running
    BY <2>1 DEF Queued, Decoding, Running
  <2>3. loop' = loop \/ loop = "top" \/ Running = {}
    BY <2>1, EmptyToSet DEF Running
  <2>4. ServeInv' /\ Serves
    BY <2>1, <2>2, <2>3, ServeFacts, QuietServes DEF ServeInv
  <2> QED BY <1>1, <2>4 DEF SInv
<1>4. CASE Collect \/ RequeueOne \/ PrefillOne \/ PrefillStop \/ DecodeOne \/ DecodeStop
           \/ Dispatch \/ PauseEnd
  BY <1>1, <1>4, CollectServes, RequeueOneServes, PrefillOneServes, PrefillStopServes,
     DecodeOneServes, DecodeStopServes, DispatchServes, PauseEndServes DEF SInv
<1>5. ~UnifiedOne /\ ~UnifiedStop
  BY ServeFacts DEF UnifiedOne, UnifiedStop, TypeInv
<1> QED BY <1>2, <1>3, <1>4, <1>5 DEF Next, Loop

LEMMA InitSInv == Init => SInv
<1> SUFFICES ASSUME Init PROVE SInv
  OBVIOUS
<1>1. Running = {} /\ Decoding = {} /\ Queued = {}
  BY EmptyToSet DEF Init, Running, Decoding, Queued
<1>2. \A r \in Requests : Tokens(r) \in Nat
  BY SchedulerAssumption DEF Init, Tokens
<1>3. ServeInv
  BY <1>1, <1>2 DEF Init, ServeInv, AnsNone
<1> QED BY <1>3, InitUInv DEF SInv

\* Under the prefill-first policy the scheduler implements RequestService: a
\* request gets one answer and keeps it, none gets KV once it is answered, and
\* the blocks the requests hold together never exceed the device's, whatever
\* preemptions, cancellations, batches in flight and pauses there are.
THEOREM SchedulerImplementsService ==
  ASSUME ~Unified
  PROVE  SafeSpec => ImplementsService
<1>1. Init => Service!Init
  BY DEF Init, Service!Init
<1>2. ASSUME SInv, [Next]_vars PROVE [Service!Next]_(Service!vars)
  BY <1>2, NextSInv DEF Serves, Status, Service!vars
<1>3. ASSUME SInv, [Next]_vars PROVE SInv'
  BY <1>3, NextSInv
<1> QED BY <1>1, <1>2, <1>3, InitSInv, PTL DEF SafeSpec, ImplementsService, Service!Spec

-----------------------------------------------------------------------------
(* Failing for lack of memory, without overlap.                            *)

\* A finished request is never put back, and the batch being put together has
\* none: what is in it will give its blocks back.
FreshInv ==
  /\ \A r \in Decoding : r \notin finished
  /\ loop \in {"prefill", "decode", "dispatch"} => \A r \in Running : r \notin finished

FInv == SInv /\ FreshInv

LEMMA RequeueOneFresh ==
  ASSUME FInv, ~Unified, RequeueOne
  PROVE  FreshInv'
<1> DEFINE r == IF Forward THEN Head(running) ELSE Last(running)
<1>1. SInv /\ FreshInv
  BY DEF FInv
<1>2. running \in Seq(Requests) /\ decode_queue \in Seq(Requests) /\ running # <<>>
  BY <1>1, ServeFacts DEF TypeInv, RequeueOne
<1>3. r \in Requests
  BY <1>2, TailToSet, FrontToSet
<1>4. /\ loop' = "requeue" /\ finished' = finished
      /\ \/ Over(r) /\ decode_queue' = decode_queue
         \/ ~Over(r) /\ decode_queue' \in {Append(decode_queue, r), <<r>> \o decode_queue}
  BY DEF RequeueOne, requests, looping
<1> HIDE DEF r
<1>5. /\ ToSet(Append(decode_queue, r)) = Decoding \union {r}
      /\ ToSet(<<r>> \o decode_queue) = Decoding \union {r}
  BY <1>2, <1>3, AppendToSet, ConsToSet DEF Decoding
<1>6. CASE decode_queue' = decode_queue
  BY <1>1, <1>4, <1>6 DEF FreshInv, Decoding
<1>7. CASE ~Over(r) /\ decode_queue' \in {Append(decode_queue, r), <<r>> \o decode_queue}
  <2>1. Decoding' = Decoding \union {r} /\ r \notin finished
    BY <1>5, <1>7 DEF Decoding, Over
  <2> QED BY <1>1, <1>4, <2>1 DEF FreshInv
<1> QED BY <1>4, <1>6, <1>7

LEMMA PrefillFresh ==
  ASSUME FInv, PrefillOne \/ PrefillStop
  PROVE  FreshInv'
<1> DEFINE r == Min(prefill_queue)
<1>1. SInv /\ FreshInv
  BY DEF FInv
<1>2. running \in Seq(Requests)
  BY <1>1, ServeFacts DEF TypeInv
<1>3. /\ finished' = finished /\ Decoding' = Decoding /\ loop = "prefill"
      /\ \/ running' = running
         \/ prefill_queue # {} /\ ~Over(r) /\ running' = Append(running, r)
  BY DEF PrefillOne, PrefillStop, PrefillMore, Run, Decoding, requests
<1>4. CASE running' = running
  <2>1. Running' = Running
    BY <1>4 DEF Running
  <2> QED BY <1>1, <1>3, <2>1 DEF FreshInv
<1>5. CASE prefill_queue # {} /\ ~Over(r) /\ running' = Append(running, r)
  <2>1. r \in Requests
    BY <1>1, <1>5, ServeFacts, HeadOfQueue
  <2>2. ~Over(r) /\ running' = Append(running, r)
    BY <1>5
  <2> HIDE DEF r
  <2>3. Running' = Running \union {r} /\ r \notin finished
    BY <1>2, <2>1, <2>2, AppendToSet DEF Running, Over
  <2> QED BY <1>1, <1>3, <2>3 DEF FreshInv
<1> QED BY <1>3, <1>4, <1>5

LEMMA DecodeFresh ==
  ASSUME FInv, DecodeOne \/ DecodeStop
  PROVE  FreshInv'
<1> DEFINE r == Head(decode_queue)
<1>1. SInv /\ FreshInv
  BY DEF FInv
<1>2. decode_queue \in Seq(Requests) /\ running \in Seq(Requests)
  BY <1>1, ServeFacts DEF TypeInv
<1>3. CASE DecodeOne
  <2>1. /\ finished' = finished /\ loop = "decode" /\ decode_queue # <<>>
        /\ decode_queue' \in {Tail(decode_queue), Front(decode_queue)}
        /\ running' \in {running, Append(running, r)}
    BY <1>3 DEF DecodeOne, Run
  <2>2. r \in Requests /\ r \in Decoding
    BY <1>2, <2>1, TailToSet DEF Decoding
  <2>3. Decoding' \subseteq Decoding
    <3>1. /\ ToSet(Tail(decode_queue)) \subseteq ToSet(decode_queue)
          /\ ToSet(Front(decode_queue)) \subseteq ToSet(decode_queue)
      BY <1>2, <2>1, TailToSet, FrontToSet
    <3> QED BY <2>1, <3>1 DEF Decoding
  <2> HIDE DEF r
  <2>4. Running' \subseteq Running \union {r}
    <3>1. ToSet(Append(running, r)) = Running \union {r}
      BY <1>2, <2>2, AppendToSet DEF Running
    <3> QED BY <2>1, <3>1 DEF Running
  <2> QED BY <1>1, <2>1, <2>2, <2>3, <2>4 DEF FreshInv
<1>4. CASE DecodeStop
  <2>1. /\ finished' = finished /\ loop = "decode" /\ Running' = Running
        /\ decode_queue' \in {decode_queue, <<>>}
    BY <1>4 DEF DecodeStop, Running
  <2>2. Decoding' \subseteq Decoding
    BY <2>1, EmptyToSet DEF Decoding
  <2> QED BY <1>1, <2>1, <2>2 DEF FreshInv
<1> QED BY <1>3, <1>4

LEMMA NextFInv ==
  ASSUME FInv, ~Unified, ~Overlap, [Next]_vars
  PROVE  FInv'
<1>1. SInv' /\ SInv /\ FreshInv
  BY NextSInv DEF FInv
<1>2. CASE \/ \E r \in Requests : \/ Reserve(r) \/ Admit(r) \/ PrefetchDone(r)
                                  \/ PrefetchRelease(r) \/ Disconnect(r)
           \/ (\E m \in Modes : Pause(m)) \/ Resume \/ PauseBegin \/ RequeueStop
           \/ Collect \/ UNCHANGED vars
  <2>1. /\ UNCHANGED <<decode_queue, running, finished>>
        /\ loop' = loop \/ loop' \in {"pausing", "requeue"} \/ running = <<>>
    BY <1>2 DEF Reserve, Admit, PrefetchDone, PrefetchRelease, Disconnect, Pause, Resume,
                PauseBegin, RequeueStop, Collect, vars, queues, batch, requests, looping
  <2>2. /\ Decoding' = Decoding /\ Running' = Running
        /\ loop' = loop \/ loop' \in {"pausing", "requeue"} \/ Running = {}
    BY <2>1, EmptyToSet DEF Decoding, Running
  <2> QED BY <1>1, <2>1, <2>2 DEF FInv, FreshInv
<1>3. CASE RequeueOne \/ PrefillOne \/ PrefillStop \/ DecodeOne \/ DecodeStop
  BY <1>1, <1>3, RequeueOneFresh, PrefillFresh, DecodeFresh DEF FInv
<1>4. CASE Dispatch
  <2>1. /\ Decoding' = Decoding /\ loop' = "top"
        /\ \E ended \in SUBSET (Sequenced \ finished) : finished' = finished \union ended
    BY <1>4 DEF Dispatch, Results, Decoding
  <2>2. \A r \in Decoding : r \notin Running
    BY <1>1, ServeFacts DEF PlaceInv, SpotInv
  <2> QED BY <1>1, <2>1, <2>2 DEF FInv, FreshInv, Sequenced, Running
<1>5. CASE PauseEnd
  <2>1. loop' = "top" /\ (Decoding' = {} \/ (Decoding' = Decoding /\ finished' = finished))
    BY <1>5, EmptyToSet DEF PauseEnd, Decoding, queues
  <2> QED BY <1>1, <2>1 DEF FInv, FreshInv
<1>6. ~UnifiedOne /\ ~UnifiedStop
  BY <1>1, ServeFacts DEF UnifiedOne, UnifiedStop, TypeInv
<1> QED BY <1>2, <1>3, <1>4, <1>5, <1>6 DEF Next, Loop

LEMMA InitFInv == Init => FInv
<1> SUFFICES ASSUME Init PROVE FInv
  OBVIOUS
<1>1. Running = {} /\ Decoding = {}
  BY EmptyToSet DEF Init, Running, Decoding
<1> QED BY <1>1, InitSInv DEF FInv, FreshInv

\* Who fails has the device to itself.
LEMMA FailedAlone ==
  ASSUME SInv, NEW r \in Requests, \A q \in Requests : q # r => held[q] = 0, ~CanAllocate(r)
  PROVE  Tokens(r) > Blocks
<1>1. held \in [Requests -> Nat] /\ Tokens(r) \in Nat
  BY ServeFacts, TokensNat
<1>2. UsedBlocks = held[r] /\ held[r] \in Nat
  BY <1>1, UsedByOne
<1> QED BY <1>1, <1>2, SchedulerAssumption DEF CanAllocate

LEMMA NothingSequenced ==
  ASSUME FInv, loop \in {"prefill", "decode"}, Sequenced = {}
  PROVE  Running = {} /\ ~Full
<1>1. Running = {}
  BY DEF FInv, FreshInv, Sequenced, Running
<1>2. Cardinality(Sequenced) = 0
  BY FS_EmptySet
<1> QED BY <1>1, <1>2, SchedulerAssumption DEF Full

LEMMA PrefillFailure ==
  ASSUME FInv, PrefillStop, NEW q \in Requests, ans[q] = "none", ans'[q] = "failed"
  PROVE  Tokens(q) > Blocks
<1> DEFINE r == Min(prefill_queue)
<1>1. SInv /\ loop = "prefill"
  BY DEF FInv, PrefillStop
<1>2. /\ prefill_queue # {} /\ Sequenced = {} /\ decode_queue = <<>>
      /\ ans' = [ans EXCEPT ![r] = IF @ = "none" THEN "failed" ELSE @]
      /\ PrefillMore => ~CanAllocate(r)
  BY DEF PrefillStop, NothingFrees, Answer
<1>3. Running = {} /\ ~Full /\ Decoding = {}
  BY <1>1, <1>2, NothingSequenced, EmptyToSet DEF Decoding
<1>4. r \in Requests
  BY <1>1, <1>2, ServeFacts, HeadOfQueue
<1>5. held \in [Requests -> Nat] /\ \A x \in Requests : held[x] = 0
  BY <1>1, <1>3, ServeFacts
<1> HIDE DEF r
<1>6. q = r
  <2>1. ans \in [Requests -> {"none", "done", "failed", "aborted"}]
    BY <1>1, ServeFacts
  <2> QED BY <1>2, <1>4, <2>1
<1>7. UsedBlocks = 0
  BY <1>4, <1>5, UsedByOne
<1>8. PrefillMore
  BY <1>1, <1>2, <1>3, <1>7, SchedulerAssumption DEF PrefillMore
<1> QED BY <1>1, <1>2, <1>4, <1>5, <1>6, <1>8, FailedAlone

LEMMA DecodeFailure ==
  ASSUME FInv, DecodeStop, NEW q \in Requests, ans[q] = "none", ans'[q] = "failed"
  PROVE  Tokens(q) > Blocks
<1> DEFINE r == Head(decode_queue)
<1>1. SInv /\ loop = "decode"
  BY DEF FInv, DecodeStop
<1>2. /\ Len(decode_queue) = 1 /\ Sequenced = {} /\ ~CanAllocate(r)
      /\ ans' = [ans EXCEPT ![r] = IF @ = "none" THEN "failed" ELSE @]
  BY DEF DecodeStop, Answer
<1>3. Running = {}
  BY <1>1, <1>2, NothingSequenced
<1>4. decode_queue \in Seq(Requests)
  BY <1>1, ServeFacts DEF TypeInv
<1>5. Decoding = {r} /\ r \in Requests
  <2>1. DOMAIN decode_queue = {1} /\ r = decode_queue[1]
    BY <1>2, <1>4
  <2>2. Decoding = {decode_queue[i] : i \in {1}} /\ decode_queue[1] \in Requests
    BY <1>4, <2>1 DEF Decoding, ToSet
  <2> QED BY <2>1, <2>2
<1> HIDE DEF r
<1>6. q = r
  <2>1. ans \in [Requests -> {"none", "done", "failed", "aborted"}]
    BY <1>1, ServeFacts
  <2> QED BY <1>2, <1>5, <2>1
<1>7. \A x \in Requests : x # r => held[x] = 0
  BY <1>1, <1>3, <1>5, ServeFacts
<1> QED BY <1>1, <1>2, <1>5, <1>6, <1>7, FailedAlone

\* Under the prefill-first policy without overlap a request is failed for lack
\* of memory only if the whole device is too small for it: when the head of the
\* prefill queue or the last decode is failed no other request has a block
\* (handle_unschedulable_head, handle_abnormal_decode_request).
THEOREM FailedRequestsAreTooBig ==
  ASSUME ~Unified, ~Overlap
  PROVE  SafeSpec => FailsOnlyIfTooBig
<1> DEFINE Fails == \A r \in Requests :
                      ans[r] = "none" /\ ans'[r] = "failed" => Tokens(r) > Blocks
<1>1. ASSUME FInv, [Next]_vars PROVE Fails
  <2> SUFFICES ASSUME NEW q \in Requests, ans[q] = "none", ans'[q] = "failed"
               PROVE  Tokens(q) > Blocks
    OBVIOUS
  <2>1. TypeInv /\ ans \in [Requests -> {"none", "done", "failed", "aborted"}]
    BY <1>1, ServeFacts DEF FInv
  <2>2. CASE PrefillStop
    BY <1>1, <2>2, PrefillFailure
  <2>3. CASE DecodeStop
    BY <1>1, <2>3, DecodeFailure
  <2>4. ~UnifiedOne /\ ~UnifiedStop
    BY <2>1 DEF UnifiedOne, UnifiedStop, TypeInv
  <2>5. CASE Collect \/ PauseEnd
    BY <2>1, <2>5 DEF Collect, PauseEnd
  <2>6. CASE PrefillOne
    <3> DEFINE r == Min(prefill_queue)
    <3>1. ans' \in {ans, [ans EXCEPT ![r] = IF @ = "none" THEN "done" ELSE @]}
      BY <2>6 DEF PrefillOne, Run, Answer
    <3> HIDE DEF r
    <3>2. ans'[q] \in {ans[q], "done"}
      BY <2>1, <3>1
    <3> QED BY <3>2
  <2>7. CASE \/ \E r \in Requests : \/ Reserve(r) \/ Admit(r) \/ PrefetchDone(r)
                                    \/ PrefetchRelease(r) \/ Disconnect(r)
             \/ (\E m \in Modes : Pause(m)) \/ Resume \/ PauseBegin \/ RequeueStop
             \/ RequeueOne \/ DecodeOne \/ Dispatch \/ UNCHANGED vars
    <3>1. ans' = ans
      BY <2>7 DEF Reserve, Admit, PrefetchDone, PrefetchRelease, Disconnect, Pause, Resume,
                  PauseBegin, RequeueStop, RequeueOne, DecodeOne, Run, Dispatch, vars, requests
    <3> QED BY <3>1
  <2> QED BY <1>1, <2>2, <2>3, <2>4, <2>5, <2>6, <2>7 DEF Next, Loop
<1>2. ASSUME FInv, [Next]_vars PROVE FInv'
  BY <1>2, NextFInv
<1>3. Fails => [Fails]_vars
  OBVIOUS
<1> QED BY <1>1, <1>2, <1>3, InitFInv, PTL DEF SafeSpec, FailsOnlyIfTooBig

=============================================================================
