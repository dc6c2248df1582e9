----------------------- MODULE KvPushCompletionProofs -----------------------
(***************************************************************************)
(* Proofs about KvPushCompletion, for a grid of any size and any set of    *)
(* requests.  What has to be known beyond the properties themselves is how *)
(* far the other ranks are when a rank has left a collective, and that a   *)
(* rank that takes part in one has settled its own transfer.               *)
(***************************************************************************)
EXTENDS KvPushCompletion, TLAPS

SettledRank(r) ==
  /\ push[r] # "running"
  /\ \A q \in ids : q \in landed[r] \/ q \in local[r]

\* A rank takes part in collectives exactly when its transfer is settled.
RankInv(r) ==
  /\ coll[r] >= 1 <=> phase[r] \in {"reducing", "returned"}
  /\ phase[r] \in {"reducing", "returned"} => SettledRank(r)
  /\ phase[r] = "reducing" => coll[r] <= LastGather(r)
  /\ phase[r] = "returned" => coll[r] = LastGather(r) + 1

\* What a future that ended says of its requests.
PushInv(r) ==
  /\ push[r] = "none" => ids = {}
  /\ push[r] = "running" => ids # {}
  /\ push[r] = "value" => \A q \in ids : q \in landed[r] \/ q \in bad[r]

\* How far the group of a gather is when one member has left it, and what a
\* bitmap gather has merged by then.
GroupInv(r) ==
  /\ \A g \in 1 .. 4 : coll[r] > g => \A m \in Group(g, r) : coll[m] >= g
  /\ \A g \in {3, 4} : coll[r] > g => \A m \in Group(g, r) : local[m] \subseteq reduced[r]

VerdictInv ==
  verdict.known => phase[Driver] = "returned" /\ verdict.failed = reduced[Driver]

IInv ==
  /\ TypeOK
  /\ \A r \in Ranks : RankInv(r)
  /\ \A r \in Ranks : PushInv(r)
  /\ \A r \in Ranks : GroupInv(r)
  /\ VerdictInv

\* A group is made of ranks.
LEMMA GroupMembers ==
  ASSUME NEW g \in 1 .. 4, NEW r \in Ranks
  PROVE  Group(g, r) \subseteq Ranks
BY DEF Group

\* The invariant holds before the forward pass.
LEMMA InitIInv == Init => IInv
BY DriverAssumption DEF Init, IInv, TypeOK, RankInv, SettledRank, PushInv,
   GroupInv, VerdictInv, NoVerdict, LastGather

\* A transfer that ends, early or late, says of each request whether it landed.
LEMMA PushEndsIInv ==
  ASSUME IInv, NEW r \in Ranks, PushEnds(r)
  PROVE  IInv'
<1>1. TypeOK'
  BY DEF IInv, TypeOK, PushEnds
<1>2. ASSUME NEW m \in Ranks PROVE RankInv(m)'
  BY DEF IInv, TypeOK, PushEnds, RankInv, SettledRank, LastGather
<1>3. ASSUME NEW m \in Ranks PROVE PushInv(m)'
  BY DEF IInv, TypeOK, PushEnds, PushInv
<1>4. ASSUME NEW m \in Ranks PROVE GroupInv(m)'
  BY DEF IInv, PushEnds, GroupInv, Group
<1>5. VerdictInv'
  BY DEF IInv, PushEnds, VerdictInv
<1> QED BY <1>1, <1>2, <1>3, <1>4, <1>5 DEF IInv

\* The steps of wait() that settle nothing yet.
LEMMA PhaseOnlyIInv ==
  ASSUME IInv, NEW r \in Ranks,
         ForwardEnds(r) \/ WaitTimeout(r) \/ DrainTimeout(r)
  PROVE  IInv'
<1>0. /\ \E ph \in {"waiting", "draining", "fatal"} :
           phase' = [phase EXCEPT ![r] = ph]
      /\ phase[r] \in {"forward", "waiting", "draining"}
      /\ UNCHANGED <<ids, push, bad, landed, local, coll, reduced, verdict>>
  BY DEF ForwardEnds, WaitTimeout, DrainTimeout
<1>1. TypeOK'
  BY <1>0 DEF IInv, TypeOK
<1>2. ASSUME NEW m \in Ranks PROVE RankInv(m)'
  BY <1>0 DEF IInv, TypeOK, RankInv, SettledRank, LastGather
<1>3. ASSUME NEW m \in Ranks PROVE PushInv(m)'
  BY <1>0 DEF IInv, PushInv
<1>4. ASSUME NEW m \in Ranks PROVE GroupInv(m)'
  BY <1>0 DEF IInv, GroupInv, Group
<1>5. VerdictInv'
  BY <1>0, DriverAssumption DEF IInv, TypeOK, VerdictInv
<1> QED BY <1>1, <1>2, <1>3, <1>4, <1>5 DEF IInv

\* A rank that settles its transfer enters the first collective.
LEMMA SettledIInv ==
  ASSUME IInv, NEW r \in Ranks, NEW F \in SUBSET Requests,
         phase[r] \in {"waiting", "draining"}, push[r] # "running",
         \A q \in ids : q \in landed[r] \/ q \in F,
         Settled(r, F)
  PROVE  IInv'
<1>0. coll[r] = 0
  BY DEF IInv, TypeOK, RankInv
<1>1. TypeOK'
  BY DEF IInv, TypeOK, Settled
<1>2. ASSUME NEW m \in Ranks PROVE RankInv(m)'
  BY <1>0 DEF IInv, TypeOK, Settled, RankInv, SettledRank, LastGather
<1>3. ASSUME NEW m \in Ranks PROVE PushInv(m)'
  BY DEF IInv, Settled, PushInv
<1>4. ASSUME NEW m \in Ranks PROVE GroupInv(m)'
  <2>1. ASSUME NEW g \in 1 .. 4, coll'[m] > g, NEW n \in Group(g, m)
        PROVE  coll'[n] >= g /\ (n = r => FALSE)
    <3>1. coll[m] > g
      BY <2>1, <1>0 DEF IInv, TypeOK, Settled
    <3>2. n \in Ranks /\ coll[n] >= g
      BY <2>1, <3>1, GroupMembers DEF IInv, GroupInv
    <3> QED BY <3>2, <1>0 DEF IInv, TypeOK, Settled
  <2>2. ASSUME NEW g \in {3, 4}, coll'[m] > g, NEW n \in Group(g, m)
        PROVE  local'[n] \subseteq reduced'[m]
    <3>1. coll[m] > g
      BY <2>2, <1>0 DEF IInv, TypeOK, Settled
    <3>2. local[n] \subseteq reduced[m] /\ n \in Ranks
      BY <2>2, <3>1, GroupMembers DEF IInv, GroupInv
    <3>3. n # r
      BY <2>1, <2>2
    <3> QED BY <3>2, <3>3 DEF IInv, TypeOK, Settled
  <2> QED BY <2>1, <2>2 DEF GroupInv, Group
<1>5. VerdictInv'
  BY DriverAssumption DEF IInv, TypeOK, Settled, VerdictInv
<1> QED BY <1>1, <1>2, <1>3, <1>4, <1>5 DEF IInv

\* wait() settles with failures that cover every request that did not land.
LEMMA WaitIInv ==
  ASSUME IInv, NEW r \in Ranks, Collect(r) \/ Drained(r)
  PROVE  IInv'
<1>1. CASE Collect(r)
  <2>1. FailedOf(r) \in SUBSET Requests
    BY DEF IInv, TypeOK, FailedOf
  <2>2. \A q \in ids : q \in landed[r] \/ q \in FailedOf(r)
    BY <1>1 DEF IInv, TypeOK, PushInv, Collect, FailedOf
  <2> QED BY <1>1, <2>1, <2>2, SettledIInv DEF Collect
<1>2. CASE Drained(r)
  <2>1. ids \in SUBSET Requests
    BY DEF IInv, TypeOK
  <2> QED BY <1>2, <2>1, SettledIInv DEF Drained
<1> QED BY <1>1, <1>2

\* Leaving a collective: the group has entered it and its bitmaps are merged.
LEMMA GatherIInv ==
  ASSUME IInv, NEW r \in Ranks, Gather(r)
  PROVE  IInv'
<1>0. /\ coll[r] \in 1 .. 4 /\ coll[r] <= LastGather(r)
      /\ coll' = [coll EXCEPT ![r] = @ + 1]
      /\ reduced' = [reduced EXCEPT ![r] = Merged(coll[r], r)]
      /\ Gathered(coll[r], r)
      /\ UNCHANGED <<ids, push, bad, landed, local, verdict>>
      /\ LastGather(r)' = LastGather(r)
  BY DEF IInv, TypeOK, RankInv, Gather, LastGather
<1>a. reduced[r] \subseteq Merged(coll[r], r) /\ Merged(coll[r], r) \subseteq Requests
  BY <1>0, GroupMembers DEF IInv, TypeOK, Merged
<1>1. TypeOK'
  BY <1>0, <1>a DEF IInv, TypeOK, Gather
<1>2. ASSUME NEW m \in Ranks PROVE RankInv(m)'
  BY <1>0 DEF IInv, TypeOK, Gather, RankInv, SettledRank, LastGather
<1>3. ASSUME NEW m \in Ranks PROVE PushInv(m)'
  BY <1>0 DEF IInv, PushInv
<1>4. ASSUME NEW m \in Ranks PROVE GroupInv(m)'
  <2>0. \A n \in Ranks : coll'[n] >= coll[n] /\ reduced[n] \subseteq reduced'[n]
    BY <1>0, <1>a DEF IInv, TypeOK
  <2>1. ASSUME NEW g \in 1 .. 4, coll'[m] > g, NEW n \in Group(g, m)
        PROVE  coll'[n] >= g
    <3>1. n \in Ranks
      BY <2>1, GroupMembers
    <3>2. CASE coll[m] > g
      <4>1. coll[n] >= g
        BY <2>1, <3>2 DEF IInv, GroupInv
      <4>2. coll[n] \in Nat /\ coll'[n] \in Nat
        BY <1>1, <3>1 DEF IInv, TypeOK
      <4> QED BY <2>0, <3>1, <4>1, <4>2
    <3>3. CASE ~(coll[m] > g)
      <4>1. m = r /\ coll[r] = g
        BY <1>0, <2>1, <3>3 DEF IInv, TypeOK
      <4> QED BY <1>0, <4>1, <2>0, <2>1, <3>1 DEF Gathered, IInv, TypeOK
    <3> QED BY <3>2, <3>3
  <2>2. ASSUME NEW g \in {3, 4}, coll'[m] > g, NEW n \in Group(g, m)
        PROVE  local'[n] \subseteq reduced'[m]
    <3>1. CASE coll[m] > g
      BY <1>0, <2>0, <2>2, <3>1 DEF IInv, TypeOK, GroupInv
    <3>2. CASE ~(coll[m] > g)
      <4>1. m = r /\ coll[r] = g
        BY <1>0, <2>2, <3>2 DEF IInv, TypeOK
      <4>2. local[n] \subseteq Merged(g, r)
        BY <2>2, <4>1 DEF Merged
      <4> QED BY <1>0, <4>1, <4>2 DEF IInv, TypeOK
    <3> QED BY <3>1, <3>2
  <2> QED BY <2>1, <2>2 DEF GroupInv, Group
<1>5. VerdictInv'
  BY <1>0, DriverAssumption DEF IInv, TypeOK, VerdictInv, Gather
<1> QED BY <1>1, <1>2, <1>3, <1>4, <1>5 DEF IInv

\* The engine takes the driver's answer.
LEMMA ReportIInv ==
  ASSUME IInv, Report
  PROVE  IInv'
<1>1. TypeOK'
  BY DriverAssumption DEF IInv, TypeOK, Report
<1>2. \A m \in Ranks : RankInv(m)' /\ PushInv(m)' /\ GroupInv(m)'
  BY DEF IInv, Report, RankInv, SettledRank, LastGather, PushInv, GroupInv, Group
<1>3. VerdictInv'
  BY DEF Report, VerdictInv
<1> QED BY <1>1, <1>2, <1>3 DEF IInv

\* Nothing changes.
LEMMA StutterIInv == IInv /\ UNCHANGED vars => IInv'
BY DEF vars, IInv, TypeOK, RankInv, SettledRank, LastGather, PushInv, GroupInv,
   Group, VerdictInv

\* The inductive invariant holds throughout, for every grid.
THEOREM Invariance == Spec => []IInv
<1>1. IInv /\ [Next]_vars => IInv'
  BY PushEndsIInv, PhaseOnlyIInv, WaitIInv, GatherIInv, ReportIInv, StutterIInv
  DEF Next, RankStep
<1> QED BY InitIInv, <1>1, PTL DEF Spec

\* Type correctness of the push completion protocol.
THEOREM TypeCorrectness == Spec => []TypeOK
<1>1. IInv => TypeOK
  BY DEF IInv
<1> QED BY <1>1, Invariance, PTL

\* When the engine has the driver's answer, every rank of the grid has settled
\* its transfer: the ranks outside the driver's two groups because the members
\* of its TP group, which have entered the bitmap gather, have left the gather
\* of the request sets with them.
THEOREM SourceBlocksOutlivePushes == Spec => []SourceKvStays
<1>1. IInv => SourceKvStays
  <2> SUFFICES ASSUME IInv, verdict.known, NEW r \in Ranks PROVE push[r] # "running"
    BY DEF SourceKvStays
  <2>1. phase[Driver] = "returned" /\ coll[Driver] = LastGather(Driver) + 1
    BY DriverAssumption DEF IInv, VerdictInv, RankInv
  <2>2. CASE ids = {}
    BY <2>2 DEF IInv, PushInv
  <2>3. CASE ids # {}
    <3> DEFINE m == <<r[1], Driver[2]>>
    <3>1. m \in Ranks /\ m \in Group(3, Driver) /\ r \in Group(2, m)
      BY DriverAssumption DEF Ranks, Group
    <3>2. coll[m] >= 3
      BY <2>1, <2>3, <3>1, DriverAssumption DEF IInv, GroupInv, LastGather
    <3>3. coll[r] >= 2
      BY <3>1, <3>2 DEF IInv, TypeOK, GroupInv
    <3> QED BY <3>3 DEF IInv, TypeOK, RankInv, SettledRank
  <2> QED BY <2>2, <2>3
<1> QED BY <1>1, Invariance, PTL

\* The failures the driver reports are complete for the ranks of its two
\* groups: what is not among them, each of those ranks has delivered.
THEOREM OkRequestsDelivered == Spec => []OkMeansDelivered
<1>1. IInv => OkMeansDelivered
  <2> SUFFICES ASSUME IInv, verdict.known, NEW q \in ids \ verdict.failed, NEW r \in Ranks,
                      r[1] = Driver[1] \/ r[2] = Driver[2]
               PROVE  q \in landed[r]
    BY DEF OkMeansDelivered
  <2>1. /\ phase[Driver] = "returned" /\ coll[Driver] = 5
        /\ verdict.failed = reduced[Driver]
    BY DriverAssumption DEF IInv, VerdictInv, RankInv, LastGather
  <2>2. r \in Group(3, Driver) \/ r \in Group(4, Driver)
    BY DEF Group
  <2>3. local[r] \subseteq reduced[Driver]
    BY <2>1, <2>2, DriverAssumption DEF IInv, GroupInv
  <2>4. coll[r] >= 3
    BY <2>1, <2>2, DriverAssumption DEF IInv, TypeOK, GroupInv
  <2>5. q \in landed[r] \/ q \in local[r]
    BY <2>4 DEF IInv, TypeOK, RankInv, SettledRank
  <2> QED BY <2>1, <2>3, <2>5
<1> QED BY <1>1, Invariance, PTL

\* With tensor or context parallelism alone, a request that is not failed has
\* its KV from every rank.
THEOREM SingleAxisDelivers ==
  ASSUME \/ \A r \in Ranks : r[2] = Driver[2]
         \/ \A r \in Ranks : r[1] = Driver[1]
  PROVE  Spec => [](verdict.known =>
                      \A q \in ids \ verdict.failed, r \in Ranks : q \in landed[r])
<1>1. OkMeansDelivered => (verdict.known =>
                             \A q \in ids \ verdict.failed, r \in Ranks : q \in landed[r])
  BY DEF OkMeansDelivered
<1> QED BY <1>1, OkRequestsDelivered, PTL
=============================================================================
