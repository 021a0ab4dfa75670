------------------------ MODULE ProducerCountProofs --------------------------
(***************************************************************************)
(* Proofs about ProducerOutbox that count: how often an event is published *)
(* and how many publications the counter claims, for any number of events, *)
(* failures and restarts.  Both bounds hold only together with what is     *)
(* still under way, so that each invariant adds that to its left side.     *)
(***************************************************************************)
EXTENDS ProducerOutboxProofs

-----------------------------------------------------------------------------
(* The batch of a pass.                                                    *)

\* The pass has yet to publish e.
Pending(e) == \E i \in DOMAIN batch : batch[i] = e /\ (i = 1 => job = "publish")

\* A pass fetches no row twice, and only a pass has a session to poison.
PassOK == IsInjective(batch) /\ (poisoned => batch # <<>>)

\* The pass goes on without the event at its head; the others stay as they were.
LEMMA BatchShrinks ==
    ASSUME TypeOK, PassOK, batch # <<>>, NEW t \in Nat, NextInBatch(t)
    PROVE  /\ IsInjective(batch')
           /\ job' # "mark"
           /\ batch' # <<>> <=> Len(batch) > 1
           /\ \A e \in EventIds : e = Head(batch) => ~Pending(e)'
           /\ \A e \in EventIds : Pending(e)' => Len(batch) > 1
           /\ \A e \in EventIds : e # Head(batch) => (Pending(e)' <=> Pending(e))
           /\ counted' + tally' = counted + t
  <1>0. /\ batch \in Seq(EventIds) /\ IsInjective(batch)
        /\ Len(batch) \in Nat \ {0} /\ DOMAIN batch = 1 .. Len(batch)
        /\ Head(batch) = batch[1]
        /\ counted \in Nat /\ tally \in Nat
    BY EmptySeq DEF TypeOK, PassOK
  <1>1. CASE Len(batch) > 1
    <2>1. /\ job' = "publish" /\ batch' = Tail(batch) /\ tally' = t /\ counted' = counted
      BY <1>1 DEF NextInBatch
    <2>2. /\ DOMAIN batch' = 1 .. Len(batch) - 1
          /\ \A i \in 1 .. Len(batch) - 1 : batch'[i] = batch[i + 1]
          /\ batch' # <<>>
      BY <1>0, <1>1, <2>1, HeadTail
    <2>3. IsInjective(batch')
      <3>1. ASSUME NEW a \in DOMAIN batch', NEW b \in DOMAIN batch', batch'[a] = batch'[b]
            PROVE  a = b
        <4>1. a + 1 \in DOMAIN batch /\ b + 1 \in DOMAIN batch /\ batch[a + 1] = batch[b + 1]
          BY <1>0, <2>2, <3>1
        <4>2. a + 1 = b + 1
          BY <1>0, <4>1, Zenon DEF IsInjective
        <4> QED
          BY <2>2, <4>2
      <3> QED
        BY <3>1, Zenon DEF IsInjective
    <2>4. \A e \in EventIds : e = Head(batch) => ~Pending(e)'
      BY <1>0, <2>2 DEF IsInjective, Pending
    <2>5. ASSUME NEW e \in EventIds, e # Head(batch)
          PROVE  Pending(e)' <=> Pending(e)
      <3>1. ASSUME NEW i \in DOMAIN batch', batch'[i] = e
            PROVE  Pending(e)
        <4>1. i + 1 \in DOMAIN batch /\ batch[i + 1] = e /\ i + 1 # 1
          BY <1>0, <2>2, <3>1
        <4> QED
          BY <4>1 DEF Pending
      <3>2. ASSUME NEW i \in DOMAIN batch, batch[i] = e
            PROVE  Pending(e)'
        <4>1. i - 1 \in DOMAIN batch' /\ batch'[i - 1] = e
          BY <1>0, <2>2, <2>5, <3>2
        <4> QED
          BY <2>1, <4>1 DEF Pending
      <3> QED
        BY <3>1, <3>2 DEF Pending
    <2> QED
      BY <1>0, <1>1, <2>1, <2>2, <2>3, <2>4, <2>5
  <1>2. CASE ~(Len(batch) > 1)
    <2>1. /\ job' = "sleep" /\ batch' = <<>> /\ tally' = 0 /\ counted' = counted + t
      BY <1>2 DEF NextInBatch
    <2>2. DOMAIN batch' = {}
      BY <2>1
    <2>3. DOMAIN batch = {1}
      BY <1>0, <1>2
    <2>4. IsInjective(batch') /\ \A e \in EventIds : ~Pending(e)'
      BY <2>2 DEF IsInjective, Pending
    <2>5. \A e \in EventIds : e # Head(batch) => ~Pending(e)
      BY <1>0, <2>3 DEF Pending
    <2>6. Head(batch) \in EventIds
      BY <1>0
    <2> QED
      BY <1>0, <1>2, <2>1, <2>4, <2>5, <2>6
  <1> QED
    BY <1>1, <1>2

\* A fetched batch holds unmarked rows, each of them once.
LEMMA BatchesUnmarked ==
    ASSUME stored \subseteq EventIds, NEW s \in Batches
    PROVE  IsInjective(s) /\ \A i \in DOMAIN s : s[i] \notin published
  BY DEF Batches, Candidates

-----------------------------------------------------------------------------
(* Copies of an event.                                                     *)

LEMMA OneCopyMore ==
    ASSUME NEW S, topic \in Seq(S), NEW x \in S, NEW e, topic' = Append(topic, x)
    PROVE  /\ Copies(e) \in Nat
           /\ Copies(e)' = Copies(e) + (IF x = e THEN 1 ELSE 0)
  <1> DEFINE C == {i \in DOMAIN topic : topic[i] = e}
             last == Len(topic) + 1
  <1>1. /\ Len(topic) \in Nat /\ DOMAIN topic = 1 .. Len(topic)
        /\ DOMAIN topic' = 1 .. last /\ topic'[last] = x
        /\ \A i \in 1 .. Len(topic) : topic'[i] = topic[i]
    OBVIOUS
  <1>2. IsFiniteSet(C) /\ Cardinality(C) \in Nat
    <2>1. C \subseteq 1 .. Len(topic)
      BY <1>1
    <2> QED
      <3>1. IsFiniteSet(1 .. Len(topic))
        BY <1>1, FS_Interval
      <3> QED
        BY <2>1, <3>1, FS_Subset, FS_CardinalityType
  <1>3. last \notin C
    BY <1>1
  <1>4. Copies(e) = Cardinality(C)
    BY DEF Copies
  <1>5. CASE x = e
    <2>1. {i \in DOMAIN topic' : topic'[i] = e} = C \cup {last}
      BY <1>1, <1>5
    <2>2. Copies(e)' = Cardinality(C \cup {last})
      BY <2>1, Zenon DEF Copies
    <2>3. Cardinality(C \cup {last}) = Cardinality(C) + 1
      BY <1>2, <1>3, FS_AddElement
    <2> QED
      BY <1>2, <1>4, <1>5, <2>2, <2>3
  <1>6. CASE x # e
    <2>1. {i \in DOMAIN topic' : topic'[i] = e} = C
      BY <1>1, <1>6
    <2>2. Copies(e)' = Cardinality(C)
      BY <2>1, Zenon DEF Copies
    <2> QED
      BY <1>2, <1>4, <1>6, <2>2
  <1> QED
    BY <1>5, <1>6

-----------------------------------------------------------------------------
(* The bound on copies.                                                    *)

\* Whether the task of e may still publish it.
TaskDue(e) == IF e \notin stored \/ bg[e] = "publish" THEN 1 ELSE 0

\* Whether the pass has marked e, or is about to.
Settled(e) ==
    \/ e \in published
    \/ job = "mark" /\ Head(batch) = e /\ ~poisoned

\* How often passes may publish e before the next failure: once more if the
\* row is unmarked, and again if the poisoned pass that is about to publish it
\* cannot mark it.
JobDue(e) ==
    IF Pending(e) THEN IF poisoned THEN 2 ELSE 1
    ELSE IF Settled(e) THEN 0 ELSE 1

\* Failures and restarts so far.
Incidents == faults + restarts

Allowed(e) == Copies(e) + TaskDue(e) + JobDue(e) <= 2 + Incidents

DInv == IInv /\ \A e \in EventIds : PassOK /\ Allowed(e)

LEMMA DueType ==
    ASSUME NEW e \in EventIds
    PROVE  /\ TaskDue(e) \in {0, 1} /\ JobDue(e) \in {0, 1, 2}
           /\ TaskDue(e)' \in {0, 1} /\ JobDue(e)' \in {0, 1, 2}
  BY DEF TaskDue, JobDue

LEMMA CountType ==
    ASSUME NEW S, NEW s \in Seq(S), NEW e
    PROVE  Cardinality({i \in DOMAIN s : s[i] = e}) \in Nat
  <1>1. {i \in DOMAIN s : s[i] = e} \subseteq 1 .. Len(s) /\ Len(s) \in Nat
    OBVIOUS
  <1>2. IsFiniteSet(1 .. Len(s))
    BY <1>1, FS_Interval
  <1> QED
    BY <1>1, <1>2, FS_Subset, FS_CardinalityType

LEMMA SumType == ASSUME NEW a \in Nat, NEW b \in Nat PROVE a + b \in Nat
  OBVIOUS

\* What Allowed adds and compares are natural numbers, before and after a step.
LEMMA NumbersType ==
    ASSUME TypeOK, TypeOK', NEW e \in EventIds
    PROVE  /\ Copies(e) \in Nat /\ Copies(e)' \in Nat
           /\ Incidents \in Nat /\ Incidents' \in Nat
  <1>1. /\ topic \in Seq(EventIds) /\ topic' \in Seq(EventIds)
        /\ faults \in 0 .. MaxFaults /\ restarts \in 0 .. MaxRestarts
        /\ faults' \in 0 .. MaxFaults /\ restarts' \in 0 .. MaxRestarts
    BY DEF TypeOK
  <1>2. Copies(e) \in Nat /\ Copies(e)' \in Nat
    BY <1>1, CountType DEF Copies
  <1>3. faults \in Nat /\ restarts \in Nat /\ faults' \in Nat /\ restarts' \in Nat
    BY <1>1, BoundsAssumption
  <1>4. Incidents \in Nat /\ Incidents' \in Nat
    BY <1>3, SumType, Zenon DEF Incidents
  <1> QED
    BY <1>2, <1>4

LEMMA IncidentsGrow ==
    ASSUME TypeOK,
           faults' = faults \/ faults' = faults + 1,
           restarts' = restarts \/ restarts' = restarts + 1
    PROVE  /\ Incidents' >= Incidents
           /\ faults' = faults + 1 => Incidents' >= Incidents + 1
           /\ restarts' = restarts + 1 => Incidents' >= Incidents + 1
  <1>1. faults \in Nat /\ restarts \in Nat
    BY BoundsAssumption DEF TypeOK
  <1>2. Incidents = faults + restarts /\ Incidents' = faults' + restarts'
    BY DEF Incidents
  <1>3. \/ faults' = faults /\ restarts' = restarts
        \/ faults' = faults + 1 /\ restarts' = restarts
        \/ faults' = faults /\ restarts' = restarts + 1
        \/ faults' = faults + 1 /\ restarts' = restarts + 1
    OBVIOUS
  <1>4. PICK f \in Nat, r \in Nat : f = faults' /\ r = restarts'
    BY <1>1, <1>3
  <1>5. /\ f = faults \/ f = faults + 1
        /\ r = restarts \/ r = restarts + 1
        /\ Incidents' = f + r
    BY <1>2, <1>4
  <1>6. /\ f + r >= faults + restarts
        /\ f = faults + 1 => f + r >= faults + restarts + 1
        /\ r = restarts + 1 => f + r >= faults + restarts + 1
    BY <1>1, <1>5
  <1> QED
    BY <1>2, <1>4, <1>5, <1>6, Zenon

\* A step keeps the bound if it makes up for a copy by what is due no more, and
\* for a copy or for what is due again by a failure or a restart.
LEMMA AllowedKept ==
    ASSUME TypeOK, TypeOK', NEW e \in EventIds, Allowed(e),
           TaskDue(e)' <= TaskDue(e),
           \/ /\ Copies(e)' = Copies(e)
              /\ JobDue(e)' <= JobDue(e)
              /\ Incidents' >= Incidents
           \/ /\ Copies(e)' <= Copies(e) + 1
              /\ TaskDue(e)' < TaskDue(e) /\ JobDue(e)' <= JobDue(e)
              /\ Incidents' >= Incidents
           \/ /\ Copies(e)' <= Copies(e) + 1
              /\ JobDue(e)' < JobDue(e)
              /\ Incidents' >= Incidents
           \/ /\ Copies(e)' <= Copies(e) + 1
              /\ JobDue(e)' <= JobDue(e)
              /\ Incidents' >= Incidents + 1
           \/ /\ Copies(e)' = Copies(e)
              /\ JobDue(e)' <= JobDue(e) + 1
              /\ Incidents' >= Incidents + 1
    PROVE  Allowed(e)'
  <1>1. PICK n \in Nat, n2 \in Nat, k \in Nat, k2 \in Nat :
           n = Copies(e) /\ n2 = Copies(e)' /\ k = Incidents /\ k2 = Incidents'
    BY NumbersType
  <1>2. PICK t \in Nat, t2 \in Nat, j \in Nat, j2 \in Nat :
           t = TaskDue(e) /\ t2 = TaskDue(e)' /\ j = JobDue(e) /\ j2 = JobDue(e)'
    BY DueType
  <1>3. /\ n + t + j <= 2 + k
        /\ t2 <= t
        /\ \/ n2 = n /\ j2 <= j /\ k2 >= k
           \/ n2 <= n + 1 /\ t2 < t /\ j2 <= j /\ k2 >= k
           \/ n2 <= n + 1 /\ j2 < j /\ k2 >= k
           \/ n2 <= n + 1 /\ j2 <= j /\ k2 >= k + 1
           \/ n2 = n /\ j2 <= j + 1 /\ k2 >= k + 1
    BY <1>1, <1>2, Zenon DEF Allowed
  <1>4. n2 + t2 + j2 <= 2 + k2
    BY <1>3
  <1> QED
    BY <1>1, <1>2, <1>4, Zenon DEF Allowed

\* What passes owe e does not grow.
LEMMA JobDueKept ==
    ASSUME NEW e \in EventIds,
           Pending(e)' <=> Pending(e),
           Pending(e) => poisoned' = poisoned,
           Settled(e) => Settled(e)'
    PROVE  JobDue(e)' <= JobDue(e)
  <1>1. CASE Pending(e)
    <2>1. JobDue(e) = IF poisoned THEN 2 ELSE 1
      BY <1>1, Zenon DEF JobDue
    <2>2. JobDue(e)' = IF poisoned' THEN 2 ELSE 1
      BY <1>1, Zenon DEF JobDue
    <2>3. CASE poisoned
      BY <1>1, <2>1, <2>2, <2>3
    <2>4. CASE ~poisoned
      BY <1>1, <2>1, <2>2, <2>4
    <2> QED
      BY <2>3, <2>4
  <1>2. CASE ~Pending(e)
    <2>1. CASE Settled(e)
      <3>1. JobDue(e)' = 0 /\ JobDue(e) = 0
        BY <1>2, <2>1, Zenon DEF JobDue
      <3> QED
        BY <3>1
    <2>2. CASE ~Settled(e)
      <3>1. JobDue(e) = 1 /\ JobDue(e)' \in {0, 1}
        BY <1>2, <2>2 DEF JobDue
      <3> QED
        BY <3>1
    <2> QED
      BY <2>1, <2>2
  <1> QED
    BY <1>1, <1>2

\* The record that is at its mark is not pending any more.
LEMMA HeadNotPending ==
    ASSUME TypeOK, PassOK, batch # <<>>, job = "mark"
    PROVE  ~Pending(Head(batch))
  <1>1. Head(batch) = batch[1] /\ 1 \in DOMAIN batch
    BY EmptySeq DEF TypeOK
  <1> QED
    BY <1>1 DEF PassOK, IsInjective, Pending

-----------------------------------------------------------------------------
(* The bound is kept, group of steps by group of steps.                    *)

\* Steps that neither publish nor settle anything.
LEMMA QuietStep ==
    ASSUME IInv, IInv', PassOK, NEW e \in EventIds, Allowed(e),
           \/ UNCHANGED vars \/ Start \/ Connect \/ Tick \/ JobFetchFail
           \/ \E x \in EventIds : CreateEvent(x) \/ CreateEventFail(x)
    PROVE  PassOK' /\ Allowed(e)'
  <1>1. /\ UNCHANGED <<published, batch, poisoned, topic>>
        /\ job' = job \/ (batch = <<>> /\ job' # "mark" /\ job # "mark")
    <2>1. UNCHANGED <<published, batch, poisoned, topic>>
      BY DEF Start, Connect, ConnectOk, ConnectFail, TopicsOk, TopicsFail, Tick, JobFetchFail,
             CreateEvent, CreateEventFail, vars, dbVars, jobVars
    <2>2. job' = job \/ (up = "topics" /\ job' = "sleep")
      BY DEF Start, Connect, ConnectOk, ConnectFail, TopicsOk, TopicsFail, Tick, JobFetchFail,
             CreateEvent, CreateEventFail, vars, jobVars
    <2>3. up = "topics" => job = "off" /\ batch = <<>>
      BY DEF IInv, InMemoryAgrees
    <2> QED
      BY <2>1, <2>2, <2>3
  <1>2. TaskDue(e)' <= TaskDue(e)
    <2>1. TaskDue(e) = 0 => TaskDue(e)' = 0
      BY DEF TaskDue, Start, Connect, ConnectOk, ConnectFail, TopicsOk, TopicsFail, Tick,
             JobFetchFail, CreateEvent, CreateEventFail, StoreRow, vars, dbVars,
             IInv, TypeOK
    <2> QED
      BY <2>1, DueType
  <1>3. JobDue(e)' <= JobDue(e)
    <2>1. Pending(e)' <=> Pending(e)
      BY <1>1 DEF Pending
    <2>2. Settled(e) => Settled(e)'
      BY <1>1 DEF Settled
    <2> QED
      BY <1>1, <2>1, <2>2, JobDueKept
  <1>4. Incidents' >= Incidents
    <2>1. restarts' = restarts /\ (faults' = faults \/ faults' = faults + 1)
      BY DEF Start, Connect, ConnectOk, ConnectFail, TopicsOk, TopicsFail, Tick, JobFetchFail,
             Fault, CreateEvent, CreateEventFail, vars, envVars
    <2> QED
      BY <2>1, IncidentsGrow DEF IInv
  <1>5. Copies(e)' = Copies(e)
    BY <1>1 DEF Copies
  <1>6. PassOK'
    BY <1>1 DEF PassOK
  <1> QED
    BY <1>2, <1>3, <1>4, <1>5, <1>6, AllowedKept DEF IInv

\* The background tasks.
LEMMA TaskStep ==
    ASSUME IInv, IInv', PassOK, NEW e \in EventIds, Allowed(e),
           NEW x \in EventIds, Task(x)
    PROVE  PassOK' /\ Allowed(e)'
  <1>0. /\ TypeOK /\ TypeOK' /\ InMemoryAgrees /\ topic \in Seq(EventIds)
        /\ UNCHANGED <<stored, job, batch, poisoned, restarts>>
        /\ published \subseteq published'
        /\ faults' = faults \/ faults' = faults + 1
    BY DEF IInv, TypeOK, Task, BgPublish, BgPublishFail, BgMark, BgMarkFail, Fault,
           dbVars, jobVars, envVars
  <1>1. PassOK'
    BY <1>0 DEF PassOK
  <1>2. JobDue(e)' <= JobDue(e)
    <2>1. Pending(e)' <=> Pending(e)
      BY <1>0 DEF Pending
    <2>2. Settled(e) => Settled(e)'
      BY <1>0 DEF Settled
    <2> QED
      BY <1>0, <2>1, <2>2, JobDueKept
  <1>3. Incidents' >= Incidents
    BY <1>0, IncidentsGrow
  <1>4. CASE BgPublish(x) \/ BgPublishFail(x)
    <2>1. /\ bg[x] = "publish" /\ x \in stored
          /\ bg' = [bg EXCEPT ![x] = "mark"] \/ bg' = [bg EXCEPT ![x] = "none"]
          /\ topic' = topic \/ topic' = Append(topic, x)
      BY <1>0, <1>4 DEF BgPublish, BgPublishFail, InMemoryAgrees
    <2>2. bg'[x] # "publish" /\ (e # x => bg'[e] = bg[e])
      BY <1>0, <2>1 DEF TypeOK
    <2>3. TaskDue(x) = 1 /\ TaskDue(x)' = 0 /\ (e # x => TaskDue(e)' = TaskDue(e))
      BY <1>0, <2>1, <2>2 DEF TaskDue
    <2>4. TaskDue(e)' <= TaskDue(e) /\ (e = x => TaskDue(e)' < TaskDue(e))
      BY <2>3, DueType
    <2>5. CASE topic' = topic
      BY <1>0, <1>1, <1>2, <1>3, <2>4, <2>5, AllowedKept DEF Copies
    <2>6. CASE topic' = Append(topic, x) /\ e = x
      <3>1. Copies(e)' <= Copies(e) + 1
        BY <1>0, <2>6, OneCopyMore
      <3> QED
        BY <1>0, <1>1, <1>2, <1>3, <2>4, <2>6, <3>1, AllowedKept
    <2>7. CASE topic' = Append(topic, x) /\ e # x
      <3>1. Copies(e)' = Copies(e)
        BY <1>0, <2>7, OneCopyMore
      <3> QED
        BY <1>0, <1>1, <1>2, <1>3, <2>4, <2>7, <3>1, AllowedKept
    <2> QED
      BY <2>1, <2>5, <2>6, <2>7
  <1>5. CASE BgMark(x) \/ BgMarkFail(x)
    <2>1. /\ bg[x] = "mark" /\ bg' = [bg EXCEPT ![x] = "none"] /\ topic' = topic
      BY <1>5 DEF BgMark, BgMarkFail
    <2>2. bg'[e] = "publish" <=> bg[e] = "publish"
      BY <1>0, <2>1 DEF TypeOK
    <2>3. TaskDue(e)' = TaskDue(e)
      BY <1>0, <2>2 DEF TaskDue
    <2>4. TaskDue(e)' <= TaskDue(e) /\ Copies(e)' = Copies(e)
      BY <2>1, <2>3, DueType DEF Copies
    <2> QED
      BY <1>0, <1>1, <1>2, <1>3, <2>4, AllowedKept
  <1> QED
    BY <1>4, <1>5 DEF Task

\* A pass is fetched: it owes what it owed.
LEMMA FetchStep ==
    ASSUME IInv, IInv', PassOK, NEW e \in EventIds, Allowed(e), JobFetch
    PROVE  PassOK' /\ Allowed(e)'
  <1>0. /\ TypeOK /\ TypeOK' /\ stored \subseteq EventIds
        /\ batch = <<>> /\ poisoned = FALSE /\ job = "sleep" /\ job' # "mark"
        /\ batch' \in Batches
        /\ job' = "publish" <=> batch' # <<>>
        /\ UNCHANGED <<dbVars, bg, poisoned, topic, faults, restarts>>
    BY DEF IInv, TypeOK, InMemoryAgrees, PassOK, JobFetch, envVars
  <1>1. IsInjective(batch') /\ \A i \in DOMAIN batch' : batch'[i] \notin published
    BY <1>0, BatchesUnmarked
  <1>2. ~Pending(e)
    BY <1>0 DEF Pending
  <1>3. JobDue(e)' <= JobDue(e)
    <2>1. CASE Pending(e)'
      <3>1. e \notin published
        BY <1>1, <2>1 DEF Pending
      <3>2. ~Settled(e)
        BY <1>0, <3>1 DEF Settled
      <3>3. JobDue(e) = 1
        BY <1>2, <3>2, Zenon DEF JobDue
      <3>4. poisoned' = FALSE
        BY <1>0
      <3>5. JobDue(e)' = 1
        BY <2>1, <3>4, Zenon DEF JobDue
      <3> QED
        BY <3>3, <3>5
    <2>2. CASE ~Pending(e)'
      <3>1. Settled(e) => Settled(e)'
        BY <1>0 DEF Settled, dbVars
      <3> QED
        BY <1>2, <2>2, <3>1, JobDueKept
    <2> QED
      BY <2>1, <2>2
  <1>4. TaskDue(e)' <= TaskDue(e) /\ Copies(e)' = Copies(e)
    <2>1. TaskDue(e)' = TaskDue(e) /\ Copies(e)' = Copies(e)
      BY <1>0 DEF TaskDue, Copies, dbVars
    <2> QED
      BY <2>1, DueType
  <1>5. Incidents' >= Incidents
    BY <1>0, IncidentsGrow
  <1>6. PassOK'
    BY <1>0, <1>1 DEF PassOK
  <1> QED
    BY <1>0, <1>3, <1>4, <1>5, <1>6, AllowedKept

\* The pass publishes the event at its head, or fails to and goes on.
LEMMA JobPublishStep ==
    ASSUME IInv, IInv', PassOK, NEW e \in EventIds, Allowed(e), JobPublish \/ JobPublishFail
    PROVE  PassOK' /\ Allowed(e)'
  <1>0. /\ TypeOK /\ TypeOK' /\ topic \in Seq(EventIds) /\ batch \in Seq(EventIds)
        /\ batch # <<>> /\ job = "publish" /\ Head(batch) \in EventIds
        /\ UNCHANGED <<stored, published, bg, restarts>>
        /\ topic' = topic \/ topic' = Append(topic, Head(batch))
    <2>1. batch \in Seq(EventIds) /\ batch # <<>>
      BY DEF IInv, TypeOK, InMemoryAgrees, JobPublish, JobPublishFail
    <2>2. Head(batch) \in EventIds
      BY <2>1, HeadIn
    <2> QED
      BY <2>1, <2>2 DEF IInv, TypeOK, JobPublish, JobPublishFail, Fault, dbVars, envVars
  <1>1. Head(batch) = batch[1] /\ 1 \in DOMAIN batch
    BY <1>0, EmptySeq
  <1>2. TaskDue(e)' <= TaskDue(e)
    <2>1. TaskDue(e)' = TaskDue(e)
      BY <1>0 DEF TaskDue
    <2> QED
      BY <2>1, DueType
  <1>3. /\ Copies(e)' \in {Copies(e), Copies(e) + 1}
        /\ Copies(e)' <= Copies(e) + 1
        /\ e # Head(batch) => Copies(e)' = Copies(e)
    <2>1. Copies(e) \in Nat
      BY <1>0, NumbersType
    <2>2. CASE topic' = topic
      <3>1. Copies(e)' = Copies(e)
        BY <2>2 DEF Copies
      <3> QED
        BY <2>1, <3>1
    <2>3. CASE topic' = Append(topic, Head(batch))
      <3>1. Copies(e)' = Copies(e) + (IF Head(batch) = e THEN 1 ELSE 0)
        BY <1>0, <2>3, OneCopyMore
      <3> QED
        BY <2>1, <3>1
    <2> QED
      BY <1>0, <2>2, <2>3
  <1>4. Pending(Head(batch))
    BY <1>0, <1>1 DEF Pending
  <1>5. CASE JobPublish
    <2>1. /\ job' = "mark" /\ UNCHANGED <<batch, poisoned, faults>>
          /\ topic' = Append(topic, Head(batch))
      BY <1>5 DEF JobPublish, envVars
    <2>2. PassOK'
      BY <2>1 DEF PassOK
    <2>3. Incidents' >= Incidents
      BY <1>0, <2>1, IncidentsGrow
    <2>4. CASE e = Head(batch)
      <3>1. ~Pending(e)'
        BY <1>1, <2>1, <2>4 DEF PassOK, IsInjective, Pending
      <3>2. CASE poisoned
        <4>1. JobDue(e) = 2 /\ JobDue(e)' \in {0, 1}
          BY <1>4, <2>4, <3>1, <3>2 DEF JobDue
        <4>2. JobDue(e)' < JobDue(e)
          BY <4>1
        <4> QED
          BY <1>0, <1>2, <1>3, <2>2, <2>3, <4>2, AllowedKept
      <3>3. CASE ~poisoned
        <4>1. Settled(e)'
          BY <2>1, <2>4, <3>3 DEF Settled
        <4>2. JobDue(e) = 1
          BY <1>4, <2>4, <3>3, Zenon DEF JobDue
        <4>3. JobDue(e)' = 0
          BY <3>1, <4>1, Zenon DEF JobDue
        <4>4. JobDue(e)' < JobDue(e)
          BY <4>2, <4>3
        <4> QED
          BY <1>0, <1>2, <1>3, <2>2, <2>3, <4>4, AllowedKept
      <3> QED
        BY <3>2, <3>3
    <2>5. CASE e # Head(batch)
      <3>1. Pending(e)' <=> Pending(e)
        BY <1>0, <1>1, <2>1, <2>5 DEF Pending
      <3>2. Settled(e) => Settled(e)'
        BY <1>0 DEF Settled
      <3>3. JobDue(e)' <= JobDue(e)
        BY <2>1, <3>1, <3>2, JobDueKept
      <3> QED
        BY <1>0, <1>2, <1>3, <2>2, <2>3, <2>5, <3>3, AllowedKept
    <2> QED
      BY <2>4, <2>5
  <1>6. CASE JobPublishFail
    <2>1. /\ NextInBatch(tally) /\ tally \in Nat /\ faults' = faults + 1
          /\ poisoned' = (poisoned /\ Len(batch) > 1)
      BY <1>0, <1>6 DEF JobPublishFail, Fault, TypeOK
    <2>2. /\ IsInjective(batch')
          /\ job' # "mark"
          /\ batch' # <<>> <=> Len(batch) > 1
          /\ e = Head(batch) => ~Pending(e)'
          /\ Pending(e)' => Len(batch) > 1
          /\ e # Head(batch) => (Pending(e)' <=> Pending(e))
      BY <1>0, <2>1, BatchShrinks
    <2>3. PassOK'
      BY <2>1, <2>2, Zenon DEF PassOK
    <2>4. Incidents' >= Incidents + 1
      BY <1>0, <2>1, IncidentsGrow
    <2>5. JobDue(e)' <= JobDue(e)
      <3>1. CASE e = Head(batch)
        <4>1. Pending(e) /\ ~Pending(e)'
          BY <1>4, <2>2, <3>1
        <4>2. JobDue(e) \in {1, 2} /\ JobDue(e)' \in {0, 1}
          BY <4>1 DEF JobDue
        <4> QED
          BY <4>2
      <3>2. CASE e # Head(batch)
        <4>1. Pending(e)' <=> Pending(e)
          BY <2>2, <3>2
        <4>2. Pending(e) => poisoned' = poisoned
          <5>1. Pending(e) => Len(batch) > 1
            BY <2>2, <4>1
          <5>2. poisoned \in BOOLEAN
            BY <1>0 DEF TypeOK
          <5> QED
            BY <2>1, <5>1, <5>2, Zenon
        <4>3. Settled(e) => Settled(e)'
          BY <1>0 DEF Settled
        <4> QED
          BY <4>1, <4>2, <4>3, JobDueKept
      <3> QED
        BY <3>1, <3>2
    <2> QED
      BY <1>0, <1>2, <1>3, <2>3, <2>4, <2>5, AllowedKept
  <1> QED
    BY <1>5, <1>6

\* The pass marks the event at its head, or fails to, and goes on.
LEMMA JobMarkStep ==
    ASSUME IInv, IInv', PassOK, NEW e \in EventIds, Allowed(e),
           JobMark \/ JobMarkFail \/ JobMarkPoisoned
    PROVE  PassOK' /\ Allowed(e)'
  <1>0. /\ TypeOK /\ TypeOK' /\ batch # <<>> /\ job = "mark"
        /\ poisoned \in BOOLEAN /\ tally \in Nat /\ tally + 1 \in Nat
        /\ UNCHANGED <<stored, bg, topic, restarts>>
    <2>1. job = "mark" /\ UNCHANGED <<stored, bg, topic, restarts>>
      BY DEF JobMark, JobMarkFail, JobMarkPoisoned, Fault, dbVars, envVars
    <2>2. TypeOK /\ TypeOK' /\ batch # <<>>
      BY <2>1 DEF IInv, InMemoryAgrees
    <2>3. poisoned \in BOOLEAN /\ tally \in Nat
      BY <2>2 DEF TypeOK
    <2> QED
      BY <2>1, <2>2, <2>3
  <1>1. PICK t \in Nat : NextInBatch(t)
    BY <1>0 DEF JobMark, JobMarkFail, JobMarkPoisoned
  <1>2. /\ IsInjective(batch')
        /\ job' # "mark"
        /\ batch' # <<>> <=> Len(batch) > 1
        /\ e = Head(batch) => ~Pending(e)'
        /\ Pending(e)' => Len(batch) > 1
        /\ e # Head(batch) => (Pending(e)' <=> Pending(e))
    BY <1>0, <1>1, BatchShrinks
  <1>3. Pending(e)' <=> Pending(e)
    BY <1>0, <1>2, HeadNotPending
  <1>4. TaskDue(e)' <= TaskDue(e) /\ Copies(e)' = Copies(e) /\ Copies(e) \in Nat
    <2>1. TaskDue(e)' = TaskDue(e) /\ Copies(e)' = Copies(e)
      BY <1>0 DEF TaskDue, Copies
    <2> QED
      BY <1>0, <2>1, DueType, NumbersType
  <1>5. CASE JobMark
    <2>1. /\ ~poisoned /\ poisoned' = poisoned /\ faults' = faults
          /\ published' = published \cup {Head(batch)}
      BY <1>5 DEF JobMark, envVars
    <2>2. PassOK'
      BY <1>2, <2>1 DEF PassOK
    <2>3. Settled(e) => Settled(e)'
      BY <2>1 DEF Settled
    <2>4. JobDue(e)' <= JobDue(e)
      BY <1>3, <2>1, <2>3, JobDueKept
    <2>5. Incidents' >= Incidents
      BY <1>0, <2>1, IncidentsGrow
    <2> QED
      BY <1>0, <1>4, <2>2, <2>4, <2>5, AllowedKept
  <1>6. CASE JobMarkFail
    <2>1. ~poisoned /\ faults' = faults + 1 /\ (poisoned' => Len(batch) > 1)
      BY <1>6 DEF JobMarkFail, Fault
    <2>2. PassOK'
      BY <1>2, <2>1, Zenon DEF PassOK
    <2>3. JobDue(e)' <= JobDue(e) + 1
      <3>1. CASE Pending(e)
        <4>1. JobDue(e) = 1 /\ JobDue(e)' \in {1, 2}
          BY <1>3, <2>1, <3>1 DEF JobDue
        <4> QED
          BY <4>1
      <3>2. CASE ~Pending(e)
        <4>1. JobDue(e) \in {0, 1} /\ JobDue(e)' \in {0, 1}
          BY <1>3, <3>2 DEF JobDue
        <4> QED
          BY <4>1
      <3> QED
        BY <3>1, <3>2
    <2>4. Incidents' >= Incidents + 1
      BY <1>0, <2>1, IncidentsGrow
    <2> QED
      BY <1>0, <1>4, <2>2, <2>3, <2>4, AllowedKept
  <1>7. CASE JobMarkPoisoned
    <2>1. /\ poisoned /\ poisoned' = (Len(batch) > 1) /\ faults' = faults
          /\ published' = published
      BY <1>7 DEF JobMarkPoisoned, dbVars, envVars
    <2>2. PassOK'
      BY <1>2, <2>1, Zenon DEF PassOK
    <2>3. Settled(e) => Settled(e)'
      BY <2>1 DEF Settled
    <2>4. Pending(e) => poisoned' = poisoned
      <3>1. Pending(e) => Len(batch) > 1
        BY <1>2, <1>3
      <3>2. poisoned = TRUE
        BY <1>0, <2>1, Zenon
      <3>3. Pending(e) => (Len(batch) > 1) = TRUE
        BY <3>1
      <3> QED
        BY <2>1, <3>2, <3>3, Zenon
    <2>5. JobDue(e)' <= JobDue(e)
      BY <1>3, <2>3, <2>4, JobDueKept
    <2>6. Incidents' >= Incidents
      BY <1>0, <2>1, IncidentsGrow
    <2> QED
      BY <1>0, <1>4, <2>2, <2>5, <2>6, AllowedKept
  <1> QED
    BY <1>5, <1>6, <1>7

\* The process ends: the next one owes every unmarked row once.
LEMMA HaltStep ==
    ASSUME IInv, IInv', PassOK, NEW e \in EventIds, Allowed(e), Halt
    PROVE  PassOK' /\ Allowed(e)'
  <1>0. /\ TypeOK /\ TypeOK'
        /\ batch' = <<>> /\ poisoned' = FALSE /\ job' = "off"
        /\ bg' = [x \in EventIds |-> "none"]
        /\ UNCHANGED <<stored, topic, faults>> /\ restarts' = restarts + 1
    BY DEF IInv, Halt, NoTask, dbVars
  <1>1. PassOK'
    BY <1>0 DEF PassOK, IsInjective
  <1>2. TaskDue(e)' <= TaskDue(e)
    <2>1. TaskDue(e) = 0 => TaskDue(e)' = 0
      BY <1>0 DEF TaskDue
    <2> QED
      BY <2>1, DueType
  <1>3. JobDue(e)' <= JobDue(e) + 1
    <2>1. ~Pending(e)'
      BY <1>0 DEF Pending
    <2>2. JobDue(e)' \in {0, 1} /\ JobDue(e) \in {0, 1, 2}
      BY <2>1 DEF JobDue
    <2> QED
      BY <2>2
  <1>4. Copies(e)' = Copies(e)
    BY <1>0 DEF Copies
  <1>5. Incidents' >= Incidents + 1
    BY <1>0, IncidentsGrow
  <1> QED
    BY <1>0, <1>1, <1>2, <1>3, <1>4, <1>5, AllowedKept

LEMMA DInvInit == Init => DInv
  <1> SUFFICES ASSUME Init
               PROVE  DInv
    OBVIOUS
  <1>1. PassOK
    BY DEF Init, PassOK, IsInjective
  <1>2. ASSUME NEW e \in EventIds
        PROVE  Allowed(e)
    <2>1. {i \in DOMAIN topic : topic[i] = e} = {}
      BY DEF Init
    <2>2. Copies(e) = 0
      BY <2>1, FS_EmptySet DEF Copies
    <2>3. TaskDue(e) \in {0, 1}
      BY DueType
    <2>4. ~Pending(e)
      BY DEF Init, Pending
    <2>5. JobDue(e) \in {0, 1}
      BY <2>4 DEF JobDue
    <2>6. Incidents = 0
      BY DEF Init, Incidents
    <2> QED
      BY <2>2, <2>3, <2>5, <2>6 DEF Allowed
  <1> QED
    BY <1>1, <1>2, IInvInit DEF DInv

LEMMA DInvStep == DInv /\ [Next]_vars => DInv'
  <1> SUFFICES ASSUME DInv, [Next]_vars
               PROVE  DInv'
    OBVIOUS
  <1>1. IInv /\ IInv'
    BY IInvStep DEF DInv
  <1>2. ASSUME NEW e \in EventIds
        PROVE  PassOK' /\ Allowed(e)'
    <2>1. PassOK /\ Allowed(e)
      BY DEF DInv
    <2>2. CASE UNCHANGED vars \/ Start \/ Connect \/ Tick \/ JobFetchFail
      BY <1>1, <2>1, <2>2, QuietStep
    <2>3. ASSUME NEW x \in EventIds, CreateEvent(x) \/ CreateEventFail(x)
          PROVE  PassOK' /\ Allowed(e)'
      BY <1>1, <2>1, <2>3, QuietStep
    <2>4. ASSUME NEW x \in EventIds, Task(x)
          PROVE  PassOK' /\ Allowed(e)'
      BY <1>1, <2>1, <2>4, TaskStep
    <2>5. CASE JobFetch
      BY <1>1, <2>1, <2>5, FetchStep
    <2>6. CASE JobPublish \/ JobPublishFail
      BY <1>1, <2>1, <2>6, JobPublishStep
    <2>7. CASE JobMark \/ JobMarkFail \/ JobMarkPoisoned
      BY <1>1, <2>1, <2>7, JobMarkStep
    <2>8. CASE Crash \/ Stop
      BY <1>1, <2>1, <2>8, HaltStep DEF Crash, Stop
    <2> QED
      BY <2>2, <2>3, <2>4, <2>5, <2>6, <2>7, <2>8 DEF Next, RepublishLoop
  <1> QED
    BY <1>1, <1>2 DEF DInv

\* No event is published more often than twice, and once more for every failed
\* call and every restart.
THEOREM DuplicationBounded == Spec => []BoundedDuplication
  <1>1. DInv => BoundedDuplication
    <2> SUFFICES ASSUME DInv, NEW e \in EventIds
                 PROVE  Copies(e) <= 2 + faults + restarts
      BY DEF BoundedDuplication
    <2>1. /\ Copies(e) + TaskDue(e) + JobDue(e) <= 2 + Incidents
          /\ topic \in Seq(EventIds)
          /\ faults \in 0 .. MaxFaults /\ restarts \in 0 .. MaxRestarts
      BY DEF DInv, Allowed, IInv, TypeOK
    <2>2. Copies(e) \in Nat /\ TaskDue(e) \in Nat /\ JobDue(e) \in Nat
      <3>1. Copies(e) \in Nat
        BY <2>1, CountType DEF Copies
      <3> QED
        BY <3>1, DueType
    <2>3. faults \in Nat /\ restarts \in Nat
      BY <2>1, BoundsAssumption
    <2> QED
      BY <2>1, <2>2, <2>3 DEF Incidents
  <1> QED
    BY <1>1, DInvInit, DInvStep, PTL DEF Spec

-----------------------------------------------------------------------------
(* The counter.  A publication is on the topic before it is claimed, by a  *)
(* task or by the pass: what is at its mark has a record of its own.       *)

Claimed == counted + tally
Marking == {x \in EventIds : bg[x] = "mark"}
JobMarking == IF job = "mark" THEN 1 ELSE 0

Covered == Claimed + Cardinality(Marking) + JobMarking <= Len(topic)

CInv == IInv /\ Covered

\* One element more, one element less.
LEMMA OneElement ==
    ASSUME NEW S, IsFiniteSet(S), NEW x
    PROVE  /\ Cardinality(S \cup {x}) <= Cardinality(S) + 1
           /\ Cardinality(S \ {x}) <= Cardinality(S)
           /\ x \in S => Cardinality(S \ {x}) < Cardinality(S)
  <1>1. Cardinality(S) \in Nat
    BY FS_CardinalityType
  <1>2. Cardinality(S \cup {x}) \in {Cardinality(S), Cardinality(S) + 1}
    BY FS_AddElement, Zenon
  <1>3. Cardinality(S \ {x}) = IF x \in S THEN Cardinality(S) - 1 ELSE Cardinality(S)
    BY FS_RemoveElement
  <1> QED
    BY <1>1, <1>2, <1>3

LEMMA CountersType ==
    ASSUME TypeOK, TypeOK'
    PROVE  /\ Claimed \in Nat /\ Claimed' \in Nat
           /\ IsFiniteSet(Marking)
           /\ Cardinality(Marking) \in Nat /\ Cardinality(Marking)' \in Nat
           /\ JobMarking \in {0, 1} /\ JobMarking' \in {0, 1}
           /\ Len(topic) \in Nat /\ Len(topic)' \in Nat
  <1>1. /\ counted \in Nat /\ tally \in Nat /\ counted' \in Nat /\ tally' \in Nat
        /\ Len(topic) \in Nat /\ Len(topic') \in Nat
    BY DEF TypeOK
  <1>2. Claimed \in Nat /\ Claimed' \in Nat
    BY <1>1, SumType, Zenon DEF Claimed
  <1>3. Marking \subseteq EventIds /\ Marking' \subseteq EventIds
    BY DEF Marking
  <1>4. /\ IsFiniteSet(Marking)
        /\ Cardinality(Marking) \in Nat /\ Cardinality(Marking)' \in Nat
    BY <1>3, EventIdsAssumption, FS_Subset, FS_CardinalityType
  <1>5. JobMarking \in {0, 1} /\ JobMarking' \in {0, 1}
    BY DEF JobMarking
  <1> QED
    BY <1>1, <1>2, <1>4, <1>5

\* A step keeps the counter covered if a new record pays for what goes to its
\* mark, and what leaves its mark for what is claimed.
LEMMA CoveredKept ==
    ASSUME TypeOK, TypeOK', Covered,
           \/ /\ Claimed' <= Claimed /\ Cardinality(Marking)' <= Cardinality(Marking)
              /\ JobMarking' <= JobMarking /\ Len(topic)' >= Len(topic)
           \/ /\ Claimed' = Claimed /\ Cardinality(Marking)' <= Cardinality(Marking) + 1
              /\ JobMarking' = JobMarking /\ Len(topic)' = Len(topic) + 1
           \/ /\ Claimed' = Claimed + 1 /\ Cardinality(Marking)' < Cardinality(Marking)
              /\ JobMarking' = JobMarking /\ Len(topic)' = Len(topic)
           \/ /\ Claimed' = Claimed /\ Cardinality(Marking)' = Cardinality(Marking)
              /\ Len(topic)' = Len(topic) + 1
           \/ /\ Claimed' = Claimed + 1 /\ Cardinality(Marking)' = Cardinality(Marking)
              /\ JobMarking' < JobMarking /\ Len(topic)' = Len(topic)
    PROVE  Covered'
  <1>1. PICK c \in Nat, c2 \in Nat, m \in Nat, m2 \in Nat :
           /\ c = Claimed /\ c2 = Claimed'
           /\ m = Cardinality(Marking) /\ m2 = Cardinality(Marking)'
    BY CountersType
  <1>2. PICK j \in {0, 1}, j2 \in {0, 1}, l \in Nat, l2 \in Nat :
           /\ j = JobMarking /\ j2 = JobMarking'
           /\ l = Len(topic) /\ l2 = Len(topic)'
    BY CountersType
  <1>3. /\ c + m + j <= l
        /\ \/ c2 <= c /\ m2 <= m /\ j2 <= j /\ l2 >= l
           \/ c2 = c /\ m2 <= m + 1 /\ j2 = j /\ l2 = l + 1
           \/ c2 = c + 1 /\ m2 < m /\ j2 = j /\ l2 = l
           \/ c2 = c /\ m2 = m /\ l2 = l + 1
           \/ c2 = c + 1 /\ m2 = m /\ j2 < j /\ l2 = l
    BY <1>1, <1>2, Zenon DEF Covered
  <1>4. c2 + m2 + j2 <= l2
    BY <1>2, <1>3
  <1> QED
    BY <1>1, <1>2, <1>4, Zenon DEF Covered

\* Where the pass goes on it claims t, what it has marked so far.
LEMMA PassClaims ==
    ASSUME TypeOK, NEW t \in Nat, NextInBatch(t)
    PROVE  job' # "mark" /\ Claimed' = counted + t
  <1>1. counted \in Nat
    BY DEF TypeOK
  <1>2. CASE Len(batch) > 1
    BY <1>1, <1>2 DEF NextInBatch, Claimed
  <1>3. CASE ~(Len(batch) > 1)
    <2>1. job' = "sleep" /\ counted' = counted + t /\ tally' = 0
      BY <1>3 DEF NextInBatch
    <2>2. Claimed' = (counted + t) + 0
      BY <2>1 DEF Claimed
    <2> QED
      BY <1>1, <2>1, <2>2
  <1> QED
    BY <1>2, <1>3

LEMMA CInvInit == Init => CInv
  <1> SUFFICES ASSUME Init
               PROVE  Covered
    BY IInvInit DEF CInv
  <1>1. Marking = {}
    BY DEF Init, NoTask, Marking
  <1>2. Claimed = 0 /\ JobMarking = 0 /\ Len(topic) = 0
    BY DEF Init, Claimed, JobMarking
  <1>3. Cardinality(Marking) = 0
    BY <1>1, FS_EmptySet
  <1> QED
    BY <1>2, <1>3 DEF Covered

\* Steps in which nothing comes to its mark, or leaves it.
LEMMA UnclaimedStep ==
    ASSUME IInv, IInv', Covered,
           UNCHANGED <<topic, counted, tally>>,
           job' = job \/ (job # "mark" /\ job' # "mark"),
           \A x \in EventIds : bg'[x] = "mark" <=> bg[x] = "mark"
    PROVE  Covered'
  <1>0. TypeOK /\ TypeOK'
    BY DEF IInv
  <1>1. Claimed' = Claimed /\ JobMarking' = JobMarking
    BY DEF Claimed, JobMarking
  <1>2. Marking' = Marking
    BY DEF Marking
  <1>3. /\ Claimed' <= Claimed /\ Cardinality(Marking)' <= Cardinality(Marking)
        /\ JobMarking' <= JobMarking /\ Len(topic)' >= Len(topic)
    BY <1>0, <1>1, <1>2, CountersType
  <1> QED
    BY <1>0, <1>3, CoveredKept

\* The background tasks.
LEMMA TaskCovered ==
    ASSUME IInv, IInv', Covered, NEW x \in EventIds, Task(x)
    PROVE  Covered'
  <1>0. /\ TypeOK /\ TypeOK' /\ topic \in Seq(EventIds) /\ counted \in Nat /\ tally \in Nat
        /\ bg \in [EventIds -> {"none", "publish", "mark"}]
        /\ job' = job /\ tally' = tally
    BY DEF IInv, TypeOK, Task, BgPublish, BgPublishFail, BgMark, BgMarkFail, jobVars
  <1>1. JobMarking' = JobMarking
    BY <1>0 DEF JobMarking
  <1>2. /\ Len(Append(topic, x)) = Len(topic) + 1
        /\ IsFiniteSet(Marking) /\ Cardinality(Marking) \in Nat
        /\ JobMarking \in Nat /\ Len(topic) \in Nat /\ Claimed \in Nat
    BY <1>0, CountersType
  <1>3. CASE BgPublish(x)
    <2>1. /\ topic' = Append(topic, x) /\ bg' = [bg EXCEPT ![x] = "mark"]
          /\ counted' = counted
      BY <1>3 DEF BgPublish
    <2>2. Marking' = Marking \cup {x}
      BY <1>0, <2>1 DEF Marking
    <2>3. Cardinality(Marking)' <= Cardinality(Marking) + 1
      <3>1. Cardinality(Marking \cup {x}) <= Cardinality(Marking) + 1
        BY <1>2, OneElement
      <3> QED
        BY <2>2, <3>1
    <2>4. Claimed' = Claimed
      BY <1>0, <2>1 DEF Claimed
    <2> QED
      BY <1>0, <1>1, <1>2, <2>1, <2>3, <2>4, CoveredKept
  <1>4. CASE BgPublishFail(x) \/ BgMarkFail(x)
    <2>1. /\ topic' = topic \/ topic' = Append(topic, x)
          /\ bg' = [bg EXCEPT ![x] = "none"] /\ counted' = counted
      BY <1>4 DEF BgPublishFail, BgMarkFail
    <2>2. Marking' = Marking \ {x}
      BY <1>0, <2>1 DEF Marking
    <2>3. Cardinality(Marking)' <= Cardinality(Marking)
      <3>1. Cardinality(Marking \ {x}) <= Cardinality(Marking)
        BY <1>2, OneElement
      <3> QED
        BY <2>2, <3>1
    <2>4. Claimed' = Claimed
      BY <1>0, <2>1 DEF Claimed
    <2>5. Len(topic)' >= Len(topic)
      BY <1>2, <2>1
    <2>6. Claimed' <= Claimed /\ JobMarking' <= JobMarking
      BY <1>1, <1>2, <2>4
    <2> QED
      BY <1>0, <2>3, <2>5, <2>6, CoveredKept
  <1>5. CASE BgMark(x)
    <2>1. /\ topic' = topic /\ bg[x] = "mark" /\ bg' = [bg EXCEPT ![x] = "none"]
          /\ counted' = counted + 1
      BY <1>5 DEF BgMark
    <2>2. Marking' = Marking \ {x} /\ x \in Marking
      BY <1>0, <2>1 DEF Marking
    <2>3. Cardinality(Marking)' < Cardinality(Marking)
      <3>1. Cardinality(Marking \ {x}) < Cardinality(Marking)
        BY <1>2, <2>2, OneElement
      <3> QED
        BY <2>2, <3>1
    <2>4. Claimed' = Claimed + 1
      <3>1. Claimed' = (counted + 1) + tally
        BY <1>0, <2>1 DEF Claimed
      <3> QED
        BY <1>0, <3>1 DEF Claimed
    <2> QED
      BY <1>0, <1>1, <2>1, <2>3, <2>4, CoveredKept
  <1> QED
    BY <1>3, <1>4, <1>5 DEF Task

\* The republish pass.
LEMMA PassCovered ==
    ASSUME IInv, IInv', Covered,
           JobPublish \/ JobPublishFail \/ JobMark \/ JobMarkFail \/ JobMarkPoisoned
    PROVE  Covered'
  <1>0. /\ TypeOK /\ TypeOK' /\ topic \in Seq(EventIds) /\ counted \in Nat /\ tally \in Nat
        /\ bg' = bg
    BY DEF IInv, TypeOK, JobPublish, JobPublishFail, JobMark, JobMarkFail, JobMarkPoisoned
  <1>1. Cardinality(Marking)' = Cardinality(Marking)
    BY <1>0 DEF Marking
  <1>2. /\ Cardinality(Marking) \in Nat /\ JobMarking \in {0, 1}
        /\ Len(topic) \in Nat /\ Claimed \in Nat
    BY <1>0, CountersType
  <1>3. job \in {"publish", "mark"} => Head(batch) \in EventIds
    <2>1. job \in {"publish", "mark"} => batch \in Seq(EventIds) /\ batch # <<>>
      BY DEF IInv, TypeOK, InMemoryAgrees
    <2> QED
      BY <2>1, HeadIn
  <1>4. job = "publish" => Len(Append(topic, Head(batch))) = Len(topic) + 1
    BY <1>0, <1>3
  <1>5. CASE JobPublish
    <2>1. /\ topic' = Append(topic, Head(batch)) /\ job = "publish"
          /\ counted' = counted /\ tally' = tally
      BY <1>5 DEF JobPublish
    <2>2. Claimed' = Claimed /\ Len(topic)' = Len(topic) + 1
      BY <1>4, <2>1 DEF Claimed
    <2> QED
      BY <1>0, <1>1, <2>2, CoveredKept
  <1>6. CASE JobPublishFail \/ JobMarkFail \/ JobMarkPoisoned
    <2>1. /\ NextInBatch(tally)
          /\ topic' = topic \/ (job = "publish" /\ topic' = Append(topic, Head(batch)))
      BY <1>6 DEF JobPublishFail, JobMarkFail, JobMarkPoisoned
    <2>2. job' # "mark" /\ Claimed' = counted + tally
      BY <1>0, <2>1, PassClaims
    <2>3. Claimed' = Claimed /\ JobMarking' = 0
      BY <2>2 DEF Claimed, JobMarking
    <2>4. Len(topic)' >= Len(topic)
      BY <1>2, <1>4, <2>1
    <2>5. /\ Claimed' <= Claimed /\ JobMarking' <= JobMarking
          /\ Cardinality(Marking)' <= Cardinality(Marking)
      BY <1>1, <1>2, <2>3
    <2> QED
      BY <1>0, <2>4, <2>5, CoveredKept
  <1>7. CASE JobMark
    <2>1. NextInBatch(tally + 1) /\ topic' = topic /\ job = "mark"
      BY <1>7 DEF JobMark
    <2>2. tally + 1 \in Nat
      BY <1>0
    <2>3. job' # "mark" /\ Claimed' = counted + (tally + 1)
      BY <1>0, <2>1, <2>2, PassClaims
    <2>4. JobMarking' < JobMarking
      BY <2>1, <2>3 DEF JobMarking
    <2>5. Claimed' = Claimed + 1
      BY <1>0, <2>3 DEF Claimed
    <2> QED
      BY <1>0, <1>1, <2>1, <2>4, <2>5, CoveredKept
  <1> QED
    BY <1>5, <1>6, <1>7

\* The process ends, and its counter with it.
LEMMA HaltCovered ==
    ASSUME IInv, IInv', Covered, Halt
    PROVE  Covered'
  <1>0. /\ TypeOK /\ TypeOK'
        /\ counted' = 0 /\ tally' = 0 /\ job' = "off" /\ topic' = topic
        /\ bg' = [x \in EventIds |-> "none"]
    BY DEF IInv, Halt, NoTask
  <1>1. Claimed' = 0
    <2>1. Claimed' = 0 + 0
      BY <1>0 DEF Claimed
    <2> QED
      BY <2>1
  <1>2. JobMarking' = 0
    BY <1>0 DEF JobMarking
  <1>3. Cardinality(Marking)' = 0
    <2>1. Marking' = {}
      BY <1>0 DEF Marking
    <2> QED
      BY <2>1, FS_EmptySet
  <1>4. /\ Claimed' <= Claimed /\ Cardinality(Marking)' <= Cardinality(Marking)
        /\ JobMarking' <= JobMarking /\ Len(topic)' >= Len(topic)
    BY <1>0, <1>1, <1>2, <1>3, CountersType
  <1> QED
    BY <1>0, <1>4, CoveredKept

LEMMA CInvStep == CInv /\ [Next]_vars => CInv'
  <1> SUFFICES ASSUME CInv, [Next]_vars
               PROVE  CInv'
    OBVIOUS
  <1>0. IInv /\ IInv' /\ Covered
    BY IInvStep DEF CInv
  <1>1. CASE UNCHANGED vars \/ Start \/ Connect \/ Tick \/ JobFetch \/ JobFetchFail
    <2>1. UNCHANGED <<topic, counted, tally, bg>>
      BY <1>1 DEF Start, Connect, ConnectOk, ConnectFail, TopicsOk, TopicsFail, Tick,
                  JobFetch, JobFetchFail, vars, jobVars
    <2>2. job' = job \/ ((up = "topics" \/ job = "sleep") /\ job' # "mark")
      BY <1>1 DEF Start, Connect, ConnectOk, ConnectFail, TopicsOk, TopicsFail, Tick,
                  JobFetch, JobFetchFail, vars, jobVars
    <2>3. up = "topics" => job = "off"
      BY <1>0 DEF IInv, InMemoryAgrees
    <2> QED
      BY <1>0, <2>1, <2>2, <2>3, UnclaimedStep DEF CInv
  <1>2. ASSUME NEW x \in EventIds, CreateEvent(x) \/ CreateEventFail(x)
        PROVE  CInv'
    <2>1. UNCHANGED <<topic, counted, tally, job>>
      BY <1>2 DEF CreateEvent, CreateEventFail, jobVars
    <2>2. bg' = bg \/ (bg' = [bg EXCEPT ![x] = "publish"] /\ bg[x] # "mark")
      <3>1. x \notin stored /\ (bg' = bg \/ bg' = [bg EXCEPT ![x] = "publish"])
        BY <1>2 DEF CreateEvent, CreateEventFail
      <3>2. bg[x] = "mark" => x \in stored
        BY <1>0 DEF IInv, InMemoryAgrees
      <3> QED
        BY <3>1, <3>2
    <2>3. \A y \in EventIds : bg'[y] = "mark" <=> bg[y] = "mark"
      BY <1>0, <2>2 DEF IInv, TypeOK
    <2> QED
      BY <1>0, <2>1, <2>3, UnclaimedStep DEF CInv
  <1>3. ASSUME NEW x \in EventIds, Task(x)
        PROVE  CInv'
    BY <1>0, <1>3, TaskCovered DEF CInv
  <1>4. CASE JobPublish \/ JobPublishFail \/ JobMark \/ JobMarkFail \/ JobMarkPoisoned
    BY <1>0, <1>4, PassCovered DEF CInv
  <1>5. CASE Crash \/ Stop
    BY <1>0, <1>5, HaltCovered DEF Crash, Stop, CInv
  <1> QED
    BY <1>1, <1>2, <1>3, <1>4, <1>5 DEF Next, RepublishLoop

\* producer_events_kafka_published_total never claims a publication without a
\* record of its own, in any interleaving of tasks and passes.
THEOREM CounterCovered == Spec => []CounterNeverOverstates
  <1>1. CInv => CounterNeverOverstates
    <2> SUFFICES ASSUME CInv
                 PROVE  counted + tally <= Len(topic)
      BY DEF CounterNeverOverstates
    <2>1. /\ Claimed + Cardinality(Marking) + JobMarking <= Len(topic)
          /\ counted \in Nat /\ tally \in Nat /\ topic \in Seq(EventIds)
          /\ JobMarking \in {0, 1}
      BY DEF CInv, Covered, IInv, TypeOK, JobMarking
    <2>2. Marking \subseteq EventIds
      BY DEF Marking
    <2>3. Cardinality(Marking) \in Nat
      BY <2>2, EventIdsAssumption, FS_Subset, FS_CardinalityType
    <2> QED
      BY <2>1, <2>3 DEF Claimed
  <1> QED
    BY <1>1, CInvInit, CInvStep, PTL DEF Spec
=============================================================================
