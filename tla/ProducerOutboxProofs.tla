------------------------ MODULE ProducerOutboxProofs ------------------------
(***************************************************************************)
(* Proofs about ProducerOutbox: its type invariant, that a marked row is   *)
(* on the topic, and that the store, the topic and the flags implement     *)
(* EventOutbox.                                                            *)
(***************************************************************************)
EXTENDS ProducerOutbox, FiniteSetTheorems, SequenceTheorems, TLAPS

-----------------------------------------------------------------------------
(* Facts about sequences and sets.                                         *)

\* A sequence of two or more has a head, and a non-empty tail over its set.
LEMMA HeadTail ==
    ASSUME NEW S, NEW s \in Seq(S), Len(s) > 1
    PROVE  /\ Tail(s) \in Seq(S)
           /\ Tail(s) # <<>>
  <1>1. s # <<>>
    BY EmptySeq
  <1>2. Tail(s) \in Seq(S) /\ Len(Tail(s)) = Len(s) - 1
    BY <1>1, HeadTailProperties
  <1>3. Len(Tail(s)) # 0
    BY <1>2
  <1> QED
    BY <1>2, <1>3, EmptySeq

\* The head of a non-empty sequence is one of its elements.
LEMMA HeadIn ==
    ASSUME NEW S, NEW s \in Seq(S), s # <<>>
    PROVE  Head(s) \in S
  OBVIOUS

\* A sequence over a set is one over every larger set.
LEMMA SeqMonotone ==
    ASSUME NEW S, NEW T, S \subseteq T, NEW s \in Seq(S)
    PROVE  s \in Seq(T)
  OBVIOUS

\* Appending a record adds it to the elements of the topic.
LEMMA ToSetAppend ==
    ASSUME NEW S, NEW s \in Seq(S), NEW e \in S
    PROVE  /\ Append(s, e) \in Seq(S)
           /\ ToSet(Append(s, e)) = ToSet(s) \cup {e}
  <1>1. Append(s, e) \in Seq(S) /\ Len(Append(s, e)) = Len(s) + 1
    OBVIOUS
  <1>2. Len(s) \in Nat /\ DOMAIN Append(s, e) = 1 .. Len(s) + 1 /\ DOMAIN s = 1 .. Len(s)
    BY <1>1
  <1>3. \A i \in 1 .. Len(s) : Append(s, e)[i] = s[i]
    OBVIOUS
  <1>4. Append(s, e)[Len(s) + 1] = e
    OBVIOUS
  <1>5. \A x : x \in ToSet(Append(s, e)) <=> x \in ToSet(s) \cup {e}
    BY <1>1, <1>2, <1>3, <1>4 DEF ToSet
  <1> QED
    BY <1>1, <1>5

\* What the pass fetches is a sequence of stored events.
LEMMA BatchesType ==
    ASSUME stored \subseteq EventIds, NEW s \in Batches
    PROVE  s \in Seq(stored)
  <1>1. Candidates \subseteq stored
    BY DEF Candidates
  <1>2. IsFiniteSet(Candidates)
    BY <1>1, FS_Subset, EventIdsAssumption
  <1>3. Cardinality(Candidates) \in Nat
    BY <1>2, FS_CardinalityType
  <1>4. PICK size \in Nat : s \in [1 .. size -> Candidates]
    BY <1>3, LimitsAssumption DEF Batches
  <1>5. s \in Seq(Candidates)
    BY <1>4
  <1> QED
    BY <1>1, <1>5, SeqMonotone

-----------------------------------------------------------------------------
(* The inductive invariant.  MarkedImpliesOnTopic alone does not survive a *)
(* step: BgMark and JobMark set a flag, and only what InMemoryAgrees says  *)
(* of a task or a pass at its mark shows that the record is there.         *)

IInv == TypeOK /\ MarkedImpliesOnTopic /\ InMemoryAgrees

\* The invariant holds initially.
LEMMA IInvInit == Init => IInv
  <1> SUFFICES ASSUME Init PROVE IInv
    OBVIOUS
  <1>1. topic = <<>> /\ batch = <<>>
    BY DEF Init
  <1>2. ToSet(topic) = {}
    BY <1>1 DEF ToSet
  <1>3. TypeOK
    <2>1. batch \in Seq(EventIds) /\ topic \in Seq(EventIds)
      BY <1>1, EmptySeq
    <2>2. kafka_client \in BOOLEAN /\ poisoned \in BOOLEAN
      BY DEF Init
    <2>3. /\ up \in {"down", "connecting", "topics", "serving"}
          /\ attempt \in 0 .. ConnectAttempts
          /\ stored \subseteq EventIds /\ published \subseteq EventIds
          /\ createdAt \in [EventIds -> Nat]
          /\ bg \in [EventIds -> {"none", "publish", "mark"}]
          /\ job \in {"off", "sleep", "publish", "mark"}
          /\ tally \in Nat /\ counted \in Nat
          /\ now \in 0 .. MaxTime
          /\ faults \in 0 .. MaxFaults /\ restarts \in 0 .. MaxRestarts
      BY LimitsAssumption, BoundsAssumption DEF Init, NoTask
    <2> QED
      BY <2>1, <2>2, <2>3 DEF TypeOK
  <1>4. MarkedImpliesOnTopic
    BY DEF Init, MarkedImpliesOnTopic
  <1>5. InMemoryAgrees
    BY <1>1, <1>2 DEF Init, InMemoryAgrees, NoTask
  <1> QED
    BY <1>3, <1>4, <1>5 DEF IInv
\* Where the loop over the batch goes on, or ends, without a mark under way.
LEMMA NextInBatchKeeps ==
    ASSUME TypeOK, InMemoryAgrees, batch # <<>>, NEW t \in Nat, NextInBatch(t)
    PROVE  /\ job' \in {"sleep", "publish"}
           /\ batch' \in Seq(stored)
           /\ job' = "publish" <=> batch' # <<>>
           /\ tally' \in Nat /\ counted' \in Nat
  <1>1. batch \in Seq(stored) /\ counted \in Nat
    BY DEF TypeOK, InMemoryAgrees
  <1>2. CASE Len(batch) > 1
    BY <1>1, <1>2, HeadTail DEF NextInBatch
  <1>3. CASE ~(Len(batch) > 1)
    BY <1>1, <1>3, EmptySeq DEF NextInBatch
  <1> QED
    BY <1>2, <1>3

\* Every step of the producer preserves the inductive invariant.
LEMMA IInvStep == IInv /\ [Next]_vars => IInv'
  <1> SUFFICES ASSUME IInv, [Next]_vars PROVE IInv'
    OBVIOUS
  <1> USE LimitsAssumption, BoundsAssumption
  <1>0. TypeOK /\ MarkedImpliesOnTopic /\ InMemoryAgrees
    BY DEF IInv
  <1>a. batch \in Seq(stored) /\ topic \in Seq(EventIds) /\ counted \in Nat /\ tally \in Nat
    BY <1>0 DEF TypeOK, InMemoryAgrees
  <1>1. CASE Start
    BY <1>0, <1>1 DEF Start, dbVars, jobVars, envVars, IInv, TypeOK,
                      MarkedImpliesOnTopic, InMemoryAgrees
  <1>2. CASE Connect
    <2>1. CASE ConnectOk
      BY <1>0, <2>1 DEF ConnectOk, dbVars, jobVars, envVars, IInv, TypeOK,
                        MarkedImpliesOnTopic, InMemoryAgrees
    <2>2. CASE ConnectFail
      BY <1>0, <2>2 DEF ConnectFail, LastAttempt, Fault, dbVars, jobVars, IInv, TypeOK,
                        MarkedImpliesOnTopic, InMemoryAgrees
    <2>3. CASE TopicsOk
      <3>1. kafka_client' \in BOOLEAN
        BY <2>3 DEF TopicsOk
      <3>2. UNCHANGED <<attempt, dbVars, bg, batch, poisoned, tally, counted, topic, envVars>>
            /\ job' = "sleep" /\ up' = "serving" /\ batch = <<>>
        BY <1>0, <2>3 DEF TopicsOk, InMemoryAgrees
      <3> QED
        BY <1>0, <3>1, <3>2 DEF dbVars, envVars, IInv, TypeOK,
                                MarkedImpliesOnTopic, InMemoryAgrees
    <2>4. CASE TopicsFail
      BY <1>0, <2>4 DEF TopicsFail, Fault, dbVars, jobVars, IInv, TypeOK,
                        MarkedImpliesOnTopic, InMemoryAgrees
    <2> QED
      BY <1>2, <2>1, <2>2, <2>3, <2>4 DEF Connect
  <1>3. ASSUME NEW e \in EventIds, CreateEvent(e) \/ CreateEventFail(e) PROVE IInv'
    <2>1. stored' \subseteq EventIds /\ stored \subseteq stored'
      BY <1>0, <1>3 DEF CreateEvent, CreateEventFail, StoreRow, TypeOK
    <2>2. createdAt' \in [EventIds -> Nat]
      BY <1>0, <1>3 DEF CreateEvent, CreateEventFail, StoreRow, TypeOK
    <2>3. batch \in Seq(stored')
      BY <1>a, <2>1, SeqMonotone
    <2>4. CASE CreateEvent(e)
      BY <1>0, <2>1, <2>2, <2>3, <2>4
      DEF CreateEvent, StoreRow, processVars, jobVars, envVars, IInv, TypeOK,
          MarkedImpliesOnTopic, InMemoryAgrees
    <2>5. CASE CreateEventFail(e)
      BY <1>0, <2>1, <2>2, <2>3, <2>5
      DEF CreateEventFail, Fault, processVars, jobVars, IInv, TypeOK,
          MarkedImpliesOnTopic, InMemoryAgrees
    <2> QED
      BY <1>3, <2>4, <2>5
  <1>4. ASSUME NEW e \in EventIds, Task(e) PROVE IInv'
    <2>1. ToSet(Append(topic, e)) = ToSet(topic) \cup {e}
          /\ Append(topic, e) \in Seq(EventIds)
      BY <1>a, ToSetAppend
    <2>2. CASE BgPublish(e)
      BY <1>0, <2>1, <2>2
      DEF BgPublish, processVars, dbVars, jobVars, envVars, IInv, TypeOK,
          MarkedImpliesOnTopic, InMemoryAgrees
    <2>3. CASE BgPublishFail(e)
      <3>1. topic' \in Seq(EventIds) /\ ToSet(topic) \subseteq ToSet(topic')
            /\ ToSet(topic') \subseteq stored
        <4>1. CASE topic' = topic
          BY <1>0, <1>a, <4>1 DEF InMemoryAgrees
        <4>2. CASE topic' = Append(topic, e)
          BY <1>0, <2>1, <2>3, <4>2 DEF BgPublishFail, InMemoryAgrees
        <4> QED
          BY <2>3, <4>1, <4>2 DEF BgPublishFail
      <3>2. bg' = [bg EXCEPT ![e] = "none"]
            /\ UNCHANGED <<processVars, dbVars, jobVars, counted>> /\ Fault
        BY <2>3 DEF BgPublishFail
      <3> QED
        BY <1>0, <3>1, <3>2
        DEF Fault, processVars, dbVars, jobVars, IInv, TypeOK,
            MarkedImpliesOnTopic, InMemoryAgrees
    <2>4. CASE BgMark(e)
      BY <1>0, <2>4
      DEF BgMark, processVars, jobVars, envVars, IInv, TypeOK,
          MarkedImpliesOnTopic, InMemoryAgrees
    <2>5. CASE BgMarkFail(e)
      BY <1>0, <2>5
      DEF BgMarkFail, Fault, processVars, jobVars, IInv, TypeOK,
          MarkedImpliesOnTopic, InMemoryAgrees
    <2> QED
      BY <1>4, <2>2, <2>3, <2>4, <2>5 DEF Task
  <1>5. CASE RepublishLoop
    <2>1. CASE JobFetch
      <3>1. batch' \in Seq(stored)
        BY <1>0, <2>1, BatchesType DEF JobFetch, TypeOK
      <3> QED
        BY <1>0, <2>1, <3>1
        DEF JobFetch, processVars, dbVars, envVars, IInv, TypeOK,
            MarkedImpliesOnTopic, InMemoryAgrees
    <2>2. CASE JobFetchFail
      BY <1>0, <2>2
      DEF JobFetchFail, Fault, processVars, dbVars, jobVars, IInv, TypeOK,
          MarkedImpliesOnTopic, InMemoryAgrees
    <2>3. ASSUME job \in {"publish", "mark"} PROVE Head(batch) \in stored /\ batch # <<>>
      BY <1>0, <1>a, <2>3, HeadIn DEF InMemoryAgrees
    <2>4. CASE JobPublish \/ JobPublishFail
      <3>1. Head(batch) \in stored /\ Head(batch) \in EventIds /\ batch # <<>>
        BY <1>0, <2>3, <2>4 DEF JobPublish, JobPublishFail, TypeOK
      <3>2. ToSet(Append(topic, Head(batch))) = ToSet(topic) \cup {Head(batch)}
            /\ Append(topic, Head(batch)) \in Seq(EventIds)
        BY <1>a, <3>1, ToSetAppend
      <3>3. CASE JobPublish
        BY <1>0, <3>1, <3>2, <3>3
        DEF JobPublish, processVars, dbVars, envVars, IInv, TypeOK,
            MarkedImpliesOnTopic, InMemoryAgrees
      <3>4. CASE JobPublishFail
        <4>1. topic' \in Seq(EventIds) /\ ToSet(topic) \subseteq ToSet(topic')
              /\ ToSet(topic') \subseteq stored
          <5>1. CASE topic' = topic
            BY <1>0, <1>a, <5>1 DEF InMemoryAgrees
          <5>2. CASE topic' = Append(topic, Head(batch))
            BY <1>0, <3>1, <3>2, <5>2 DEF InMemoryAgrees
          <5> QED
            BY <3>4, <5>1, <5>2 DEF JobPublishFail
        <4>2. poisoned' \in BOOLEAN
          BY <3>4 DEF JobPublishFail
        <4>3. Fault /\ UNCHANGED <<processVars, dbVars, bg>> /\ NextInBatch(tally)
              /\ job = "publish"
          BY <3>4 DEF JobPublishFail
        <4>4. /\ job' \in {"sleep", "publish"}
              /\ batch' \in Seq(stored)
              /\ job' = "publish" <=> batch' # <<>>
              /\ tally' \in Nat /\ counted' \in Nat
          BY <1>0, <1>a, <3>1, <4>3, NextInBatchKeeps
        <4> QED
          BY <1>0, <4>1, <4>2, <4>3, <4>4
          DEF Fault, processVars, dbVars, IInv, TypeOK,
              MarkedImpliesOnTopic, InMemoryAgrees
      <3> QED
        BY <2>4, <3>3, <3>4
    <2>m. ASSUME NEW t \in Nat, job = "mark", NextInBatch(t), poisoned' \in BOOLEAN,
                 published' \in {published, published \cup {Head(batch)}},
                 UNCHANGED <<processVars, stored, createdAt, bg, topic, now, restarts>>,
                 faults' \in 0 .. MaxFaults
          PROVE  IInv'
      <3>1. /\ Head(batch) \in stored /\ Head(batch) \in EventIds
            /\ Head(batch) \in ToSet(topic) /\ batch # <<>>
        BY <1>0, <2>3, <2>m DEF TypeOK, InMemoryAgrees
      <3>2. /\ job' \in {"sleep", "publish"}
            /\ batch' \in Seq(stored)
            /\ job' = "publish" <=> batch' # <<>>
            /\ tally' \in Nat /\ counted' \in Nat
        BY <1>0, <2>m, <3>1, NextInBatchKeeps
      <3>3. batch' \in Seq(EventIds)
        BY <1>0, <3>2, SeqMonotone DEF TypeOK
      <3>4. TypeOK'
        BY <1>0, <2>m, <3>1, <3>2, <3>3 DEF TypeOK, processVars
      <3>5. MarkedImpliesOnTopic'
        BY <1>0, <2>m, <3>1 DEF MarkedImpliesOnTopic, ToSet
      <3>6. up' = up /\ stored' = stored /\ bg' = bg /\ topic' = topic
        BY <2>m DEF processVars
      <3>7. up = "serving"
        BY <1>0, <2>m DEF InMemoryAgrees
      <3>8. InMemoryAgrees'
        BY <1>0, <3>2, <3>6, <3>7 DEF InMemoryAgrees
      <3> QED
        BY <3>4, <3>5, <3>8 DEF IInv
    <2>5. CASE JobMark
      <3>1. /\ job = "mark" /\ NextInBatch(tally + 1) /\ poisoned' = poisoned
            /\ published' = published \cup {Head(batch)}
            /\ UNCHANGED <<processVars, stored, createdAt, bg, topic, now, restarts>>
            /\ faults' = faults
        BY <2>5 DEF JobMark, envVars
      <3>2. tally + 1 \in Nat /\ poisoned \in BOOLEAN /\ faults \in 0 .. MaxFaults
        BY <1>0, <1>a DEF TypeOK
      <3> QED
        BY <2>m, <3>1, <3>2
    <2>6. CASE JobMarkFail
      <3>1. /\ job = "mark" /\ NextInBatch(tally)
            /\ published' \in {published, published \cup {Head(batch)}}
            /\ UNCHANGED <<processVars, stored, createdAt, bg, topic, now, restarts>>
        BY <2>6 DEF JobMarkFail, Fault
      <3>2. faults' \in 0 .. MaxFaults
        BY <1>0, <2>6 DEF JobMarkFail, Fault, TypeOK
      <3>3. poisoned' \in BOOLEAN
        BY <2>6 DEF JobMarkFail
      <3> QED
        BY <1>a, <2>m, <3>1, <3>2, <3>3
    <2>7. CASE JobMarkPoisoned
      <3>1. /\ job = "mark" /\ NextInBatch(tally) /\ published' = published
            /\ UNCHANGED <<processVars, stored, createdAt, bg, topic, now, restarts>>
            /\ faults' = faults
        BY <2>7 DEF JobMarkPoisoned, dbVars, envVars
      <3>2. faults \in 0 .. MaxFaults
        BY <1>0 DEF TypeOK
      <3>3. poisoned' \in BOOLEAN
        BY <2>7 DEF JobMarkPoisoned
      <3> QED
        BY <1>a, <2>m, <3>1, <3>2, <3>3
    <2> QED
      BY <1>5, <2>1, <2>2, <2>4, <2>5, <2>6, <2>7 DEF RepublishLoop
  <1>6. CASE Crash \/ Stop
    <2>1. <<>> \in Seq(stored)
      BY EmptySeq
    <2>2. Halt
      BY <1>6 DEF Crash, Stop
    <2>3. kafka_client' \in BOOLEAN /\ poisoned' \in BOOLEAN
      BY <2>2 DEF Halt
    <2>4. /\ up' = "down" /\ attempt' = 0 /\ job' = "off" /\ batch' = <<>>
          /\ bg' = [e \in EventIds |-> "none"] /\ tally' = 0 /\ counted' = 0
          /\ restarts < MaxRestarts /\ restarts' = restarts + 1
          /\ UNCHANGED <<dbVars, topic, now, faults>>
      BY <2>2 DEF Halt, NoTask
    <2> QED
      BY <1>0, <2>1, <2>3, <2>4
      DEF dbVars, IInv, TypeOK, MarkedImpliesOnTopic, InMemoryAgrees
  <1>7. CASE Tick
    BY <1>0, <1>7
    DEF Tick, processVars, dbVars, jobVars, IInv, TypeOK,
        MarkedImpliesOnTopic, InMemoryAgrees
  <1>8. CASE UNCHANGED vars
    BY <1>0, <1>8
    DEF vars, processVars, dbVars, jobVars, envVars, IInv, TypeOK,
        MarkedImpliesOnTopic, InMemoryAgrees
  <1> QED
    BY <1>1, <1>2, <1>3, <1>4, <1>5, <1>6, <1>7, <1>8 DEF Next

\* In every reachable state the inductive invariant holds.
THEOREM Inductive == Spec => []IInv
  <1> QED
    BY IInvInit, IInvStep, PTL DEF Spec

\* The variables of the producer keep their types.
THEOREM TypeCorrect == Spec => []TypeOK
  <1>1. IInv => TypeOK
    BY DEF IInv
  <1> QED
    BY <1>1, Inductive, PTL

\* No row is marked published_to_kafka without a record on the topic, for any
\* number of events, failures and restarts.
THEOREM NoLostEvent == Spec => []MarkedImpliesOnTopic
  <1>1. IInv => MarkedImpliesOnTopic
    BY DEF IInv
  <1> QED
    BY <1>1, Inductive, PTL

\* What tasks and passes hold in memory agrees with Postgres and Kafka.
THEOREM MemoryAgrees == Spec => []InMemoryAgrees
  <1>1. IInv => InMemoryAgrees
    BY DEF IInv
  <1> QED
    BY <1>1, Inductive, PTL

-----------------------------------------------------------------------------
(* The producer implements the outbox.                                     *)

\* A step of the producer accepts, delivers or confirms one event, or is none of
\* the outbox's business.
LEMMA OutboxStep == IInv /\ [Next]_vars => [Outbox!Next]_(Outbox!outbox)
  <1> SUFFICES ASSUME IInv, [Next]_vars PROVE [Outbox!Next]_(Outbox!outbox)
    OBVIOUS
  <1>0. TypeOK /\ InMemoryAgrees /\ topic \in Seq(EventIds)
    BY DEF IInv, TypeOK
  <1> DEFINE Quiet == stored' = stored /\ topic' = topic /\ published' = published
  <1>a. ASSUME Quiet PROVE [Outbox!Next]_(Outbox!outbox)
    BY <1>a DEF Outbox!outbox, ToSet
  <1>b. ASSUME NEW e \in stored, topic' = Append(topic, e),
               stored' = stored, published' = published
        PROVE  Outbox!Deliver(e) /\ e \in EventIds
    <2>1. e \in EventIds
      BY <1>0 DEF TypeOK
    <2>2. ToSet(topic') = ToSet(topic) \cup {e}
      BY <1>0, <1>b, <2>1, ToSetAppend
    <2> QED
      BY <1>b, <2>1, <2>2 DEF Outbox!Deliver, ToSet
  <1>c. ASSUME NEW e \in ToSet(topic), published' = published \cup {e},
               stored' = stored, topic' = topic
        PROVE  Outbox!Confirm(e) /\ e \in EventIds
    BY <1>0, <1>c DEF Outbox!Confirm, InMemoryAgrees, TypeOK, ToSet
  <1>1. CASE Start \/ Connect \/ Crash \/ Stop \/ Tick \/ UNCHANGED vars
    <2>1. Quiet
      BY <1>1 DEF Start, Connect, ConnectOk, ConnectFail, LastAttempt, TopicsOk, TopicsFail,
                  Crash, Stop, Halt, Tick, vars, dbVars
    <2> QED
      BY <2>1, <1>a
  <1>2. ASSUME NEW e \in EventIds, CreateEvent(e) \/ CreateEventFail(e)
        PROVE  [Outbox!Next]_(Outbox!outbox)
    <2>1. published' = published /\ topic' = topic
          /\ (stored' = stored \/ stored' = stored \cup {e})
      BY <1>2 DEF CreateEvent, CreateEventFail, StoreRow
    <2>2. CASE stored' = stored
      BY <2>1, <2>2, <1>a
    <2>3. CASE stored' = stored \cup {e}
      BY <2>1, <2>3 DEF Outbox!Next, Outbox!Accept, ToSet
    <2> QED
      BY <2>1, <2>2, <2>3
  <1>3. ASSUME NEW e \in EventIds, Task(e)
        PROVE  [Outbox!Next]_(Outbox!outbox)
    <2>1. CASE BgPublish(e) \/ BgPublishFail(e)
      <3>1. e \in stored /\ stored' = stored /\ published' = published
            /\ (topic' = topic \/ topic' = Append(topic, e))
        BY <1>0, <2>1 DEF BgPublish, BgPublishFail, InMemoryAgrees, dbVars
      <3> QED
        BY <3>1, <1>a, <1>b DEF Outbox!Next
    <2>2. CASE BgMark(e) \/ BgMarkFail(e)
      <3>1. e \in ToSet(topic) /\ stored' = stored /\ topic' = topic
            /\ (published' = published \/ published' = published \cup {e})
        BY <1>0, <2>2 DEF BgMark, BgMarkFail, InMemoryAgrees
      <3> QED
        BY <3>1, <1>a, <1>c DEF Outbox!Next
    <2> QED
      BY <1>3, <2>1, <2>2 DEF Task
  <1>4. CASE RepublishLoop
    <2>1. CASE JobFetch \/ JobFetchFail \/ JobMarkPoisoned
      BY <2>1, <1>a DEF JobFetch, JobFetchFail, JobMarkPoisoned, dbVars
    <2>2. CASE JobPublish \/ JobPublishFail
      <3>1. Head(batch) \in stored
        BY <1>0, <2>2, HeadIn DEF JobPublish, JobPublishFail, InMemoryAgrees
      <3>2. stored' = stored /\ published' = published
            /\ (topic' = topic \/ topic' = Append(topic, Head(batch)))
        BY <2>2 DEF JobPublish, JobPublishFail, dbVars
      <3> QED
        BY <3>1, <3>2, <1>a, <1>b DEF Outbox!Next
    <2>3. CASE JobMark \/ JobMarkFail
      <3>1. Head(batch) \in ToSet(topic)
        BY <1>0, <2>3 DEF JobMark, JobMarkFail, InMemoryAgrees
      <3>2. stored' = stored /\ topic' = topic
            /\ (published' = published \/ published' = published \cup {Head(batch)})
        BY <2>3 DEF JobMark, JobMarkFail
      <3> QED
        BY <3>1, <3>2, <1>a, <1>c DEF Outbox!Next
    <2> QED
      BY <1>4, <2>1, <2>2, <2>3 DEF RepublishLoop
  <1> QED
    BY <1>1, <1>2, <1>3, <1>4 DEF Next

\* What the readers of the topic see of a step: nothing, or one more record of a
\* stored event.
LEMMA TopicStep ==
    ASSUME IInv, [Next]_vars
    PROVE  \/ stored' = stored /\ topic' = topic
           \/ topic' = topic /\ \E e \in EventIds : stored' = stored \cup {e}
           \/ stored' = stored /\ \E e \in stored : topic' = Append(topic, e)
  <1>0. InMemoryAgrees
    BY DEF IInv
  <1>1. CASE \/ Start \/ Connect \/ Crash \/ Stop \/ Tick \/ UNCHANGED vars
             \/ JobFetch \/ JobFetchFail \/ JobMark \/ JobMarkFail \/ JobMarkPoisoned
    <2>1. stored' = stored /\ topic' = topic
      BY <1>1 DEF Start, Connect, ConnectOk, ConnectFail, LastAttempt, TopicsOk, TopicsFail,
                  Crash, Stop, Halt, Tick, JobFetch, JobFetchFail, JobMark, JobMarkFail,
                  JobMarkPoisoned, vars, dbVars
    <2> QED
      BY <1>0, <2>1
  <1>2. ASSUME NEW e \in EventIds, CreateEvent(e) \/ CreateEventFail(e)
        PROVE  topic' = topic /\ (stored' = stored \/ stored' = stored \cup {e})
    BY <1>2 DEF CreateEvent, CreateEventFail, StoreRow
  <1>3. ASSUME NEW e \in EventIds, Task(e)
        PROVE  stored' = stored /\ (topic' = topic \/ \E f \in stored : topic' = Append(topic, f))
    <2>1. CASE BgPublish(e) \/ BgPublishFail(e)
      BY <1>0, <2>1 DEF BgPublish, BgPublishFail, InMemoryAgrees, dbVars
    <2>2. CASE BgMark(e) \/ BgMarkFail(e)
      BY <2>2 DEF BgMark, BgMarkFail
    <2> QED
      BY <1>3, <2>1, <2>2 DEF Task
  <1>4. CASE JobPublish \/ JobPublishFail
    <2>1. Head(batch) \in stored
      BY <1>0, <1>4, HeadIn DEF JobPublish, JobPublishFail, InMemoryAgrees
    <2>2. stored' = stored /\ (topic' = topic \/ topic' = Append(topic, Head(batch)))
      BY <1>4 DEF JobPublish, JobPublishFail, dbVars
    <2> QED
      BY <1>0, <2>1, <2>2
  <1> QED
    BY <1>0, <1>1, <1>2, <1>3, <1>4 DEF Next, RepublishLoop

\* Store, topic and flags implement EventOutbox: events are delivered only
\* when stored, and confirmed only when delivered.
THEOREM OutboxImplemented == Spec => ImplementsOutbox
  <1>1. Init => Outbox!Init
    BY DEF Init, Outbox!Init, ToSet
  <1> QED
    BY <1>1, OutboxStep, Inductive, PTL DEF Spec, ImplementsOutbox, Outbox!Spec
=============================================================================
