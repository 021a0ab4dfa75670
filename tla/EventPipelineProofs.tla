------------------------- MODULE EventPipelineProofs -------------------------
(***************************************************************************)
(* Proofs about EventPipeline: the inductive invariants of the producer    *)
(* and of the group survive their composition, so that what was proved of  *)
(* each of them alone gives the promise of the whole.                      *)
(***************************************************************************)
EXTENDS EventPipeline, FiniteSetTheorems, SequenceTheorems, TLAPS

\* The two components with what is proved of them.
ProducerP == INSTANCE ProducerOutboxProofs WITH
                OrderOf <- [e \in EventIds |-> KeyOf[e][1]]

GroupP == INSTANCE ConsumerLoopProofs WITH
                Partitions <- {Partition}, log <- LogOf(topic), attempt <- tries,
                restarts <- replicaRestarts, MaxRestarts <- MaxReplicaRestarts

IInv == ProducerP!IInv /\ GroupP!IInv

-----------------------------------------------------------------------------
\* The invariant of the producer.
LEMMA ProducerKeeps == ProducerP!IInv /\ [ProducerP!Next]_(ProducerP!vars) => ProducerP!IInv'
  BY ProducerP!IInvStep, ProducerAssumption DEF IsFiniteSet, ProducerP!IsFiniteSet

LEMMA KeysAreFinite == IsFiniteSet(Keys)
  <1> DEFINE key == [e \in EventIds |-> KeyOf[e]]
  <1>1. key \in Surjection(EventIds, Keys)
    BY DEF Surjection, Keys
  <1> QED
    BY <1>1, FS_Surjection, ProducerAssumption

LEMMA GroupKeeps ==
    ASSUME MaxRetries >= 1
    PROVE  GroupP!IInv /\ [GroupP!Step]_(GroupP!vars) => GroupP!IInv'
  <1>1. IsFiniteSet({Partition})
    BY FS_Singleton
  <1>2. Malformed \notin Keys
    BY GroupAssumption DEF Keys
  <1> QED
    BY <1>1, <1>2, KeysAreFinite, GroupP!StepKeepsIInv, GroupAssumption
    DEF IsFiniteSet, GroupP!IsFiniteSet

-----------------------------------------------------------------------------
(* The steps of the composition are steps of its components.               *)

\* The producer of the composition is the producer that was proved about.
LEMMA SameProducer == Producer!Init => ProducerP!Init
  BY DEF Producer!Init, ProducerP!Init, Producer!NoTask, ProducerP!NoTask

LEMMA SameProducerStep == Producer!Next => ProducerP!Next
  <1> USE DEF Producer!Fault, ProducerP!Fault, Producer!NoTask, ProducerP!NoTask,
          Producer!processVars, ProducerP!processVars, Producer!dbVars, ProducerP!dbVars,
          Producer!jobVars, ProducerP!jobVars, Producer!envVars, ProducerP!envVars
  <1>1. Producer!Start => ProducerP!Start
    BY DEF Producer!Start, ProducerP!Start
  <1>2. Producer!Connect => ProducerP!Connect
    BY DEF Producer!Connect, ProducerP!Connect, Producer!ConnectOk, ProducerP!ConnectOk,
           Producer!ConnectFail, ProducerP!ConnectFail, Producer!LastAttempt,
           ProducerP!LastAttempt, Producer!TopicsOk, ProducerP!TopicsOk,
           Producer!TopicsFail, ProducerP!TopicsFail
  <1>3. ASSUME NEW e \in EventIds
        PROVE  /\ Producer!CreateEvent(e) => ProducerP!CreateEvent(e)
               /\ Producer!CreateEventFail(e) => ProducerP!CreateEventFail(e)
    BY DEF Producer!CreateEvent, ProducerP!CreateEvent, Producer!CreateEventFail,
           ProducerP!CreateEventFail, Producer!StoreRow, ProducerP!StoreRow
  <1>4. ASSUME NEW e \in EventIds
        PROVE  Producer!Task(e) => ProducerP!Task(e)
    BY DEF Producer!Task, ProducerP!Task, Producer!BgPublish, ProducerP!BgPublish,
           Producer!BgPublishFail, ProducerP!BgPublishFail, Producer!BgMark,
           ProducerP!BgMark, Producer!BgMarkFail, ProducerP!BgMarkFail
  <1>5. Producer!RepublishLoop => ProducerP!RepublishLoop
    <2>1. \A t : Producer!NextInBatch(t) => ProducerP!NextInBatch(t)
      BY DEF Producer!NextInBatch, ProducerP!NextInBatch
    <2>2. Producer!Batches = ProducerP!Batches
      BY DEF Producer!Batches, ProducerP!Batches, Producer!Candidates, ProducerP!Candidates,
             Producer!InWindow, ProducerP!InWindow, Producer!IsInjective, ProducerP!IsInjective,
             Producer!Cardinality, ProducerP!Cardinality
    <2>3. Producer!JobFetch => ProducerP!JobFetch
      BY <2>2 DEF Producer!JobFetch, ProducerP!JobFetch
    <2>4. /\ Producer!JobFetchFail => ProducerP!JobFetchFail
          /\ Producer!JobPublish => ProducerP!JobPublish
          /\ Producer!JobPublishFail => ProducerP!JobPublishFail
      BY <2>1 DEF Producer!JobFetchFail, ProducerP!JobFetchFail, Producer!JobPublish,
             ProducerP!JobPublish, Producer!JobPublishFail, ProducerP!JobPublishFail
    <2>5. /\ Producer!JobMark => ProducerP!JobMark
          /\ Producer!JobMarkFail => ProducerP!JobMarkFail
          /\ Producer!JobMarkPoisoned => ProducerP!JobMarkPoisoned
      BY <2>1 DEF Producer!JobMark, ProducerP!JobMark, Producer!JobMarkFail,
             ProducerP!JobMarkFail, Producer!JobMarkPoisoned, ProducerP!JobMarkPoisoned
    <2> QED
      BY <2>3, <2>4, <2>5 DEF Producer!RepublishLoop, ProducerP!RepublishLoop
  <1>6. /\ Producer!Crash => ProducerP!Crash
        /\ Producer!Stop => ProducerP!Stop
        /\ Producer!Tick => ProducerP!Tick
    BY DEF Producer!Crash, ProducerP!Crash, Producer!Stop, ProducerP!Stop,
           Producer!Halt, ProducerP!Halt, Producer!Tick, ProducerP!Tick
  <1> QED
    BY <1>1, <1>2, <1>3, <1>4, <1>5, <1>6 DEF Producer!Next, ProducerP!Next
\* The group of the composition is the group that was proved about.
LEMMA SameGroup == Group!Init => GroupP!Init
  BY DEF Group!Init, GroupP!Init

LEMMA SameGroupStep == Group!GroupStep => GroupP!GroupStep
  <1> USE DEF Group!groupVars, GroupP!groupVars, Group!loopVars, GroupP!loopVars,
          Group!dbVars, GroupP!dbVars, Group!faultVars, GroupP!faultVars,
          Group!DbFault, GroupP!DbFault, Group!BrokerFault, GroupP!BrokerFault
  <1>1. Group!Rebalance => GroupP!Rebalance
    BY DEF Group!Rebalance, GroupP!Rebalance, Group!ResumeFrom, GroupP!ResumeFrom
  <1>2. ASSUME NEW c \in Consumers
        PROVE  /\ Group!Start(c) => GroupP!Start(c)
               /\ Group!StartFail(c) => GroupP!StartFail(c)
               /\ Group!Halt(c) => GroupP!Halt(c)
               /\ Group!FetchFail(c) => GroupP!FetchFail(c)
    BY DEF Group!Start, GroupP!Start, Group!StartFail, GroupP!StartFail,
           Group!Halt, GroupP!Halt, Group!FetchFail, GroupP!FetchFail
  <1>3. ASSUME NEW c \in Consumers, NEW p \in {Partition}
        PROVE  Group!Fetch(c, p) => GroupP!Fetch(c, p)
    BY DEF Group!Fetch, GroupP!Fetch
  <1>4. ASSUME NEW c \in Consumers
        PROVE  Group!Handle(c) => GroupP!Handle(c)
    <2> USE DEF Group!HandlerFailed, GroupP!HandlerFailed, Group!Payload, GroupP!Payload,
            Group!AddRow, GroupP!AddRow, Group!LoopDies, GroupP!LoopDies,
            Group!CommitPositions, GroupP!CommitPositions
    <2>1. /\ Group!Check(c) => GroupP!Check(c)
          /\ Group!CheckFail(c) => GroupP!CheckFail(c)
      BY DEF Group!Check, GroupP!Check, Group!CheckFail, GroupP!CheckFail
    <2>2. /\ Group!Insert(c) => GroupP!Insert(c)
          /\ Group!InsertConflict(c) => GroupP!InsertConflict(c)
          /\ Group!InsertFail(c) => GroupP!InsertFail(c)
      BY DEF Group!Insert, GroupP!Insert, Group!InsertConflict, GroupP!InsertConflict,
             Group!InsertFail, GroupP!InsertFail
    <2>3. /\ Group!Retry(c) => GroupP!Retry(c)
          /\ Group!DeadLetter(c) => GroupP!DeadLetter(c)
          /\ Group!DeadLetterFail(c) => GroupP!DeadLetterFail(c)
      BY DEF Group!Retry, GroupP!Retry, Group!DeadLetter, GroupP!DeadLetter,
             Group!DeadLetterFail, GroupP!DeadLetterFail
    <2>4. /\ Group!Commit(c) => GroupP!Commit(c)
          /\ Group!CommitFail(c) => GroupP!CommitFail(c)
      BY DEF Group!Commit, GroupP!Commit, Group!CommitFail, GroupP!CommitFail
    <2> QED
      BY <2>1, <2>2, <2>3, <2>4 DEF Group!Handle, GroupP!Handle
  <1> QED
    BY <1>1, <1>2, <1>3, <1>4 DEF Group!GroupStep, GroupP!GroupStep

\* The log of the group is the topic.
LEMMA LogIsTopic ==
    ASSUME NEW t \in Seq(EventIds)
    PROVE  /\ LogOf(t) = [p \in {Partition} |-> LogOf(t)[Partition]]
           /\ LogOf(t)[Partition] \in Seq(Keys)
           /\ Len(LogOf(t)[Partition]) = Len(t)
           /\ \A n \in 1 .. Len(t) : LogOf(t)[Partition][n] = KeyOf[t[n]]
  <1> DEFINE keys == [n \in DOMAIN t |-> KeyOf[t[n]]]
  <1>1. LogOf(t) = [p \in {Partition} |-> keys]
    BY DEF LogOf, EventMessage
  <1>2. DOMAIN t = 1 .. Len(t) /\ Len(t) \in Nat
    OBVIOUS
  <1>3. keys \in [1 .. Len(t) -> Keys]
    BY <1>2 DEF Keys
  <1>4. keys \in Seq(Keys) /\ Len(keys) = Len(t)
    BY <1>2, <1>3
  <1> QED
    BY <1>1, <1>2, <1>4

\* A record that is appended is a message that arrives.
LEMMA ArrivesAsRecord ==
    ASSUME ProducerP!IInv, UNCHANGED groupVars,
           NEW e \in EventIds, topic' = Append(topic, e)
    PROVE  GroupP!Arrive(Partition, KeyOf[e])
  <1>1. topic \in Seq(EventIds) /\ topic' \in Seq(EventIds)
    BY DEF ProducerP!IInv, ProducerP!TypeOK
  <1>0. /\ Len(topic') = Len(topic) + 1 /\ Len(topic) \in Nat
        /\ \A n \in 1 .. Len(topic) : topic'[n] = topic[n]
        /\ topic'[Len(topic) + 1] = e
    BY <1>1, AppendProperties
  <1> DEFINE old == LogOf(topic)[Partition]
             new == LogOf(topic')[Partition]
  <1>2. old \in Seq(Keys) /\ new \in Seq(Keys) /\ KeyOf[e] \in Keys
    BY <1>1, LogIsTopic DEF Keys
  <1>a. Len(old) = Len(topic) /\ \A n \in 1 .. Len(topic) : old[n] = KeyOf[topic[n]]
    BY <1>1, LogIsTopic
  <1>b. Len(new) = Len(topic') /\ \A n \in 1 .. Len(topic') : new[n] = KeyOf[topic'[n]]
    BY <1>1, LogIsTopic
  <1> HIDE DEF old, new
  <1>3. Len(new) = Len(old) + 1
    BY <1>0, <1>a, <1>b
  <1>4. \A n \in 1 .. Len(old) : new[n] = old[n]
    BY <1>0, <1>a, <1>b
  <1>5. new[Len(old) + 1] = KeyOf[e]
    BY <1>0, <1>a, <1>b
  <1>6. new = Append(old, KeyOf[e])
    BY <1>2, <1>3, <1>4, <1>5
  <1>7. LogOf(topic') = [LogOf(topic) EXCEPT ![Partition] = Append(@, KeyOf[e])]
    BY <1>1, <1>6, LogIsTopic DEF old, new
  <1>8. UNCHANGED <<GroupP!groupVars, GroupP!loopVars, GroupP!dbVars, dlq, GroupP!faultVars>>
    BY DEF groupVars, GroupP!groupVars, GroupP!loopVars, GroupP!dbVars, GroupP!faultVars
  <1> QED
    BY <1>7, <1>8 DEF GroupP!Arrive
\* What the group sees of a step of the producer: a message that arrives, or nothing.
LEMMA ProducerFeeds ==
    ASSUME ProducerP!IInv, ProducerStep
    PROVE  /\ ProducerP!Next
           /\ [GroupP!Step]_(GroupP!vars)
  <1>1. ProducerP!Next /\ UNCHANGED groupVars
    BY SameProducerStep DEF ProducerStep
  <1>2. /\ ProducerP!IInv => stored \subseteq EventIds
        /\ \/ stored' = stored /\ topic' = topic
           \/ topic' = topic /\ \E e \in EventIds : stored' = stored \cup {e}
           \/ stored' = stored /\ \E e \in stored : topic' = Append(topic, e)
    BY <1>1, ProducerP!TopicStep, ProducerAssumption
    DEF IsFiniteSet, ProducerP!IsFiniteSet, ProducerP!IInv, ProducerP!TypeOK
  <1>3. CASE topic' = topic
    BY <1>1, <1>3 DEF GroupP!vars, groupVars, GroupP!groupVars, GroupP!loopVars,
                      GroupP!dbVars, GroupP!faultVars
  <1>4. CASE \E e \in stored : topic' = Append(topic, e)
    <2>1. PICK e \in EventIds : topic' = Append(topic, e)
      BY <1>2, <1>4
    <2>2. GroupP!Arrive(Partition, KeyOf[e]) /\ KeyOf[e] \in Keys
      BY <1>1, <2>1, ArrivesAsRecord DEF Keys
    <2>3. GroupP!Step
      BY <2>2 DEF GroupP!Step
    <2> QED
      BY <1>1, <2>3
  <1> QED
    BY <1>1, <1>2, <1>3, <1>4

\* What each component sees of a step of the group.
LEMMA GroupMoves ==
    ASSUME GroupStep
    PROVE  /\ UNCHANGED ProducerP!vars
           /\ GroupP!Step
  <1>1. UNCHANGED ProducerP!vars
    BY DEF GroupStep, producerVars, ProducerP!vars, ProducerP!processVars,
           ProducerP!dbVars, ProducerP!jobVars, ProducerP!envVars
  <1>2. GroupP!Step
    BY SameGroupStep DEF GroupStep, GroupP!Step
  <1> QED
    BY <1>1, <1>2

\* Every step of the composition is one of each component, or leaves it alone.
LEMMA BothStep ==
    ASSUME ProducerP!IInv, [Next]_vars
    PROVE  /\ [ProducerP!Next]_(ProducerP!vars)
           /\ [GroupP!Step]_(GroupP!vars)
  <1>1. CASE ProducerStep
    BY <1>1, ProducerFeeds
  <1>2. CASE GroupStep
    BY <1>2, GroupMoves
  <1>3. CASE UNCHANGED vars
    BY <1>3 DEF vars, producerVars, groupVars, ProducerP!vars, ProducerP!processVars,
           ProducerP!dbVars, ProducerP!jobVars, ProducerP!envVars, GroupP!vars,
           GroupP!groupVars, GroupP!loopVars, GroupP!dbVars, GroupP!faultVars
  <1> QED
    BY <1>1, <1>2, <1>3 DEF Next

-----------------------------------------------------------------------------
(* The invariants of both components hold in the composition.              *)

LEMMA IInvInit == Init => IInv
  <1> SUFFICES ASSUME Init
               PROVE  IInv
    OBVIOUS
  <1>1. ProducerP!IInv
    BY SameProducer, ProducerP!IInvInit, ProducerAssumption
    DEF Init, IsFiniteSet, ProducerP!IsFiniteSet
  <1>2. IsFiniteSet({Partition}) /\ Malformed \notin Keys
    BY FS_Singleton, GroupAssumption DEF Keys
  <1>3. GroupP!IInv
    BY <1>2, SameGroup, KeysAreFinite, GroupP!IInvInit, GroupAssumption
    DEF Init, IsFiniteSet, GroupP!IsFiniteSet
  <1> QED
    BY <1>1, <1>3 DEF IInv

LEMMA IInvStep ==
    ASSUME MaxRetries >= 1
    PROVE  IInv /\ [Next]_vars => IInv'
  BY BothStep, ProducerKeeps, GroupKeeps DEF IInv

LEMMA Inductive ==
    ASSUME MaxRetries >= 1
    PROVE  Spec => []IInv
  BY IInvInit, IInvStep, PTL DEF Spec

\* End to end, no event is lost: one that the producer has marked has its
\* notification, was given up, or has a record the group has still to pass, for any
\* number of events, replicas, failures, rebalances and restarts.
THEOREM NothingLostEndToEnd ==
    ASSUME MaxRetries >= 1
    PROVE  Spec => []MarkedIsHandled
  <1>1. IInv => MarkedIsHandled
    <2> SUFFICES ASSUME IInv, NEW e \in published,
                        \A n \in DOMAIN topic : topic[n] = e => Passed(n)
                 PROVE  HasRow(e) \/ GivenUp(e)
      BY DEF MarkedIsHandled
    <2>1. /\ topic \in Seq(EventIds)
          /\ published \subseteq {topic[i] : i \in DOMAIN topic}
      BY DEF IInv, ProducerP!IInv, ProducerP!TypeOK, ProducerP!MarkedImpliesOnTopic,
             ProducerP!ToSet
    <2>2. PICK n \in 1 .. Len(topic) : topic[n] = e
      BY <2>1
    <2>3. n \in 1 .. committed[Partition]
      <3>1. n <= committed[Partition]
        BY <2>1, <2>2 DEF Passed
      <3>2. committed[Partition] \in Nat
        BY DEF IInv, GroupP!IInv, GroupP!TypeOK
      <3> QED
        BY <2>2, <3>1, <3>2
    <2>4. GroupP!Settled(Partition, n)
      BY <2>3 DEF IInv, GroupP!IInv, GroupP!CommittedIsSettled
    <2>5. LogOf(topic)[Partition][n] = KeyOf[e] /\ KeyOf[e] # Malformed
      <3>1. e \in EventIds
        BY <2>1, <2>2
      <3> QED
        BY <2>1, <2>2, <3>1, LogIsTopic, GroupAssumption
    <2>6. n \in DOMAIN topic /\ topic[n] = e
      BY <2>1, <2>2
    <2>7. notified[KeyOf[e]] > 0 \/ <<Partition, n>> \in dlq
      BY <2>4, <2>5 DEF GroupP!Settled, GroupP!Notified, GroupP!DeadLettered
    <2> QED
      BY <2>6, <2>7 DEF HasRow, GivenUp
  <1> QED
    BY <1>1, Inductive, PTL

-----------------------------------------------------------------------------
(* The notifications implement the ledger of the stored events.            *)

\* A record is one of a stored event, so a key that arrived was asked for.
LEMMA ArrivedIsRequested ==
    ASSUME IInv, NEW k \in GroupP!Requested
    PROVE  \E e \in stored : k = KeyOf[e]
  <1>1. topic \in Seq(EventIds) /\ \A n \in DOMAIN topic : topic[n] \in stored
    BY DEF IInv, ProducerP!IInv, ProducerP!TypeOK, ProducerP!InMemoryAgrees, ProducerP!ToSet
  <1>2. PICK n \in 1 .. Len(LogOf(topic)[Partition]) : LogOf(topic)[Partition][n] = k
    BY DEF GroupP!Requested
  <1>3. n \in DOMAIN topic /\ k = KeyOf[topic[n]]
    BY <1>1, <1>2, LogIsTopic
  <1> QED
    BY <1>1, <1>3

LEMMA LedgerStep ==
    ASSUME MaxRetries >= 1, IInv, [Next]_vars
    PROVE  [Ledger!Next]_(Ledger!ledger)
  <1>0. stored \subseteq EventIds
    BY DEF IInv, ProducerP!IInv, ProducerP!TypeOK
  <1>1. CASE ProducerStep
    <2>1. notified' = notified /\ ProducerP!Next
      BY <1>1, SameProducerStep DEF ProducerStep, groupVars
    <2>2. stored' = stored \/ \E e \in EventIds : stored' = stored \cup {e}
      BY <2>1, ProducerP!TopicStep, ProducerAssumption
      DEF IInv, IsFiniteSet, ProducerP!IsFiniteSet
    <2>3. CASE stored' = stored
      BY <2>1, <2>3 DEF Ledger!ledger
    <2>4. CASE \E e \in EventIds : stored' = stored \cup {e}
      <3>1. PICK e \in EventIds : stored' = stored \cup {e}
        BY <2>4
      <3>2. {KeyOf[f] : f \in stored'} = {KeyOf[f] : f \in stored} \cup {KeyOf[e]}
        BY <3>1
      <3>3. KeyOf[e] \in Keys
        BY DEF Keys
      <3> QED
        BY <2>1, <3>2, <3>3 DEF Ledger!Next, Ledger!Request
    <2> QED
      BY <2>2, <2>3, <2>4
  <1>2. CASE GroupStep
    <2>1. stored' = stored
      BY <1>2 DEF GroupStep, producerVars
    <2>2. [GroupP!Ledger!Next]_(GroupP!Ledger!ledger)
      <3>1. IsFiniteSet({Partition}) /\ Malformed \notin Keys
        BY FS_Singleton, GroupAssumption DEF Keys
      <3>2. GroupP!IInv /\ GroupP!Step
        BY <1>2, GroupMoves DEF IInv
      <3> QED
        BY <3>1, <3>2, KeysAreFinite, GroupP!LedgerStep, GroupAssumption
        DEF IsFiniteSet, GroupP!IsFiniteSet
    <2>3. \/ notified' = notified
          \/ \E k \in Keys : /\ k \in GroupP!Requested /\ notified[k] = 0
                             /\ notified' = [notified EXCEPT ![k] = 1]
      BY <2>2 DEF GroupP!Ledger!Next, GroupP!Ledger!ledger, GroupP!Ledger!Request,
                  GroupP!Ledger!Notify
    <2>4. CASE notified' = notified
      BY <2>1, <2>4 DEF Ledger!ledger
    <2>5. ASSUME NEW k \in Keys, k \in GroupP!Requested, notified[k] = 0,
                 notified' = [notified EXCEPT ![k] = 1]
          PROVE  Ledger!Next
      <3>1. k \in {KeyOf[e] : e \in stored}
        BY <2>5, ArrivedIsRequested
      <3> QED
        BY <2>1, <2>5, <3>1 DEF Ledger!Next, Ledger!Notify
    <2> QED
      BY <2>3, <2>4, <2>5
  <1>3. CASE UNCHANGED vars
    BY <1>3 DEF vars, producerVars, groupVars, Ledger!ledger
  <1> QED
    BY <1>1, <1>2, <1>3 DEF Next

\* End to end a key has at most one notification, and only if an event with that
\* key was stored: the system implements NotificationLedger over its requests.
THEOREM OnceEndToEnd ==
    ASSUME MaxRetries >= 1
    PROVE  Spec => DeliversOnce
  <1>1. Init => Ledger!Init
    BY DEF Init, Producer!Init, Group!Init, Ledger!Init
  <1>2. IInv /\ [Next]_vars => [Ledger!Next]_(Ledger!ledger)
    BY LedgerStep
  <1> QED
    BY <1>1, <1>2, Inductive, PTL DEF Spec, DeliversOnce, Ledger!Spec
=============================================================================
