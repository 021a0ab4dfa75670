--------------------------- MODULE EventPipeline ----------------------------
(***************************************************************************)
(* Producer and consumer group composed: ProducerOutbox writes the topic,  *)
(* ConsumerLoop reads it, and each of them crashes and fails on its own.   *)
(* The messages the consumers see are the records of the producer's topic, *)
(* so the log of ConsumerLoop is a function of `topic' and the producer    *)
(* takes the place of the Arrive actions.                                  *)
(*                                                                         *)
(* All events are of the partition modelled here; partitions do not        *)
(* depend on each other.  Several events with one key are what a client    *)
(* makes that posts an order event again.                                  *)
(***************************************************************************)
EXTENDS Integers, Sequences, FiniteSets

CONSTANTS
    EventIds, Window, BatchLimit, ConnectAttempts,   \* see ProducerOutbox
    MaxTime, MaxFaults, MaxRestarts,
    KeyOf,                                           \* <<order_id, event_type>> of every event
    Consumers, Partition, Malformed,                 \* see ConsumerLoop
    NoConsumer, NoMessage, MaxRetries, MaxLog,
    MaxDbFaults, MaxBrokerFaults, MaxRebalances,
    MaxReplicaRestarts                               \* bound: crashes and stops of a replica

ASSUME ProducerAssumption ==
    /\ IsFiniteSet(EventIds)
    /\ Window \in Nat /\ BatchLimit \in Nat \ {0} /\ ConnectAttempts \in Nat \ {0}
    /\ MaxTime \in Nat /\ MaxFaults \in Nat /\ MaxRestarts \in Nat
ASSUME GroupAssumption ==
    /\ IsFiniteSet(Consumers) /\ Consumers # {} /\ NoConsumer \notin Consumers
    /\ \A e \in EventIds : KeyOf[e] # Malformed
    /\ NoMessage \notin {Partition} \X Nat
    /\ MaxRetries \in Nat /\ MaxLog \in Nat
    /\ MaxDbFaults \in Nat /\ MaxBrokerFaults \in Nat
    /\ MaxRebalances \in Nat /\ MaxReplicaRestarts \in Nat

VARIABLES
    up, attempt, kafka_client, stored, createdAt, published, bg,
    job, batch, poisoned, tally, counted, topic, now, faults, restarts,
    committed, position, owner, pc, msg,
    tries,              \* `attempt' of ConsumerLoop
    notified, dlq, created, dbFaults, brokerFaults, rebalances,
    replicaRestarts     \* `restarts' of ConsumerLoop

Keys == {KeyOf[e] : e \in EventIds}

\* Faulty variant of EventMessage: its fields are not those of EventKafkaPayload.
EventMessageMismatch(e) == Malformed

\* What a consumer parses of the EventKafkaPayload that the producer wrote for e.
EventMessage(e) == KeyOf[e]

\* The topic, as the consumers read it.
LogOf(records) == [p \in {Partition} |-> [n \in DOMAIN records |-> EventMessage(records[n])]]

Producer == INSTANCE ProducerOutbox WITH
                OrderOf <- [e \in EventIds |-> KeyOf[e][1]]

Group == INSTANCE ConsumerLoop WITH
                Partitions <- {Partition}, log <- LogOf(topic), attempt <- tries,
                restarts <- replicaRestarts, MaxRestarts <- MaxReplicaRestarts

producerVars == <<up, attempt, kafka_client, stored, createdAt, published, bg, job, batch,
                  poisoned, tally, counted, topic, now, faults, restarts>>
groupVars == <<committed, position, owner, pc, msg, tries, notified, dlq, created,
               dbFaults, brokerFaults, rebalances, replicaRestarts>>
vars == <<producerVars, groupVars>>

Init == Producer!Init /\ Group!Init

ProducerStep == Producer!Next /\ UNCHANGED groupVars

GroupStep == UNCHANGED producerVars /\ Group!GroupStep

Next == ProducerStep \/ GroupStep

Spec == Init /\ [][Next]_vars

FairSpec == Spec /\ Producer!Fairness /\ Group!Fairness

-----------------------------------------------------------------------------
(* Properties.                                                             *)

Passed(n) == n <= committed[Partition]

HasRow(e) == notified[KeyOf[e]] > 0

GivenUp(e) == \E n \in DOMAIN topic : topic[n] = e /\ <<Partition, n>> \in dlq

\* End to end, nothing is lost: once the producer has marked an event (and will
\* not look at it again), the event has its notification, was given up to the
\* dead letter queue, or has a record the group has still to pass.
MarkedIsHandled ==
    \A e \in published :
        HasRow(e) \/ GivenUp(e) \/ \E n \in DOMAIN topic : topic[n] = e /\ ~Passed(n)

\* End to end the system implements the ledger: whatever is posted twice,
\* republished, redelivered or raced for, a key gets at most one notification,
\* and only if an event with that key was stored.
Ledger == INSTANCE NotificationLedger WITH
            Ids <- Keys, requested <- {KeyOf[e] : e \in stored}, rows <- notified
DeliversOnce == Ledger!Spec

\* When the producer has no more to say the group passes all its records: as long
\* as no call to the broker fails, which ends a loop, neither a failing database
\* nor restarts and rebalances leave one behind.
AllPassed == <>[](committed[Partition] = Len(topic))

\* A stored event ends with a notification or in the dead letter queue, unless it
\* expired, the producer came up without Kafka, or a replica lost its loop.
Deaf == \E c \in Consumers : pc[c] \in {"dead", "detached"}
EventuallyHandled ==
    \A e \in EventIds :
        e \in stored ~> \/ HasRow(e) \/ GivenUp(e) \/ Deaf
                        \/ Producer!Expired(e) \/ Producer!Degraded
=============================================================================
