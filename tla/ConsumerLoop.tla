---------------------------- MODULE ConsumerLoop ----------------------------
(***************************************************************************)
(* The consumer service: replicas of one consumer group read the topic     *)
(* `order-events', create at most one notification per (order_id,          *)
(* event_type), retry a failed handler, give up to the dead letter queue,  *)
(* and commit offsets by hand.                                             *)
(*                                                                         *)
(* Every replica runs consume_loop as one task, one message at a time; the *)
(* coordinator of its Kafka client rebalances the group in the background, *)
(* at any of the loop's awaits.  A message is its idempotency key, or      *)
(* Malformed when _parse_message returns None for it.  Offsets count       *)
(* messages: the committed offset n says that messages 1 .. n are done.    *)
(***************************************************************************)
EXTENDS Integers, Sequences, FiniteSets, FiniteSetsExt

CONSTANTS
    Consumers,        \* replicas of the service
    Partitions,       \* partitions of order-events
    Keys,             \* pairs (order_id, event_type)
    Malformed,        \* a payload that is not a valid EventMessage
    NoConsumer,       \* the owner of a partition nobody reads
    NoMessage,        \* the message of a loop that is handling none
    MaxRetries,       \* consumer_max_retries: handler calls per message
    MaxLog,           \* bound: messages on all partitions together
    MaxDbFaults,      \* bound: failed calls to Postgres
    MaxBrokerFaults,  \* bound: failed calls to Kafka
    MaxRebalances,    \* bound: rebalances while every partition has an owner
    MaxRestarts       \* bound: crashes and stops of a replica

ASSUME GroupAssumption ==
    /\ IsFiniteSet(Consumers) /\ Consumers # {} /\ NoConsumer \notin Consumers
    /\ IsFiniteSet(Partitions)
ASSUME MessagesAssumption ==
    /\ IsFiniteSet(Keys)
    /\ Malformed \notin Keys
    /\ NoMessage \notin Partitions \X Nat
ASSUME NumbersAssumption ==
    /\ MaxRetries \in Nat /\ MaxLog \in Nat
    /\ MaxDbFaults \in Nat /\ MaxBrokerFaults \in Nat
    /\ MaxRebalances \in Nat /\ MaxRestarts \in Nat

VARIABLES
    log,           \* the messages of every partition
    committed,     \* committed offset of every partition
    position,      \* fetch position of the owner of every partition
    owner,         \* the replica every partition is assigned to
    pc,            \* where the loop of every replica is
    msg,           \* the <<partition, offset>> it is handling
    attempt,       \* its handler call for this message, from 1
    notified,      \* rows in `notifications' for every key
    dlq,           \* <<partition, offset>> of the messages in order-events-dlq
    created,       \* consumer_notifications_created_total of every replica
    dbFaults, brokerFaults, rebalances, restarts

groupVars == <<committed, position, owner>>
loopVars  == <<pc, msg, attempt>>
dbVars    == <<notified, created>>
faultVars == <<dbFaults, brokerFaults, rebalances, restarts>>
vars == <<log, groupVars, loopVars, dbVars, dlq, faultVars>>

Handling == {"check", "insert", "backoff", "dlq", "commit"}
Locations == Handling \cup {"down", "detached", "poll", "dead"}

Init ==
    /\ log = [p \in Partitions |-> <<>>]
    /\ committed = [p \in Partitions |-> 0]
    /\ position = [p \in Partitions |-> 0]
    /\ owner = [p \in Partitions |-> NoConsumer]
    /\ pc = [c \in Consumers |-> "down"]
    /\ msg = [c \in Consumers |-> NoMessage]
    /\ attempt = [c \in Consumers |-> 0]
    /\ notified = [k \in Keys |-> 0]
    /\ dlq = {}
    /\ created = [c \in Consumers |-> 0]
    /\ dbFaults = 0
    /\ brokerFaults = 0
    /\ rebalances = 0
    /\ restarts = 0

DbFault ==
    /\ dbFaults < MaxDbFaults
    /\ dbFaults' = dbFaults + 1
    /\ UNCHANGED <<brokerFaults, rebalances, restarts>>

BrokerFault ==
    /\ brokerFaults < MaxBrokerFaults
    /\ brokerFaults' = brokerFaults + 1
    /\ UNCHANGED <<dbFaults, rebalances, restarts>>

Payload(m) == log[m[1]][m[2]]

-----------------------------------------------------------------------------
(* The world around the loop.                                              *)

\* A message is appended to the topic.
Arrive(p, m) ==
    /\ log' = [log EXCEPT ![p] = Append(@, m)]
    /\ UNCHANGED <<groupVars, loopVars, dbVars, dlq, faultVars>>

\* lifespan: connect succeeds and the loop is started as a task.
Start(c) ==
    /\ pc[c] = "down"
    /\ pc' = [pc EXCEPT ![c] = "poll"]
    /\ UNCHANGED <<log, groupVars, msg, attempt, dbVars, dlq, faultVars>>

\* connect gave up: the service serves /metrics and reads nothing.  A consumer
\* that an attempt started may still be in the group (see ConsumerLifecycle).
StartFail(c) ==
    /\ pc[c] = "down"
    /\ BrokerFault
    /\ pc' = [pc EXCEPT ![c] = "detached"]
    /\ UNCHANGED <<log, groupVars, msg, attempt, dbVars, dlq>>

\* Faulty variant of ResumeFrom: a new owner goes on where the old one had fetched.
ResumeFromFetched == position

\* Faulty variant of ResumeFrom: auto_offset_reset is taken for the start position.
ResumeFromEarliest == [p \in Partitions |-> 0]

\* Where the owners go on after a rebalance.
ResumeFrom == committed

\* The members share the partitions out anew.  The coordinator does not wait
\* for the message a loop is handling, and every owner goes on from the
\* committed offset, also on a partition it keeps.
Rebalance ==
    /\ \/ /\ \E p \in Partitions : owner[p] = NoConsumer
          /\ UNCHANGED rebalances
       \/ /\ rebalances < MaxRebalances
          /\ rebalances' = rebalances + 1
    /\ owner' \in [Partitions -> {c \in Consumers : pc[c] # "down"}]
    /\ position' = ResumeFrom
    /\ UNCHANGED <<log, committed, loopVars, dbVars, dlq, dbFaults, brokerFaults, restarts>>

\* The process ends at any await, by a crash or because the lifespan cancels
\* the loop's task; the group takes its partitions away.
Halt(c) ==
    /\ pc[c] # "down"
    /\ restarts < MaxRestarts
    /\ restarts' = restarts + 1
    /\ pc' = [pc EXCEPT ![c] = "down"]
    /\ msg' = [msg EXCEPT ![c] = NoMessage]
    /\ attempt' = [attempt EXCEPT ![c] = 0]
    /\ created' = [created EXCEPT ![c] = 0]
    /\ owner' = [p \in Partitions |-> IF owner[p] = c THEN NoConsumer ELSE owner[p]]
    /\ UNCHANGED <<log, committed, position, notified, dlq, dbFaults, brokerFaults, rebalances>>

-----------------------------------------------------------------------------
(* consume_loop.                                                           *)

\* getone returns the next message of an assigned partition.  A malformed one
\* goes straight to commit, and so does every one if no attempt is allowed.
Fetch(c, p) ==
    /\ pc[c] = "poll"
    /\ owner[p] = c
    /\ position[p] < Len(log[p])
    /\ position' = [position EXCEPT ![p] = @ + 1]
    /\ msg' = [msg EXCEPT ![c] = <<p, position[p] + 1>>]
    /\ attempt' = [attempt EXCEPT ![c] = 1]
    /\ pc' = [pc EXCEPT ![c] =
                 IF log[p][position[p] + 1] = Malformed \/ MaxRetries = 0
                 THEN "commit" ELSE "check"]
    /\ UNCHANGED <<log, committed, owner, dbVars, dlq, faultVars>>

\* Faulty variant of FetchFail: the message whose getone raised is skipped.
FetchFailSkips(c) ==
    /\ pc[c] = "poll"
    /\ BrokerFault
    /\ \E p \in Partitions :
         /\ owner[p] = c /\ position[p] < Len(log[p])
         /\ position' = [position EXCEPT ![p] = @ + 1]
    /\ UNCHANGED <<log, committed, owner, loopVars, dbVars, dlq>>

\* getone raises: logged, and tried again.
FetchFail(c) ==
    /\ pc[c] = "poll"
    /\ BrokerFault
    /\ UNCHANGED <<log, groupVars, loopVars, dbVars, dlq>>

\* Faulty variant of HandlerFailed: one attempt too many.
HandlerFailedOneMore(c) ==
    pc' = [pc EXCEPT ![c] = IF attempt[c] <= MaxRetries THEN "backoff" ELSE "dlq"]

\* Faulty variant of HandlerFailed: the last error is dropped, the offset committed.
HandlerFailedCommits(c) ==
    pc' = [pc EXCEPT ![c] = IF attempt[c] < MaxRetries THEN "backoff" ELSE "commit"]

\* Faulty variant of HandlerFailed: the last error is raised out of the loop.
HandlerFailedRaises(c) ==
    pc' = [pc EXCEPT ![c] = IF attempt[c] < MaxRetries THEN "backoff" ELSE "dead"]

\* The handler raised: another attempt after a pause, or the last error.
HandlerFailed(c) ==
    pc' = [pc EXCEPT ![c] = IF attempt[c] < MaxRetries THEN "backoff" ELSE "dlq"]

\* NotificationService.exists: already processed, or go on to the insert.
Check(c) ==
    /\ pc[c] = "check"
    /\ pc' = [pc EXCEPT ![c] =
                 IF notified[Payload(msg[c])] > 0 THEN "commit" ELSE "insert"]
    /\ UNCHANGED <<log, groupVars, msg, attempt, dbVars, dlq, faultVars>>

CheckFail(c) ==
    /\ pc[c] = "check"
    /\ DbFault
    /\ HandlerFailed(c)
    /\ UNCHANGED <<log, groupVars, msg, attempt, dbVars, dlq>>

\* Faulty variant of AddRow: the table has no unique constraint.
AddRowUnconstrained(k) == notified' = [notified EXCEPT ![k] = @ + 1]

\* uq_notifications_order_id_event_type accepts the row.
AddRow(k) ==
    /\ notified[k] = 0
    /\ notified' = [notified EXCEPT ![k] = @ + 1]

Insert(c) ==
    /\ pc[c] = "insert"
    /\ AddRow(Payload(msg[c]))
    /\ created' = [created EXCEPT ![c] = @ + 1]
    /\ pc' = [pc EXCEPT ![c] = "commit"]
    /\ UNCHANGED <<log, groupVars, msg, attempt, dlq, faultVars>>

\* Faulty variant of InsertConflict: an IntegrityError is never retried.
InsertConflictGivesUp(c) ==
    /\ pc[c] = "insert"
    /\ notified[Payload(msg[c])] > 0
    /\ pc' = [pc EXCEPT ![c] = "dlq"]
    /\ UNCHANGED <<log, groupVars, msg, attempt, dbVars, dlq, faultVars>>

\* Another replica inserted the row after the check: IntegrityError.
InsertConflict(c) ==
    /\ pc[c] = "insert"
    /\ notified[Payload(msg[c])] > 0
    /\ HandlerFailed(c)
    /\ UNCHANGED <<log, groupVars, msg, attempt, dbVars, dlq, faultVars>>

\* Faulty variant of InsertFail: the counter is incremented before the commit.
InsertFailCounts(c) ==
    /\ pc[c] = "insert"
    /\ DbFault
    /\ AddRow(Payload(msg[c])) \/ UNCHANGED notified
    /\ created' = [created EXCEPT ![c] = @ + 1]
    /\ HandlerFailed(c)
    /\ UNCHANGED <<log, groupVars, msg, attempt, dlq>>

\* Flush, refresh or commit raises; a commit may have been done nevertheless.
InsertFail(c) ==
    /\ pc[c] = "insert"
    /\ DbFault
    /\ AddRow(Payload(msg[c])) \/ UNCHANGED notified
    /\ HandlerFailed(c)
    /\ UNCHANGED <<log, groupVars, msg, attempt, created, dlq>>

\* The backoff sleep ends.
Retry(c) ==
    /\ pc[c] = "backoff"
    /\ attempt' = [attempt EXCEPT ![c] = @ + 1]
    /\ pc' = [pc EXCEPT ![c] = "check"]
    /\ UNCHANGED <<log, groupVars, msg, dbVars, dlq, faultVars>>

DeadLetter(c) ==
    /\ pc[c] = "dlq"
    /\ dlq' = dlq \cup {msg[c]}
    /\ pc' = [pc EXCEPT ![c] = "commit"]
    /\ UNCHANGED <<log, groupVars, msg, attempt, dbVars, faultVars>>

\* An exception outside the handler's try ends the loop's task for good; the
\* process stays, and so do its membership and its partitions until a rebalance.
LoopDies(c) ==
    /\ pc' = [pc EXCEPT ![c] = "dead"]
    /\ msg' = [msg EXCEPT ![c] = NoMessage]
    /\ attempt' = [attempt EXCEPT ![c] = 0]

DeadLetterFail(c) ==
    /\ pc[c] = "dlq"
    /\ BrokerFault
    /\ dlq' \in {dlq, dlq \cup {msg[c]}}
    /\ LoopDies(c)
    /\ UNCHANGED <<log, groupVars, dbVars>>

\* Faulty variant of CommitPositions: partitions of other replicas included.
CommitPositionsOfAll(c) == committed' = position

\* commit() without arguments commits the position of every partition that is
\* assigned to the replica at this moment.
CommitPositions(c) ==
    committed' = [p \in Partitions |->
                     IF owner[p] = c THEN position[p] ELSE committed[p]]

Commit(c) ==
    /\ pc[c] = "commit"
    /\ CommitPositions(c)
    /\ pc' = [pc EXCEPT ![c] = "poll"]
    /\ msg' = [msg EXCEPT ![c] = NoMessage]
    /\ attempt' = [attempt EXCEPT ![c] = 0]
    /\ UNCHANGED <<log, position, owner, dbVars, dlq, faultVars>>

CommitFail(c) ==
    /\ pc[c] = "commit"
    /\ BrokerFault
    /\ CommitPositions(c) \/ UNCHANGED committed
    /\ LoopDies(c)
    /\ UNCHANGED <<log, position, owner, dbVars, dlq>>

-----------------------------------------------------------------------------
Handle(c) ==
    \/ Check(c) \/ CheckFail(c)
    \/ Insert(c) \/ InsertConflict(c) \/ InsertFail(c)
    \/ Retry(c)
    \/ DeadLetter(c) \/ DeadLetterFail(c)
    \/ Commit(c) \/ CommitFail(c)

\* What the group does with the messages that are there.
GroupStep ==
    \/ Rebalance
    \/ \E c \in Consumers :
          \/ Start(c) \/ StartFail(c) \/ Halt(c)
          \/ FetchFail(c)
          \/ \E p \in Partitions : Fetch(c, p)
          \/ Handle(c)

\* A step of the group or of those who write the topic.
Step ==
    \/ \E p \in Partitions, m \in Keys \cup {Malformed} : Arrive(p, m)
    \/ GroupStep

Room == MapThenSumSet(LAMBDA p : Len(log[p]), Partitions) < MaxLog

Next ==
    \/ \E p \in Partitions, m \in Keys \cup {Malformed} : Room /\ Arrive(p, m)
    \/ GroupStep

Spec == Init /\ [][Next]_vars

\* The container is restarted, the group assigns partitions nobody owns, and a
\* loop goes on when what it awaits is there.
Fairness ==
    /\ WF_vars(Rebalance /\ \E p \in Partitions : owner[p] = NoConsumer)
    /\ \A c \in Consumers :
          /\ WF_vars(Start(c))
          /\ WF_vars(Handle(c))
          /\ \A p \in Partitions : WF_vars(Fetch(c, p))

FairSpec == Spec /\ Fairness

-----------------------------------------------------------------------------
(* Properties.                                                             *)

\* Type invariant.
TypeOK ==
    /\ log \in [Partitions -> Seq(Keys \cup {Malformed})]
    /\ committed \in [Partitions -> Nat]
    /\ position \in [Partitions -> Nat]
    /\ owner \in [Partitions -> Consumers \cup {NoConsumer}]
    /\ pc \in [Consumers -> Locations]
    /\ msg \in [Consumers -> (Partitions \X Nat) \cup {NoMessage}]
    /\ attempt \in [Consumers -> 0 .. IF MaxRetries = 0 THEN 1 ELSE MaxRetries]
    /\ notified \in [Keys -> Nat]
    /\ dlq \subseteq Partitions \X Nat
    /\ created \in [Consumers -> Nat]
    /\ dbFaults \in 0 .. MaxDbFaults
    /\ brokerFaults \in 0 .. MaxBrokerFaults
    /\ rebalances \in 0 .. MaxRebalances
    /\ restarts \in 0 .. MaxRestarts

\* What may be done with a message before its offset is passed: its key has a
\* notification, it is in the dead letter queue, or nobody could parse it.
Notified(p, o)     == log[p][o] \in Keys /\ notified[log[p][o]] > 0
DeadLettered(p, o) == <<p, o>> \in dlq
Settled(p, o) ==
    log[p][o] = Malformed \/ Notified(p, o) \/ DeadLettered(p, o)

\* Replica c is at work on message o of p.
InHand(c, p, o) == pc[c] \in Handling /\ msg[c] = <<p, o>>

\* At-least-once: whatever is retried, rebalanced or killed, an offset that is
\* committed has been settled (and the group never reads it again).
CommittedIsSettled ==
    \A p \in Partitions : \A o \in 1 .. committed[p] : Settled(p, o)

\* A replica handles a message only when all that precede it in its partition
\* are settled, also across rebalances that leave two replicas at work on one
\* partition: this is what the key user_id:order_id buys an order.
HandledInOrder ==
    \A c \in Consumers, p \in Partitions : \A o \in 1 .. Len(log[p]) :
        InHand(c, p, o) => \A n \in 1 .. o - 1 : Settled(p, n)

\* Between fetch and commit nothing is forgotten: an offset below the position
\* of a partition's owner is settled or in its hands (or its loop is dead and
\* will commit no more), and a loop at its commit has settled its message.
PositionsAccountedFor ==
    \A p \in Partitions :
        /\ committed[p] <= Len(log[p])
        /\ owner[p] # NoConsumer =>
              /\ committed[p] <= position[p] /\ position[p] <= Len(log[p])
              /\ \A o \in 1 .. position[p] :
                    Settled(p, o) \/ InHand(owner[p], p, o) \/ pc[owner[p]] = "dead"
HandlingIsSound ==
    \A c \in Consumers : pc[c] \in Handling =>
        \E p \in Partitions : \E o \in 1 .. Len(log[p]) :
            /\ msg[c] = <<p, o>>
            /\ IF pc[c] = "commit" THEN Settled(p, o) ELSE log[p][o] \in Keys
            /\ pc[c] = "backoff" => attempt[c] < MaxRetries

\* Two replicas with the same key at hand (a duplicate, or a message redelivered
\* after a rebalance) may both find no row; the key still gets one row.
OneNotificationPerKey == \A k \in Keys : notified[k] <= 1

\* A message is given up only after all its attempts but one met a failing
\* database: losing the race for the row costs at most one attempt.
DeadLetterNeedsFailures == dbFaults >= (MaxRetries - 1) * Cardinality(dlq)

\* The replicas' counters never claim a notification twice, redelivery, races
\* and commits of unknown outcome included: Claims has an element for every
\* notification that some counter has counted.
Claims == UNION {{c} \X (1 .. created[c]) : c \in Consumers}
CreatedCountsRows == Cardinality(Claims) <= Cardinality({k \in Keys : notified[k] > 0})

\* A commit never takes the group's offset back, whatever position a replica
\* held before a rebalance.
CommitNeverRewinds ==
    [][\A p \in Partitions : committed'[p] >= committed[p]]_vars

\* The notifications table implements NotificationLedger.
Requested == {k \in Keys : \E p \in Partitions : \E o \in 1 .. Len(log[p]) : log[p][o] = k}
Ledger == INSTANCE NotificationLedger WITH
            Ids <- Keys,
            requested <- Requested, rows <- notified
ImplementsLedger == Ledger!Spec

-----------------------------------------------------------------------------
(* What the documentation says of this service and the code does not do.   *)

\* docs/logic.md:142, a message that cannot be handled goes to the dead letter
\* queue and its offset is committed, so that the partition is not blocked.
PartitionNeverBlocked ==
    \A c \in Consumers, p \in Partitions : \A o \in 1 .. MaxLog :
        pc[c] \in Handling /\ msg[c] = <<p, o>> ~> committed[p] >= o

\* docs/logic.md:140 and 142, a message that fails validation is retried and
\* then sent to the dead letter queue.
NothingDropped ==
    \A p \in Partitions : \A o \in 1 .. committed[p] :
        Notified(p, o) \/ DeadLettered(p, o)
=============================================================================
