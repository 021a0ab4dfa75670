------------------------- MODULE ConsumerLifecycle --------------------------
(***************************************************************************)
(* One life of the consumer process: lifespan connects with retries, runs  *)
(* consume_loop as a task, and cancels and disconnects when the server     *)
(* stops.  Every attempt of connect makes a new AIOKafkaConsumer and a new *)
(* AIOKafkaProducer and forgets the ones of the attempt before, so this    *)
(* module follows the clients that run in the process and the consumers    *)
(* the group counts as members.  A client is a pair <<kind, attempt>>.     *)
(***************************************************************************)
EXTENDS Integers, FiniteSets

CONSTANTS
    AttemptSettings,   \* values of kafka_connect_retry_attempts
    MaxFaults          \* bound: failed calls to Kafka

ASSUME NumbersAssumption == AttemptSettings \subseteq Int /\ MaxFaults \in Nat

VARIABLES
    attempts,   \* the setting of this process
    lifespan,    \* "consumer", "producer" (connecting it), "serving", "deaf",
                 \* "joining", "disconnecting", "ended" or "failed"
    attempt,     \* the attempt of connect
    consumer,    \* the attempt whose consumer is _consumer (0: None)
    producer,    \* the attempt whose producer is _producer (0: None)
    task,        \* consume_loop: "none", "polling", "handling", "done" or "failed"
    running,     \* clients that are running in the process
    members,     \* attempts whose consumer is a member of the group
    faults       \* failed calls so far

clients == <<consumer, producer, running, members>>
vars == <<attempts, lifespan, attempt, task, clients, faults>>

Kinds == {"consumer", "producer"}

Init ==
    /\ attempts \in AttemptSettings
    /\ lifespan = "consumer"
    /\ attempt = 1
    /\ consumer = 0 /\ producer = 0
    /\ task = "none"
    /\ running = {} /\ members = {}
    /\ faults = 0

Fault ==
    /\ faults < MaxFaults
    /\ faults' = faults + 1

-----------------------------------------------------------------------------
(* KafkaConsumerClient.connect.                                            *)

Serve ==
    /\ lifespan' = "serving"
    /\ task' = "polling"

\* No attempt is allowed: connect returns, and the loop raises RuntimeError.
ConnectNothing ==
    /\ lifespan = "consumer"
    /\ attempt > attempts
    /\ lifespan' = "serving"
    /\ task' = "failed"
    /\ UNCHANGED <<attempts, attempt, clients, faults>>

StartConsumer ==
    /\ lifespan = "consumer"
    /\ attempt <= attempts
    /\ consumer' = attempt
    /\ running' = running \cup {<<"consumer", attempt>>}
    /\ members' = members \cup {attempt}
    /\ lifespan' = "producer"
    /\ UNCHANGED <<attempts, attempt, producer, task, faults>>

\* Faulty variant of NextAttempt: one attempt too many.
NextAttemptOneMore ==
    IF attempt <= attempts
      THEN attempt' = attempt + 1 /\ lifespan' = "consumer"
      ELSE lifespan' = "deaf" /\ UNCHANGED attempt

\* Sleep and try again, or re-raise: lifespan serves without a loop.
NextAttempt ==
    IF attempt < attempts
      THEN attempt' = attempt + 1 /\ lifespan' = "consumer"
      ELSE lifespan' = "deaf" /\ UNCHANGED attempt

\* start() raises, and may leave a client behind that is half started.
StartConsumerFail ==
    /\ lifespan = "consumer"
    /\ attempt <= attempts
    /\ Fault
    /\ consumer' = attempt
    /\ running' \in {running, running \cup {<<"consumer", attempt>>}}
    /\ NextAttempt
    /\ UNCHANGED <<attempts, producer, task, members>>

StartProducer ==
    /\ lifespan = "producer"
    /\ producer' = attempt
    /\ running' = running \cup {<<"producer", attempt>>}
    /\ Serve
    /\ UNCHANGED <<attempts, attempt, consumer, members, faults>>

\* Nobody stops the consumer that this attempt had started.
StartProducerFail ==
    /\ lifespan = "producer"
    /\ Fault
    /\ producer' = attempt
    /\ running' \in {running, running \cup {<<"producer", attempt>>}}
    /\ NextAttempt
    /\ UNCHANGED <<attempts, consumer, task, members>>

-----------------------------------------------------------------------------
(* The loop's task (see ConsumerLoop), and the group.                      *)

LoopStep ==
    /\ lifespan = "serving"
    /\ task \in {"polling", "handling"}
    /\ task' = IF task = "polling" THEN "handling" ELSE "polling"
    /\ UNCHANGED <<attempts, lifespan, attempt, clients, faults>>

\* publish_to_dlq or commit raises.
LoopFail ==
    /\ lifespan = "serving"
    /\ task = "handling"
    /\ Fault
    /\ task' = "failed"
    /\ UNCHANGED <<attempts, lifespan, attempt, clients>>

\* A member that nobody polls leaves after max_poll_interval_ms, as may one
\* whose message takes longer, or after a lost connection.
Polled(a) == a = consumer /\ task = "polling"

Evict(a) ==
    /\ a \in members
    /\ ~Polled(a)
    /\ members' = members \ {a}
    /\ UNCHANGED <<attempts, lifespan, attempt, task, consumer, producer, running, faults>>

\* getone joins the group again.
Rejoin ==
    /\ task = "polling"
    /\ members' = members \cup {consumer}
    /\ members' # members
    /\ UNCHANGED <<attempts, lifespan, attempt, task, consumer, producer, running, faults>>

-----------------------------------------------------------------------------
(* The end of lifespan.                                                    *)

\* Faulty variant of Stop: the clients are closed while the task is running.
StopAtOnce ==
    /\ lifespan = "serving"
    /\ lifespan' = "disconnecting"
    /\ UNCHANGED <<attempts, attempt, task, clients, faults>>

Stop ==
    /\ lifespan = "serving"
    /\ lifespan' = "joining"
    /\ UNCHANGED <<attempts, attempt, task, clients, faults>>

\* There is nothing to disconnect, or so the code believes.
StopDeaf ==
    /\ lifespan = "deaf"
    /\ lifespan' = "ended"
    /\ UNCHANGED <<attempts, attempt, task, clients, faults>>

\* Faulty variant of Join: a handler takes its cancellation for an error and goes on.
JoinAtGetone ==
    /\ lifespan = "joining"
    /\ task = "polling"
    /\ task' = "done"
    /\ lifespan' = "disconnecting"
    /\ UNCHANGED <<attempts, attempt, clients, faults>>

\* The cancelled task leaves getone by `break' and everything else by
\* CancelledError; both are awaited without an error.
Join ==
    /\ lifespan = "joining"
    /\ task \in {"polling", "handling"}
    /\ task' = "done"
    /\ lifespan' = "disconnecting"
    /\ UNCHANGED <<attempts, attempt, clients, faults>>

\* Awaiting a task that had failed raises its exception: no disconnect.
JoinFailed ==
    /\ lifespan = "joining"
    /\ task = "failed"
    /\ lifespan' = "failed"
    /\ UNCHANGED <<attempts, attempt, task, clients, faults>>

\* Faulty variant of StopConsumer: the consumer is forgotten and not stopped.
StopConsumerForgets ==
    /\ lifespan = "disconnecting"
    /\ consumer # 0
    /\ consumer' = 0
    /\ UNCHANGED <<attempts, lifespan, attempt, task, producer, running, members, faults>>

\* disconnect: the consumer leaves the group ...
StopConsumer ==
    /\ lifespan = "disconnecting"
    /\ consumer # 0
    /\ consumer' = 0
    /\ running' = running \ {<<"consumer", consumer>>}
    /\ members' = members \ {consumer}
    /\ UNCHANGED <<attempts, lifespan, attempt, task, producer, faults>>

\* ... then the producer is closed.
StopProducer ==
    /\ lifespan = "disconnecting"
    /\ consumer = 0
    /\ producer' = 0
    /\ running' = running \ {<<"producer", producer>>}
    /\ lifespan' = "ended"
    /\ UNCHANGED <<attempts, attempt, consumer, task, members, faults>>

\* One of the two calls raises; the other client is left as it is.
DisconnectFail ==
    /\ lifespan = "disconnecting"
    /\ Fault
    /\ lifespan' = "failed"
    /\ UNCHANGED <<attempts, attempt, task, clients>>

-----------------------------------------------------------------------------
Connect ==
    \/ ConnectNothing
    \/ StartConsumer \/ StartConsumerFail
    \/ StartProducer \/ StartProducerFail

End == Join \/ JoinFailed \/ StopConsumer \/ StopProducer \/ DisconnectFail

Next ==
    \/ Connect
    \/ LoopStep \/ LoopFail
    \/ \E a \in members : Evict(a)
    \/ Rejoin
    \/ Stop \/ StopDeaf
    \/ End

Spec == Init /\ [][Next]_vars

\* Every call to Kafka returns or raises.
Fairness ==
    /\ WF_vars(Connect)
    /\ WF_vars(End)

FairSpec == Spec /\ Fairness

-----------------------------------------------------------------------------
(* Properties.                                                             *)

\* Type invariant.
TypeOK ==
    /\ attempts \in AttemptSettings
    /\ lifespan \in Kinds \cup {"serving", "deaf", "joining", "disconnecting",
                               "ended", "failed"}
    /\ attempt = 1 \/ attempt \in 2 .. attempts
    /\ consumer \in 0 .. attempt /\ producer \in 0 .. attempt
    /\ task \in {"none", "polling", "handling", "done", "failed"}
    /\ running \subseteq Kinds \X (1 .. attempt)
    /\ members \subseteq 1 .. attempt
    /\ faults \in 0 .. MaxFaults

\* The loop never works on a client that is not running: neither a retry of
\* connect nor the shutdown takes one away under it.
LoopHasItsClients ==
    task \in {"polling", "handling"} =>
        {<<"consumer", consumer>>, <<"producer", producer>>} \subseteq running

\* Every consumer that runs or is in the group without being the loop's (and may
\* be given partitions that nobody reads) was lost to a failed call of its own:
\* retries, a dead loop and a failed disconnect leave no more than that behind.
Lost ==
    {a \in 1 .. attempt :
        /\ <<"consumer", a>> \in running \/ a \in members
        /\ \/ a # consumer
           \/ task = "failed"
           \/ lifespan \in {"deaf", "ended", "failed"}}
LostNeedFaults == Cardinality(Lost) <= faults

\* A life without a failed call ends with every client closed and the group left.
CleanEnd ==
    lifespan \in {"ended", "failed"} /\ faults = 0 => running = {} /\ members = {}

\* Start-up and shutdown come to an end, wherever the loop's task is when it is
\* cancelled.
StartsAndEnds ==
    /\ lifespan \in Kinds ~> lifespan \in {"serving", "deaf"}
    /\ lifespan = "joining" ~> lifespan \in {"ended", "failed"}
=============================================================================
