--------------------------- MODULE ProducerOutbox ---------------------------
(***************************************************************************)
(* The producer service: POST /api/v1/events stores an order event in      *)
(* Postgres, a background task publishes the stored event to the Kafka     *)
(* topic `order-events' and then sets its published_to_kafka flag, and a   *)
(* periodic job republishes the rows whose flag is still false.            *)
(*                                                                         *)
(* Handlers, background tasks and the job are coroutines of one event      *)
(* loop; they interleave at every await.  One action below is the code     *)
(* between two awaits on Postgres or Kafka, together with the effect of    *)
(* the call that is awaited.                                               *)
(***************************************************************************)
EXTENDS Integers, Sequences, FiniteSets, FiniteSetsExt, SequencesExt, Functions

CONSTANTS
    EventIds,         \* the rows that requests may create (uuid4 primary keys)
    OrderOf,          \* the order every event belongs to (half of the message key)
    Window,           \* republish_window_hours, in ticks of the clock
    BatchLimit,       \* republish_batch_limit
    ConnectAttempts,  \* kafka_connect_retry_attempts
    MaxTime,          \* bound: clock ticks
    MaxFaults,        \* bound: failed calls to Postgres or Kafka
    MaxRestarts       \* bound: crashes and stops of the process

ASSUME EventIdsAssumption == IsFiniteSet(EventIds)
ASSUME OrderOfAssumption  == DOMAIN OrderOf = EventIds
ASSUME LimitsAssumption   ==
    /\ Window \in Nat
    /\ BatchLimit \in Nat \ {0}
    /\ ConnectAttempts \in Nat \ {0}
ASSUME BoundsAssumption   ==
    /\ MaxTime \in Nat
    /\ MaxFaults \in Nat
    /\ MaxRestarts \in Nat

VARIABLES
    up,            \* lifespan: "down", "connecting", "topics" or "serving"
    attempt,       \* the attempt of KafkaClient.connect that is running
    kafka_client,  \* whether app.state.kafka_client is set
    stored,        \* the rows of table `events'
    createdAt,     \* created_at of every row (0 where there is none)
    published,     \* the rows with published_to_kafka = true
    bg,            \* background task of every event: "none", "publish", "mark"
    job,           \* republish loop: "off", "sleep", "publish", "mark"
    batch,         \* fetched events the pass has not finished, oldest first
    poisoned,      \* the session of the pass holds a failed transaction
    tally,         \* published_count of the pass
    counted,       \* producer_events_kafka_published_total of this process
    topic,         \* the records of `order-events', in append order
    now,           \* the clock
    faults,        \* failed calls so far
    restarts       \* crashes and stops so far

dbVars      == <<stored, createdAt, published>>
jobVars     == <<job, batch, poisoned, tally>>
processVars == <<up, attempt, kafka_client>>
envVars     == <<now, faults, restarts>>
vars == <<processVars, dbVars, bg, jobVars, counted, topic, envVars>>

-----------------------------------------------------------------------------
NoTask == [e \in EventIds |-> "none"]

Init ==
    /\ up = "down"
    /\ attempt = 0
    /\ kafka_client = FALSE
    /\ bg = NoTask
    /\ job = "off"
    /\ batch = <<>>
    /\ poisoned = FALSE
    /\ tally = 0
    /\ counted = 0
    /\ stored = {}
    /\ createdAt = [e \in EventIds |-> 0]
    /\ published = {}
    /\ topic = <<>>
    /\ now = 0
    /\ faults = 0
    /\ restarts = 0

\* A call to Postgres or Kafka raises; the bound is the only guard.
Fault ==
    /\ faults < MaxFaults
    /\ faults' = faults + 1
    /\ UNCHANGED <<now, restarts>>

-----------------------------------------------------------------------------
(* Start-up: lifespan and KafkaClient.connect.                             *)

Start ==
    /\ up = "down"
    /\ up' = "connecting"
    /\ attempt' = 1
    /\ UNCHANGED <<kafka_client, dbVars, bg, jobVars, counted, topic, envVars>>

ConnectOk ==
    /\ up = "connecting"
    /\ up' = "topics"
    /\ UNCHANGED <<attempt, kafka_client, dbVars, bg, jobVars, counted, topic, envVars>>

\* Faulty variant of LastAttempt: one attempt too many.
LastAttemptOneMore == attempt > ConnectAttempts

LastAttempt == attempt = ConnectAttempts

\* The last failed attempt is re-raised: lifespan serves without a client.
ConnectFail ==
    /\ up = "connecting"
    /\ Fault
    /\ IF LastAttempt
         THEN up' = "serving" /\ UNCHANGED attempt
         ELSE up' = "connecting" /\ attempt' = attempt + 1
    /\ UNCHANGED <<kafka_client, dbVars, bg, jobVars, counted, topic>>

\* The topics exist: the client is installed and the republish loop starts.
TopicsOk ==
    /\ up = "topics"
    /\ up' = "serving"
    /\ kafka_client' = TRUE
    /\ job' = "sleep"
    /\ UNCHANGED <<attempt, dbVars, bg, batch, poisoned, tally, counted, topic, envVars>>

\* _ensure_topics runs outside the retry loop: one failure and it is over.
TopicsFail ==
    /\ up = "topics"
    /\ Fault
    /\ up' = "serving"
    /\ UNCHANGED <<attempt, kafka_client, dbVars, bg, jobVars, counted, topic>>

-----------------------------------------------------------------------------
(* POST /api/v1/events.                                                    *)

StoreRow(e) ==
    /\ stored' = stored \cup {e}
    /\ createdAt' = [createdAt EXCEPT ![e] = now]

CreateEvent(e) ==
    /\ up = "serving"
    /\ e \notin stored
    /\ StoreRow(e)
    /\ bg' = IF kafka_client THEN [bg EXCEPT ![e] = "publish"] ELSE bg
    /\ UNCHANGED <<processVars, published, jobVars, counted, topic, envVars>>

\* The INSERT or its COMMIT raises.  When only the answer to COMMIT was lost the
\* row is there; the request fails all the same and schedules no task.
CreateEventFail(e) ==
    /\ up = "serving"
    /\ e \notin stored
    /\ Fault
    /\ StoreRow(e) \/ UNCHANGED <<stored, createdAt>>
    /\ UNCHANGED <<processVars, published, bg, jobVars, counted, topic>>

-----------------------------------------------------------------------------
(* publish_event_after_response, one task per event.                       *)

BgPublish(e) ==
    /\ bg[e] = "publish"
    /\ topic' = Append(topic, e)
    /\ bg' = [bg EXCEPT ![e] = "mark"]
    /\ UNCHANGED <<processVars, dbVars, jobVars, counted, envVars>>

\* Faulty variant of BgPublishFail: the error is swallowed and the row is marked.
BgPublishFailSwallowed(e) ==
    /\ bg[e] = "publish"
    /\ Fault
    /\ topic' \in {topic, Append(topic, e)}
    /\ bg' = [bg EXCEPT ![e] = "mark"]
    /\ UNCHANGED <<processVars, dbVars, jobVars, counted>>

\* publish raises: the record may have reached the broker nevertheless.
BgPublishFail(e) ==
    /\ bg[e] = "publish"
    /\ Fault
    /\ topic' \in {topic, Append(topic, e)}
    /\ bg' = [bg EXCEPT ![e] = "none"]
    /\ UNCHANGED <<processVars, dbVars, jobVars, counted>>

BgMark(e) ==
    /\ bg[e] = "mark"
    /\ published' = published \cup {e}
    /\ counted' = counted + 1
    /\ bg' = [bg EXCEPT ![e] = "none"]
    /\ UNCHANGED <<processVars, stored, createdAt, jobVars, topic, envVars>>

\* mark_published raises: the UPDATE may have been committed nevertheless.
BgMarkFail(e) ==
    /\ bg[e] = "mark"
    /\ Fault
    /\ published' \in {published, published \cup {e}}
    /\ bg' = [bg EXCEPT ![e] = "none"]
    /\ UNCHANGED <<processVars, stored, createdAt, jobVars, counted, topic>>

-----------------------------------------------------------------------------
(* run_republish_loop and RepublishUnpublishedEventsUseCase.execute.       *)

\* created_at >= created_after.
InWindow(e) == createdAt[e] + Window >= now

Candidates == {e \in stored \ published : InWindow(e)}

\* What `ORDER BY created_at LIMIT' may return of the candidates.
Batches ==
    LET size == IF Cardinality(Candidates) < BatchLimit
                THEN Cardinality(Candidates) ELSE BatchLimit
    IN {s \in [1 .. size -> Candidates] :
          /\ IsInjective(s)
          /\ \A i, j \in 1 .. size : i < j => createdAt[s[i]] <= createdAt[s[j]]
          /\ \A i \in 1 .. size, e \in Candidates :
                createdAt[e] < createdAt[s[i]] => \E j \in 1 .. size : s[j] = e}

JobFetch ==
    /\ job = "sleep"
    /\ batch' \in Batches
    /\ job' = IF batch' = <<>> THEN "sleep" ELSE "publish"
    /\ UNCHANGED <<processVars, dbVars, bg, poisoned, tally, counted, topic, envVars>>

\* Faulty variant of JobFetchFail: no `except' in the loop, which ends.
JobFetchFailEndsLoop ==
    /\ job = "sleep"
    /\ Fault
    /\ job' = "off"
    /\ UNCHANGED <<processVars, dbVars, bg, batch, poisoned, tally, counted, topic>>

\* get_unpublished raises: logged, and the loop sleeps again.
JobFetchFail ==
    /\ job = "sleep"
    /\ Fault
    /\ UNCHANGED <<processVars, dbVars, bg, jobVars, counted, topic>>

\* Faulty variant of NextInBatch: published_count outlives its pass.
NextInBatchKeepsCount(t) ==
    IF Len(batch) > 1
      THEN /\ job' = "publish"
           /\ batch' = Tail(batch)
           /\ tally' = t
           /\ UNCHANGED counted
      ELSE /\ job' = "sleep"
           /\ batch' = <<>>
           /\ tally' = t
           /\ counted' = counted + t

\* The `for event in events' loop goes on with t events marked; after the last
\* one the pass adds t to the counter and its session is closed.
NextInBatch(t) ==
    IF Len(batch) > 1
      THEN /\ job' = "publish"
           /\ batch' = Tail(batch)
           /\ tally' = t
           /\ UNCHANGED counted
      ELSE /\ job' = "sleep"
           /\ batch' = <<>>
           /\ tally' = 0
           /\ counted' = counted + t

JobPublish ==
    /\ job = "publish"
    /\ topic' = Append(topic, Head(batch))
    /\ job' = "mark"
    /\ UNCHANGED <<processVars, dbVars, bg, batch, poisoned, tally, counted, envVars>>

\* Faulty variant of JobPublishFail: the `try' covers the publish alone, so that
\* the mark follows.
JobPublishFailMarks ==
    /\ job = "publish"
    /\ Fault
    /\ topic' \in {topic, Append(topic, Head(batch))}
    /\ job' = "mark"
    /\ UNCHANGED <<processVars, dbVars, bg, batch, poisoned, tally, counted>>

JobPublishFail ==
    /\ job = "publish"
    /\ Fault
    /\ topic' \in {topic, Append(topic, Head(batch))}
    /\ NextInBatch(tally)
    /\ poisoned' = (poisoned /\ Len(batch) > 1)
    /\ UNCHANGED <<processVars, dbVars, bg>>

\* Faulty variant of JobMark: mark_published does not commit.
JobMarkUncommitted ==
    /\ job = "mark"
    /\ ~poisoned
    /\ NextInBatch(tally + 1)
    /\ UNCHANGED <<processVars, dbVars, bg, poisoned, topic, envVars>>

\* Faulty variant of JobMark: one UPDATE marks the whole batch.
JobMarkBatch ==
    /\ job = "mark"
    /\ ~poisoned
    /\ published' = published \cup ToSet(batch)
    /\ NextInBatch(tally + 1)
    /\ UNCHANGED <<processVars, stored, createdAt, bg, poisoned, topic, envVars>>

JobMark ==
    /\ job = "mark"
    /\ ~poisoned
    /\ published' = published \cup {Head(batch)}
    /\ NextInBatch(tally + 1)
    /\ UNCHANGED <<processVars, stored, createdAt, bg, poisoned, topic, envVars>>

\* The UPDATE or its COMMIT raises.  Nobody rolls the session back, so unless
\* it was the checkout of a connection that failed the session is poisoned.
JobMarkFail ==
    /\ job = "mark"
    /\ ~poisoned
    /\ Fault
    /\ \E poison \in BOOLEAN :
         /\ poisoned' = (poison /\ Len(batch) > 1)
         /\ published' \in {published} \cup
                           (IF poison THEN {published \cup {Head(batch)}} ELSE {})
    /\ NextInBatch(tally)
    /\ UNCHANGED <<processVars, stored, createdAt, bg, topic>>

\* On a poisoned session every later mark_published of the pass raises.
JobMarkPoisoned ==
    /\ job = "mark"
    /\ poisoned
    /\ NextInBatch(tally)
    /\ poisoned' = (Len(batch) > 1)
    /\ UNCHANGED <<processVars, dbVars, bg, topic, envVars>>

-----------------------------------------------------------------------------
(* The end of the process, and the clock.                                  *)

\* What was in memory is gone; Postgres and Kafka keep what they hold.
Halt ==
    /\ restarts < MaxRestarts
    /\ restarts' = restarts + 1
    /\ up' = "down"
    /\ attempt' = 0
    /\ kafka_client' = FALSE
    /\ bg' = NoTask
    /\ job' = "off"
    /\ batch' = <<>>
    /\ poisoned' = FALSE
    /\ tally' = 0
    /\ counted' = 0
    /\ UNCHANGED <<dbVars, topic, now, faults>>

\* The process dies at any await.
Crash ==
    /\ up # "down"
    /\ Halt

\* SIGTERM: the server lets the running requests and their background tasks
\* end, then the lifespan cancels the job wherever it is.
Stop ==
    /\ up = "serving"
    /\ \A e \in EventIds : bg[e] = "none"
    /\ Halt

Tick ==
    /\ now < MaxTime
    /\ now' = now + 1
    /\ UNCHANGED <<processVars, dbVars, bg, jobVars, counted, topic, faults, restarts>>

-----------------------------------------------------------------------------
Connect == ConnectOk \/ ConnectFail \/ TopicsOk \/ TopicsFail

Task(e) == BgPublish(e) \/ BgPublishFail(e) \/ BgMark(e) \/ BgMarkFail(e)

RepublishLoop ==
    \/ JobFetch \/ JobFetchFail
    \/ JobPublish \/ JobPublishFail
    \/ JobMark \/ JobMarkFail \/ JobMarkPoisoned

Next ==
    \/ Start
    \/ Connect
    \/ \E e \in EventIds : CreateEvent(e) \/ CreateEventFail(e) \/ Task(e)
    \/ RepublishLoop
    \/ Crash
    \/ Stop
    \/ Tick

Spec == Init /\ [][Next]_vars

\* The container is restarted (restart: unless-stopped), and the event loop
\* resumes every coroutine whose awaited call has returned.
Fairness ==
    /\ WF_vars(Start)
    /\ WF_vars(Connect)
    /\ \A e \in EventIds : WF_vars(Task(e))
    /\ WF_vars(RepublishLoop)

FairSpec == Spec /\ Fairness

-----------------------------------------------------------------------------
(* Properties.                                                             *)

\* Type invariant.
TypeOK ==
    /\ up \in {"down", "connecting", "topics", "serving"}
    /\ attempt \in 0 .. ConnectAttempts
    /\ kafka_client \in BOOLEAN
    /\ stored \subseteq EventIds
    /\ createdAt \in [EventIds -> Nat]
    /\ published \subseteq EventIds
    /\ bg \in [EventIds -> {"none", "publish", "mark"}]
    /\ job \in {"off", "sleep", "publish", "mark"}
    /\ batch \in Seq(EventIds)
    /\ poisoned \in BOOLEAN
    /\ tally \in Nat
    /\ counted \in Nat
    /\ topic \in Seq(EventIds)
    /\ now \in 0 .. MaxTime
    /\ faults \in 0 .. MaxFaults
    /\ restarts \in 0 .. MaxRestarts

\* No lost event: a row whose published_to_kafka is true has a record in
\* `order-events', whatever failed, was retried or was killed between the
\* publish and the mark.  (The job never looks at a marked row again.)
MarkedImpliesOnTopic == published \subseteq ToSet(topic)

\* What the tasks and the pass hold in memory agrees with Postgres and Kafka,
\* across every interleaving of a task with a pass over the same row: only
\* stored events are published, and a mark is under way only for an event whose
\* record is on the topic.
InMemoryAgrees ==
    /\ ToSet(topic) \subseteq stored
    /\ \A e \in EventIds :
          /\ bg[e] = "publish" => e \in stored
          /\ bg[e] = "mark" => e \in ToSet(topic)
    /\ up # "serving" => job = "off"
    /\ batch \in Seq(stored)
    /\ job \in {"publish", "mark"} <=> batch # <<>>
    /\ job = "mark" => Head(batch) \in ToSet(topic)

\* Every duplicate has a cause: an event is published once by its task and
\* once by the job, and a further time only for a failed call or a restart.
Copies(e) == Cardinality({i \in DOMAIN topic : topic[i] = e})
BoundedDuplication == \A e \in EventIds : Copies(e) <= 2 + faults + restarts

\* producer_events_kafka_published_total never claims more successful
\* publications than there are records, poisoned passes included.
CounterNeverOverstates == counted + tally <= Len(topic)

\* A row reaches its published flag, unless it grew older than the republish
\* window or the process came up without a Kafka client.
Expired(e) == ~InWindow(e)
Degraded   == up = "serving" /\ ~kafka_client
EventuallySettled ==
    \A e \in EventIds :
        e \in stored ~> (e \in published \/ Expired(e) \/ Degraded)

\* The store, the topic and the flags together implement the outbox that
\* promises at-least-once delivery: EventOutbox.
Outbox == INSTANCE EventOutbox WITH
            Ids <- EventIds, accepted <- stored,
            delivered <- ToSet(topic), confirmed <- published
ImplementsOutbox == Outbox!Spec

-----------------------------------------------------------------------------
(* What the documentation says of this service and the code does not do.   *)

\* docs/logic.md:102, the records of one order are in the order of its events.
OrderKept ==
    \A i, j \in DOMAIN topic :
        i < j /\ OrderOf[topic[i]] = OrderOf[topic[j]]
          => createdAt[topic[i]] <= createdAt[topic[j]]
=============================================================================
