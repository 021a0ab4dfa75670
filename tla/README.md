# A TLA+ verification of Async-Events

Async-Events is three Python services around one Postgres and one Kafka broker:
an event generator posts order events to a producer, the producer stores each
event and publishes it to the topic `order-events`, and a consumer group turns
every published event into one notification row. This directory holds TLA+
models of the three services, of two of them composed, and of the database
migrations, TLC configurations that check them on small instances, and TLAPS
proofs of the main properties for all values of the constants. Paths below are relative to `src/`.

## The system

| Component | Code | State | Operations |
|---|---|---|---|
| Event intake | `producer/api/v1/events.py`, `producer/services/event_service.py` | table `events` with `published_to_kafka` | `create_event` (INSERT and COMMIT, then a background task), reads |
| Publication after the response | `producer/services/publish_after_response.py`, `kafka_client.py` | one background task per event | publish, then mark |
| Republish job | `producer/jobs/republish_job.py`, `producer/use_cases/republish_unpublished_events.py` | fetched batch, its session, `published_count` | fetch the unmarked rows of the window, publish and mark each |
| Producer lifespan | `producer/main.py`, `kafka_client.py` | connected or not | connect with retry, create topics, serve, stop |
| Consume loop | `consumer/services/kafka_consumer.py` | position, message in hand, attempt | getone, parse, handle with retries, dead letter, commit |
| Notifications | `consumer/use_cases/process_order_event.py`, `consumer/services/notification_service.py` | table `notifications` with a unique key | exists, insert |
| Consumer lifespan | `consumer/main.py`, `kafka_consumer.py` | the loop's task, the clients of the current attempt | connect with retry, start, cancel, disconnect |
| Order pool | `event_generator/domain/` | slots with a chain each, `_last_sent` | `generate_next`: progress, duplicate, cancel |
| Event loop and sender | `event_generator/services/rate_limited_event_loop.py`, `rate_limited_sender.py`, `producer_client.py` | rate tokens, permits, pending tasks | spawn, acquire, POST, retry, drain |
| Health gate, generator lifecycle | `event_generator/services/health_checker.py`, `use_cases/generate_events.py`, `jobs/`, `main.py` | attempts | wait for `/health`, run, cancel |
| Schema and migrations | `shared/db/` | `alembic_version`, the tables | upgrade, downgrade, each in one transaction |

The services meet in three places: HTTP between generator and producer (at
least once: a POST that timed out may have been stored), the table `events`
and the topic between the producer's tasks and its job, and the topic and the
group's offsets between producer and consumers. Everything inside one service
is coroutines of one asyncio event loop, so two handlers interleave exactly at
their awaits; the services and the consumer replicas run in parallel.

What is hard to test, and what the properties aim at:

- a publish and the mark that follows it are two awaits with a failure, a
  crash, the job's pass or another task in between;
- a call that raises may have been carried out (a COMMIT, a produce request, a
  POST, an offset commit whose answer was lost);
- the job works on rows it fetched before its awaits, with one session whose
  failed transaction nobody rolls back;
- `commit()` without arguments commits the positions of whatever the replica is
  assigned at that moment, after a rebalance that may have moved or reset them;
- two replicas can have the same key in hand and both find no row;
- an exception outside the handler's `try` ends the consume loop for good;
- every attempt of `connect` makes new clients and forgets those of the attempt
  before, one of which may be a started member of the group;
- timeouts: a wait for a permit, a POST and a backoff, each against its late
  counterpart, and a shutdown in the middle of them;
- a migration is a row of calls that Postgres may refuse because of the rows
  the services wrote since the last revision;
- from the mark in the producer's table to the notification only the group's
  committed offset remembers an event;
- a long sequence of legal pool operations that could confuse two orders.

`PROJECT.json` lists each hazard at its line with the properties that cover it.

## Modules

| Module | Models | Notes |
|---|---|---|
| `EventOutbox` | what the producer promises | events are accepted, delivered at least once, and confirmed only when delivered |
| `ProducerOutbox` | the whole producer | implements `EventOutbox` |
| `NotificationLedger` | what the consumers promise | at most one row per requested key, never removed |
| `ConsumerLoop` | a consumer group: replicas, partitions, rebalances | implements `NotificationLedger` |
| `EventPipeline` | producer and consumer group over one topic | `ProducerOutbox` and `ConsumerLoop` composed; implements `NotificationLedger` end to end |
| `ConsumerLifecycle` | one life of a consumer process and its Kafka clients | `connect`, the loop's task, the shutdown, `disconnect` |
| `OrderPool` | the generator's order chains and pool | |
| `RateLimitedSender` | the generator's task: health gate, loop, sender and client | |
| `SchemaMigrations` | the Alembic revisions under the writing services | |
| `MC...` | instances for TLC | model values and small sets only |
| `ProducerOutboxProofs`, `ProducerCountProofs`, `ConsumerLoopProofs`, `EventPipelineProofs`, `ConsumerLifecycleProofs`, `RateLimitedSenderProofs`, `OrderPoolProofs`, `SchemaMigrationsProofs` | theorems | |

Each main module also holds operators marked "Faulty variant of ...": what the
operator below would be after a plausible mistake. They take no part in the
specification; replacing the operator by one of them makes TLC report the
property that `PROJECT.json` pairs it with, which shows that the property is
sensitive to that code.

### ProducerOutbox

One action is the code between two awaits on Postgres or Kafka plus the effect
of the awaited call. `up`, `attempt` and `kafka_client` are the lifespan
(`main.py`) and `KafkaClient.connect`; `stored`, `createdAt` and `published`
the table; `bg[e]` the background task of event `e` (`"publish"`: about to
publish, `"mark"`: published and about to mark); `job`, `batch`, `poisoned` and
`tally` the republish loop and its pass; `topic` the records of `order-events`.
A failing call is an action of its own (`...Fail`) and says whether the call
may have had its effect. A pass whose session holds a failed transaction is
`poisoned`: its later marks raise (`JobMarkPoisoned`). `Batches` is what
`ORDER BY created_at LIMIT n` can return, ties included. `Stop` waits for the
running requests and background tasks, as the server does before the lifespan's
`finally`; `Crash` waits for nothing.

### ConsumerLoop

`pc[c]` is where the loop of replica `c` is: `"poll"` (in `getone`), `"check"`
(`exists`), `"insert"` (`create_notification`), `"backoff"`, `"dlq"`,
`"commit"`, `"dead"` (the task ended with an exception), `"detached"` (connect
gave up) or `"down"`. Kafka's side is external and modelled from how the code
uses it: `log` holds the messages, `committed` the group's offsets, `owner` the
assignment and `position` the fetch position of every partition's owner.
`Rebalance` hands the partitions out again at any moment, also while a message
is in hand, and makes every owner go on from the committed offset. A message
is a key (its pair of order and event type) or `Malformed`; two messages with
one key are what a retried POST or a republished row produces.

`Arrive` is the world that writes the topic; `GroupStep` is everything the group
does. `Step` leaves out the bound on the log (`Room`), so that the proofs hold for
a topic somebody else writes.

### EventPipeline

The topic is the only thing the two services share. The records that
`ProducerOutbox` appends to `topic` are the messages of `ConsumerLoop`: its `log`
is `LogOf(topic)`, a function of the producer's variable, and `Arrive` is
replaced by the producer's own steps. A step of the composition is a step of
the producer or of the group (`ProducerStep`, `GroupStep`), because the
processes run independently. Several events may have one key, which is what a
client makes that posts an order event twice. The events are those of one
partition: partitions do not depend on each other.

### ConsumerLifecycle

`lifespan` is where `main.py` and `connect` are: `"consumer"` and `"producer"`
(about to start that client in attempt `attempt`), `"serving"`, `"deaf"` (all
attempts failed, `/metrics` is served and nothing is read), `"joining"` (the
task is cancelled and awaited), `"disconnecting"`, `"ended"` or `"failed"` (the
exception of a dead task or of `disconnect` left the lifespan). `consumer` and
`producer` are the attempts whose clients `_consumer` and `_producer` point to,
`running` the clients that run, whether or not anything points to them, and
`members` the consumers the group counts. The group may evict a member that is
not polled, and `getone` joins it again. `ConnectNothing` is the setting
`kafka_connect_retry_attempts <= 0`, which raises no error in `connect` but in
the task.

### OrderPool

One action per branch of `generate_next`; what the code draws with `random` is
nondeterministic. `emitted` is the history the properties are about. The calls
are serialised by `pool_lock`, so no interleaving is lost. The branch for a
chain without a next event is kept although the pool replaces a chain as soon
as it completes.

### RateLimitedSender

`loop` is the generator's task (`"gate"`: waiting for `/health`, with `checks`
answers that were not 200; `"running"` and `"draining"`: in
`RateLimitedEventLoop.run`, the latter cancelled and awaiting its pending
tasks; `"closed"`: the HTTP client is closed; `"failed"`: the gate gave up),
`tokens` its rate
semaphore, `permits` the sender's semaphore, `pc[r]` one `send_one` task. The
producer is external: a POST without a 201 may have stored the row, and a POST
that timed out may still be on the `wire`. `send_event` returns True exactly
in `"created"`; the other outcomes are kept apart because the properties tell
them apart.

### SchemaMigrations

A schema is a set of triples (table, column, type), with the server default and
the nullability in the type and the unique constraint as a column of its own. A
revision is the sequence of `op` calls of its `upgrade` or `downgrade`. A run of
Alembic works on `altered`, the schema inside its transaction; `Commit` makes
it, with the revision, the committed one (`env.py` opens one transaction for
the whole run, and Postgres' DDL is transactional). Postgres is external and
modelled from what the calls need: it refuses a NOT NULL column without a
default on a table with rows, and the unique constraint on duplicates. The
services insert rows until the run has altered the table they write to, which
locks it.

## What the runs show

| Run | Instance | Shows |
|---|---|---|
| `producer` | 2 events of one order, batch 2, window 0 of 1 tick, 2 failed calls, 1 restart, 2 connect attempts (225k states) | `TypeOK`; `MarkedImpliesOnTopic`; `InMemoryAgrees`; `BoundedDuplication` (a record more only for a task, a pass, a failure or a restart); `CounterNeverOverstates`; `ImplementsOutbox`; `EventuallySettled`: a stored row is marked, expires, or waits in a service without Kafka |
| `producer_order` | violation | events of one order may be published in the wrong order |
| `consumer` | 2 replicas, 2 partitions, one key and malformed messages, 2 messages, 2 attempts, 2 database failures, 1 broker failure, 1 rebalance, 1 restart (661k states) | `TypeOK`; `CommittedIsSettled`; `HandledInOrder`; `PositionsAccountedFor`; `HandlingIsSound`; `OneNotificationPerKey`; `DeadLetterNeedsFailures`; `CreatedCountsRows`; `CommitNeverRewinds`; `ImplementsLedger` |
| `consumer_blocked`, `consumer_malformed` | violations | one failed call to the broker blocks the partition; a malformed message is committed without a dead letter |
| `pipeline` | 1 event, 1 partition, 2 replicas; 1 failed call in the producer, 1 failed call to the consumers' database, 1 rebalance, 1 restart of a replica (108k states) | `MarkedIsHandled`: a marked event is notified, dead-lettered or still to be read; `DeliversOnce`: one notification per stored key; `AllPassed`: all records are passed in the end; `EventuallyHandled`: a stored event is handled in the end |
| `lifecycle` | 0, 1 or 3 connect attempts, 3 failed calls (1136 states) | `TypeOK`; `LoopHasItsClients`; `LostNeedFaults`: no more consumers are left behind than calls failed; `CleanEnd`; `StartsAndEnds` |
| `pool` | 2 slots, 4 orders, 7 events | `TypeOK`; `ChainInOrder`; `NothingAfterTheEnd`; `FreshEventsAreUnique` |
| `pool_duplicate` | violation | a duplicate may belong to the previous order of its slot |
| `sender` | 2 health checks, 3 requests, 2 permits, 2 attempts (191k states) | `TypeOK`; `PermitsConserved`; `RowsBoundedByAttempts`; `SuccessIsReal`; `NothingAfterClose`; `EveryRequestEnds`: gate, requests and shutdown end |
| `sender_retry` | violation | a producer that cannot be reached is not retried |
| `migrations` | 1 key, 2 rows per table, 2 killed runs (627 states) | `SchemaIsOfRevision`; `HeadIsDeclared`; `UpgradeKeepsData` |

**Bounds.** Two events suffice for the producer because a task and a pass are
about one row each: two make batches longer than one (needed for a poisoned
session), ties in `created_at`, and a row older than the other. Two failures
cover a failed publish followed by a failed mark, or one poisoned pass; one
restart covers a crash between any two steps. The clock runs one tick past the
window so that a row can expire in the middle of a pass. In the consumer, two replicas race, two
partitions move independently, two messages are enough to have one handled
before the other, two attempts make "retry" and "give up" differ, and two
database failures exhaust them. The pool needs more orders than slots so that a
slot is handed on twice, and seven events let one order run through its chain
while the other slot is cancelled and replaced. In the sender three requests
compete for two permits; `sender_retry` sets `sender_max_concurrent` to 0,
which the code raises to 1. The pipeline takes one event, which the producer may
write up to four times (its task, the job, a failed call), so that two replicas
can meet over copies of one key; `MaxLog` of its `ConsumerLoop` plays no role,
because the producer bounds the topic. It allows no failed call to the broker:
one is enough to end a loop for good (`consumer_blocked`), so `AllPassed` is a
promise only as long as none fails, and `Deaf` in `EventuallyHandled` stands for
what is promised otherwise. In the lifecycle three attempts and
three failures let two consumers be left behind before the third attempt, or
all attempts fail. The migrations need two rows of one key to make the unique
constraint fail. Every bound is a CONSTANT whose comment starts with
"bound". Deadlock is not checked: all the systems may come to rest, when the
bounded inputs are used up or the process has ended.

**Fairness.** Weak fairness only. Producer: the container restarts
(`restart: unless-stopped`), and connect, every background task and the job's
loop resume when their awaited call has returned or raised; failures stay
possible and are bounded in number. Nothing is assumed of requests or the
clock. Consumer: containers restart, the group gives unowned partitions to
somebody, a fetch with a message at hand returns and a handler's step ends.
Pipeline: the two conjunctions together. Lifecycle: calls to Kafka return or
raise, and a cancelled task ends at its next await; nothing is assumed of the
loop or of the moment the server stops. Sender: the timeouts fire, so a health
check, a wait, a POST and a backoff end; the producer owes no answer, and
nothing is assumed about refills or the cancellation.

## Disagreements with the documentation

Five runs expect a violation; each property quotes a line of the documentation.
In short: `publish_after_response.py:19` and the job do not keep the order of
an order's events; `kafka_consumer.py:157` blocks a partition for as long as
the process lives after one broker error; `kafka_consumer.py:125` drops a
message that fails validation; `order_pool.py:63` keeps `_last_sent` of a
cancelled order; `producer_client.py:59` hides connection errors from the retry
loop.

Two more are visible in passing models. `docs/logic.md:91` has the republish job
start together with the service, while `producer/main.py:22` serves without it
when Kafka cannot be reached (`Degraded` in `EventuallySettled`). The revision
`304bbdeff4fb` adds NOT NULL columns without a default, so a database with rows
of the revision before cannot be upgraded at all (`Refused` in
`SchemaMigrations`).

## What is proved

The proofs hold for every set of events, replicas, partitions and keys, every
window, batch limit and number of attempts, and every bound on failures.

**Producer** (from `EventIdsAssumption`, `LimitsAssumption`, `BoundsAssumption`
of `ProducerOutbox`).
`MarkedImpliesOnTopic` alone is not inductive: a mark is justified only by what
the task or the pass remembers. The inductive invariant adds `InMemoryAgrees`
(a task or pass that is about to mark has its record on the topic, the batch
holds stored events, and there is a batch exactly while a pass is running) and
`TypeOK`. `IInvStep` goes through the actions one by one; `NextInBatchKeeps`
factors out the end of an iteration, which four actions share. From it follow
`TypeCorrect`, `NoLostEvent`, `MemoryAgrees`, and `OutboxImplemented`: the
initial state maps to the outbox's, and every step to Accept, Deliver, Confirm
or a stutter.

The two counting invariants have proofs of their own in `ProducerCountProofs`,
where what is still under way is added to what is counted. For the duplicates
that is `Allowed`: the records of an event, one more if its task has not
published it (`TaskDue`), and what passes owe it (`JobDue`: nothing once it is
marked or about to be, two while a poisoned pass that cannot mark it is still to
publish it, one otherwise) are at most two plus the failures and restarts. It
needs that a batch holds no row twice, and only a running pass is poisoned
(`PassOK`). A record is paid for by what is due no longer or by a failure
(`AllowedKept`); there is one lemma per group of actions. For the counter it is
`Covered`: every task and the pass at its mark has a record of its own that it
has not claimed. The theorems are `DuplicationBounded` and `CounterCovered`.

**Consumer** (from the three assumptions of `ConsumerLoop`, and `MaxRetries >=
1`: with no attempt allowed messages are committed unhandled, so the property
is false). `CommittedIsSettled` needs to know of every position that a commit
may take over that all below it is settled or is the message in the owner's
hands (`PositionsAccountedFor`), that a loop at its commit has settled its
message (`HandlingIsSound`), and, because a rebalance can leave a former owner
at work, that whatever a replica has in hand is preceded by settled messages
only (`HandledInOrder`). The conjunction of these with `TypeOK` is inductive;
there is one lemma per conjunct (`TypeStep`, `HandlingStep`, `OrderStep`,
`CommittedStep`, `PositionsStep`) on top of two facts: logs, notifications and
dead letters only grow (`Grows`, `SettledStays`), and a step moves the offsets
of a partition in few ways (`OffsetsMove`). The theorems are `TypeCorrect`,
`NothingLost`, `InOrder`, `NothingForgotten`, `OneNotification`, `NoRewind` and
`LedgerImplemented`.

Two more theorems count. `CountersClaimRows` proves `CreatedCountsRows` by
itself: `Claims` gains an element only in the step that adds a row
(`CountedWithRow`), and no row is ever removed. `GivenUpForFailures` proves
`DeadLetterNeedsFailures`, which is not inductive: it says nothing of the
attempts that a message in hand has behind it. `AttemptsPaid` adds them, `Spent`
failures for every replica: its failed attempts, less one if the key of its
message has a row by now (that attempt may have lost the race for it, which
costs no failure). When another replica adds the row, `Spent` falls; when the
message is given up, it moves to the dead letters. Sums over the replicas are
written as cardinalities (`Units` of a function has an element for every unit of
its values), with one lemma for a value that falls, one for a value that grows
and one for a value that is taken out.

The inductive step is proved for `[Step]_vars`, where the topic may grow by
anybody's hand and without bound; `NextIsStep` gives it for `Next`.

**Pipeline** (from `ProducerAssumption` and `GroupAssumption` of
`EventPipeline`, and `MaxRetries >= 1`). `EventPipelineProofs` INSTANCEs the two
proof modules above with the substitution of `EventPipeline`, so their lemmas
become lemmas about the composition: their assumptions are discharged from
those of the pipeline, a step of the producer is for the group an `Arrive` or a
stutter (it appends at most one record, `TopicStep` of `ProducerOutboxProofs`),
and a step of the group leaves the producer alone. So both inductive invariants
hold together. `NothingLostEndToEnd` puts `MarkedImpliesOnTopic` and
`CommittedIsSettled` together: a marked event has a record, and a record below
the committed offset is settled, and not by being malformed. `OnceEndToEnd`
maps the steps to the ledger, whose requests are the stored keys; a
notification's key is stored because a record's event is (`InMemoryAgrees`).

**Consumer lifecycle** (from `NumbersAssumption`). None of the four invariants is
inductive. `Stages` says what connect, the task and disconnect know of each
other (which clients are there at each place of the lifespan), `Costs` that
every attempt but the last, an abandoned last one, a dead loop and a failed
disconnect each cost a failed call, and `Producers` that without a failed call
there is one producer and `_producer` points to it. Their conjunction with
`TypeOK` and `LoopHasItsClients` is inductive and gives `TypeCorrect`,
`LoopKeepsItsClients`, `LostArePaidFor` (the lost consumers are among the
attempts `Costs` counts) and `EndsClean`.

**Sender** (from its two assumptions). The inductive invariant strengthens
`RowsBoundedByAttempts` to `Effort` (an attempt under way has stored nothing
yet, and one that may be repeated is not the last) and adds `GateIsQuiet`
(nothing is sent at the gate) to `TypeOK`, `PermitsConserved`, `SuccessIsReal`
and `NothingAfterClose`, which hold together only: the bound on `permits` comes
from `PermitsConserved`, and so does the silence after the close. A few lemmas
(`Takes`, `GivesBack`, `Keeps`, `Succeeds`) say what one request that moves does
to the cardinalities. The theorems are `TypeCorrect`, `PermitsAreConserved`,
`RowsAreBounded`, `SuccessesAreReal` and `QuietAfterClose`.

**Order pool** (from `PoolAssumption`). That the events of an order are a sensible
sequence follows from what ties them to its slot: no two slots hold one order and
no order is drawn twice (`Owners`), a slot remembers the last step of its chain,
or of a fresh chain at most that its predecessor was cancelled (`Memory`), and
the events of an order in a slot are its steps so far and duplicates of that
cancellation (`History`). `StaysSensible` says what may be emitted next,
`OwnSlot`, `OtherSlot` and `NewOrder` what becomes of the slots. The theorems
are `TypeCorrect`, `OrdersAreInOrder`, `TheEndIsTheEnd` and `FreshOnce`.

**Migrations** (from no assumption: for every set of keys and every number of
rows and of killed runs). The inductive invariant says that `schema` is
`SchemaOf(revision)` and that the calls still to be made, `todo`, lead from
`altered` to `SchemaOf(target)`: a call that is executed goes from `todo` into
`altered` (`AfterFirst`), a failure takes all of them back, and a commit finds
`todo` empty. It rests on what each of the eight revision functions makes of the
schema before it (`InitUp` to `UniqueDown`, the revisions written out call by
call) and on `AfterConcat`, which puts the revisions of one run together
(`PathLeads`). `After`, what a list of calls makes of a schema, is defined by
which column is added or dropped at which place and not by recursion, so that
these two lemmas need no induction. From it follow `RevisionIsSchema` and
`HeadIsWhatServicesExpect`. `UpgradesKeepData` needs `Guarded` too: an upgrade of
revision 1, the only one that drops columns it finds, has the call that adds
`events.order_id` still before it, or has executed it, on a table without rows
which has been locked since.

Only model-checked: all liveness (`EventuallySettled`, `AllPassed`,
`EventuallyHandled`, `StartsAndEnds`, `EveryRequestEnds`). Properties under
fairness and ENABLED are out of the proof system's reach here. All the
invariants and action properties that the runs check, and the refinements, are
theorems. Strengthenings that no run lists, such as `AttemptsPaid`, `Guarded`
and the invariant of the migrations, were checked by TLC on the runs' instances
before they were proved.

## What is not modelled

- Time, except the age of a row: delays, intervals and backoff lengths are not
  modelled, only that they end.
- Message contents, validation of requests, templates, logging and the
  counters that no property is about. `GET` handlers only read. What the
  revision `dates` does to the values of naive timestamps (Postgres reads them
  in the session's time zone) is left out; only the types change.
- Engines and connection pools: a connection that cannot be checked out is one
  of the failures of each database call; the sum of the pools against
  pgbouncer's limit is not modelled.
- Configuration is the CONSTANTS. `kafka_connect_retry_attempts <= 0` is
  modelled for the consumer; for the producer it depends on what FastStream does
  with a broker that was not connected, which is not in `src/`.
- Coroutines that never await (`rate_limited_event_loop.py:35` and `:54`,
  `kafka_consumer.py:123`): they need a model of the event loop's scheduler and
  not of these services.
- The clients a failed start of the producer leaves open: nothing is sent to or
  read from them, so no property of the service depends on them.
- The order in which concurrent tasks of the generator post two events of one
  order: the producer accepts events in any order.

## Further work

A producer run with batches of one row and rows that fail again and again, for
the starvation at `event_service.py:78`.
