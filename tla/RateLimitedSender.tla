--------------------------- MODULE RateLimitedSender ---------------------------
(***************************************************************************)
(* The event generator's task, from the lifespan that creates it to its    *)
(* end.  It waits until the producer is healthy; then the loop of          *)
(* RateLimitedEventLoop.run takes a token of its rate semaphore for every  *)
(* event and spawns a task; the task takes one of a fixed number of        *)
(* permits within a timeout, then posts the event to the producer through  *)
(* ProducerClient, with a timeout and retries.                             *)
(*                                                                         *)
(* A request ends in one of the states of Outcomes.  send_event returns    *)
(* True for "created" and False for all the others.                        *)
(***************************************************************************)
EXTENDS Integers, FiniteSets

CONSTANTS
    HealthAttempts,  \* health_retry_attempts
    Requests,        \* the events the loop may send
    MaxConcurrent,   \* sender_max_concurrent
    SenderRetries,   \* sender_max_retries
    MaxTokens        \* bound: tokens of the rate semaphore

ASSUME RequestsAssumption == IsFiniteSet(Requests)
ASSUME NumbersAssumption  ==
    /\ HealthAttempts \in Nat
    /\ MaxConcurrent \in Int
    /\ SenderRetries \in Int
    /\ MaxTokens \in Nat

VARIABLES
    loop,      \* run_generator: "gate", "running", "draining", "closed" or "failed"
    checks,    \* health checks without a 200, at the gate
    tokens,    \* value of the rate semaphore
    permits,   \* value of the sender's semaphore
    pc,        \* where every request is
    attempt,   \* its attempts so far
    wire,      \* POSTs of it that were abandoned and are still under way
    rows,      \* rows the producer stored for it
    sent       \* generator_events_sent_total

loopVars == <<loop, checks, tokens>>
vars == <<loopVars, permits, pc, attempt, wire, rows, sent>>

Permits  == IF MaxConcurrent < 1 THEN 1 ELSE MaxConcurrent
Attempts == IF SenderRetries < 1 THEN 1 ELSE SenderRetries

Holding  == {"sending", "backoff"}
Outcomes == {"created", "refused", "unreachable", "timed_out", "no_permit"}

Init ==
    /\ loop = "gate"
    /\ checks = 0
    /\ tokens = 0
    /\ permits = Permits
    /\ pc = [r \in Requests |-> "unsent"]
    /\ attempt = [r \in Requests |-> 0]
    /\ wire = [r \in Requests |-> 0]
    /\ rows = [r \in Requests |-> 0]
    /\ sent = 0

-----------------------------------------------------------------------------
(* GenerateEventsUseCase.execute and HealthChecker.wait_for_ready.         *)

\* The producer answers 200; wait_for_ready returns and its count is gone.
Healthy ==
    /\ loop = "gate"
    /\ checks < HealthAttempts
    /\ loop' = "running"
    /\ checks' = 0
    /\ UNCHANGED <<tokens, permits, pc, attempt, wire, rows, sent>>

\* Another answer, or none: sleep and try again.
Unhealthy ==
    /\ loop = "gate"
    /\ checks < HealthAttempts
    /\ checks' = checks + 1
    /\ UNCHANGED <<loop, tokens, permits, pc, attempt, wire, rows, sent>>

\* RuntimeError: the generator's task is over, while its process goes on.
GiveUp ==
    /\ loop = "gate"
    /\ checks = HealthAttempts
    /\ loop' = "failed"
    /\ UNCHANGED <<checks, tokens, permits, pc, attempt, wire, rows, sent>>

-----------------------------------------------------------------------------
(* RateLimitedEventLoop.run.                                               *)

\* refill_rate wakes up and releases one token.
Refill ==
    /\ loop = "running"
    /\ tokens < MaxTokens
    /\ tokens' = tokens + 1
    /\ UNCHANGED <<loop, checks, permits, pc, attempt, wire, rows, sent>>

\* The loop got its payload and a token, and spawns send_one.
Spawn(r) ==
    /\ loop = "running"
    /\ tokens > 0
    /\ pc[r] = "unsent"
    /\ tokens' = tokens - 1
    /\ pc' = [pc EXCEPT ![r] = "waiting"]
    /\ UNCHANGED <<loop, checks, permits, attempt, wire, rows, sent>>

\* The lifespan cancels the generator: at the gate that is the end of it, in the
\* loop the refill task is cancelled and the spawned tasks are awaited.
Cancel ==
    /\ loop \in {"gate", "running"}
    /\ loop' = IF loop = "gate" THEN "closed" ELSE "draining"
    /\ UNCHANGED <<checks, tokens, permits, pc, attempt, wire, rows, sent>>

\* Faulty variant of Close: the pending tasks are not awaited.
CloseAtOnce ==
    /\ loop = "draining"
    /\ loop' = "closed"
    /\ UNCHANGED <<checks, tokens, permits, pc, attempt, wire, rows, sent>>

\* All pending tasks are done: the HTTP client is closed.
Close ==
    /\ loop = "draining"
    /\ \A r \in Requests : pc[r] \in Outcomes \cup {"unsent"}
    /\ loop' = "closed"
    /\ UNCHANGED <<checks, tokens, permits, pc, attempt, wire, rows, sent>>

-----------------------------------------------------------------------------
(* RateLimitedSender.send_event, one task per request.                     *)

Acquire(r) ==
    /\ pc[r] = "waiting"
    /\ permits > 0
    /\ permits' = permits - 1
    /\ pc' = [pc EXCEPT ![r] = "sending"]
    /\ attempt' = [attempt EXCEPT ![r] = 1]
    /\ UNCHANGED <<loopVars, wire, rows, sent>>

\* Faulty variant of AcquireTimeout: the acquire is inside the try/finally.
AcquireTimeoutReleases(r) ==
    /\ pc[r] = "waiting"
    /\ pc' = [pc EXCEPT ![r] = "no_permit"]
    /\ permits' = permits + 1
    /\ UNCHANGED <<loopVars, attempt, wire, rows, sent>>

\* The wait for a permit times out: the try/finally is not entered.
AcquireTimeout(r) ==
    /\ pc[r] = "waiting"
    /\ pc' = [pc EXCEPT ![r] = "no_permit"]
    /\ UNCHANGED <<loopVars, permits, attempt, wire, rows, sent>>

\* send_event returns through its finally.
Finish(r, outcome) ==
    /\ pc' = [pc EXCEPT ![r] = outcome]
    /\ permits' = permits + 1

\* What a POST without a 201 may have done at the producer all the same.
MayHaveStored(r) ==
    \/ UNCHANGED rows
    \/ rows' = [rows EXCEPT ![r] = @ + 1]

Created(r) ==
    /\ pc[r] = "sending"
    /\ rows' = [rows EXCEPT ![r] = @ + 1]
    /\ sent' = sent + 1
    /\ Finish(r, "created")
    /\ UNCHANGED <<loopVars, attempt, wire>>

\* Faulty variant of Refused: every answer counts as success.
RefusedIsSuccess(r) ==
    /\ pc[r] = "sending"
    /\ MayHaveStored(r)
    /\ sent' = sent + 1
    /\ Finish(r, "created")
    /\ UNCHANGED <<loopVars, attempt, wire>>

\* An answer other than 201 is final.
Refused(r) ==
    /\ pc[r] = "sending"
    /\ MayHaveStored(r)
    /\ Finish(r, "refused")
    /\ UNCHANGED <<loopVars, attempt, wire, sent>>

\* ConnectError, ReadError, PoolTimeout: ProducerClient catches them and returns
\* False, so the retry loop has a result and returns it.
Unreachable(r) ==
    /\ pc[r] = "sending"
    /\ MayHaveStored(r)
    /\ Finish(r, "unreachable")
    /\ UNCHANGED <<loopVars, attempt, wire, sent>>

\* Faulty variant of TimedOut: one attempt too many.
TimedOutOneMore(r) ==
    /\ pc[r] = "sending"
    /\ \/ MayHaveStored(r) /\ UNCHANGED wire
       \/ wire' = [wire EXCEPT ![r] = @ + 1] /\ UNCHANGED rows
    /\ IF attempt[r] <= Attempts
         THEN pc' = [pc EXCEPT ![r] = "backoff"] /\ UNCHANGED permits
         ELSE Finish(r, "timed_out")
    /\ UNCHANGED <<loopVars, attempt, sent>>

\* httpx or asyncio.timeout abandons the POST: it was lost, it was carried out,
\* or it is still on its way.  Another attempt, or the end.
TimedOut(r) ==
    /\ pc[r] = "sending"
    /\ \/ MayHaveStored(r) /\ UNCHANGED wire
       \/ wire' = [wire EXCEPT ![r] = @ + 1] /\ UNCHANGED rows
    /\ IF attempt[r] < Attempts
         THEN pc' = [pc EXCEPT ![r] = "backoff"] /\ UNCHANGED permits
         ELSE Finish(r, "timed_out")
    /\ UNCHANGED <<loopVars, attempt, sent>>

\* Faulty variant of Retry: the attempt is not counted.
RetryUncounted(r) ==
    /\ pc[r] = "backoff"
    /\ pc' = [pc EXCEPT ![r] = "sending"]
    /\ UNCHANGED <<loopVars, permits, attempt, wire, rows, sent>>

\* Faulty variant of Retry: the permit is acquired again, with the first one kept.
RetryAcquiresAgain(r) ==
    /\ pc[r] = "backoff"
    /\ permits > 0
    /\ permits' = permits - 1
    /\ pc' = [pc EXCEPT ![r] = "sending"]
    /\ attempt' = [attempt EXCEPT ![r] = @ + 1]
    /\ UNCHANGED <<loopVars, wire, rows, sent>>

\* The backoff sleep ends; the permit was kept all the time.
Retry(r) ==
    /\ pc[r] = "backoff"
    /\ pc' = [pc EXCEPT ![r] = "sending"]
    /\ attempt' = [attempt EXCEPT ![r] = @ + 1]
    /\ UNCHANGED <<loopVars, permits, wire, rows, sent>>

-----------------------------------------------------------------------------
\* An abandoned POST reaches the producer late, or not at all.
Late(r) ==
    /\ wire[r] > 0
    /\ wire' = [wire EXCEPT ![r] = @ - 1]
    /\ MayHaveStored(r)
    /\ UNCHANGED <<loopVars, permits, pc, attempt, sent>>

Gate == Healthy \/ Unhealthy \/ GiveUp

Answer(r) == Created(r) \/ Refused(r) \/ Unreachable(r) \/ TimedOut(r)

Next ==
    \/ Gate \/ Refill \/ Cancel \/ Close
    \/ \E r \in Requests :
          \/ Spawn(r)
          \/ Acquire(r) \/ AcquireTimeout(r)
          \/ Answer(r) \/ Retry(r)
          \/ Late(r)

Spec == Init /\ [][Next]_vars

\* Timers fire: a health check, a wait for a permit, a POST and a backoff all come to an end, and
\* a drained loop closes.  The producer owes nobody an answer.
Fairness ==
    /\ WF_vars(Gate)
    /\ WF_vars(Close)
    /\ \A r \in Requests :
          /\ WF_vars(Acquire(r) \/ AcquireTimeout(r))
          /\ WF_vars(Answer(r))
          /\ WF_vars(Retry(r))

FairSpec == Spec /\ Fairness

-----------------------------------------------------------------------------
(* Properties.                                                             *)

\* Type invariant.
TypeOK ==
    /\ loop \in {"gate", "running", "draining", "closed", "failed"}
    /\ checks \in 0 .. HealthAttempts
    /\ tokens \in 0 .. MaxTokens
    /\ permits \in 0 .. Permits
    /\ pc \in [Requests -> {"unsent", "waiting"} \cup Holding \cup Outcomes]
    /\ attempt \in [Requests -> 0 .. Attempts]
    /\ wire \in [Requests -> Nat]
    /\ rows \in [Requests -> Nat]
    /\ sent \in Nat

\* No permit is lost or invented, whichever way a request leaves send_event and
\* whether or not it ever got one: the permits that are free and those in use
\* add up, so at most Permits requests are being sent.
Holders == {r \in Requests : pc[r] \in Holding}
PermitsConserved == permits + Cardinality(Holders) = Permits

\* A retried request is stored at most once per attempt, POSTs that arrive after
\* they were given up included: this bounds the duplicates the consumer gets.
RowsBoundedByAttempts == \A r \in Requests : rows[r] + wire[r] <= attempt[r]

\* send_event returns True only for an event the producer stored, and
\* generator_events_sent_total counts exactly those requests, however many
\* attempts they took.
SuccessIsReal ==
    /\ \A r \in Requests : pc[r] = "created" => rows[r] > 0
    /\ sent = Cardinality({r \in Requests : pc[r] = "created"})

\* When the HTTP client is closed no request uses it and all permits are back:
\* a shutdown in the middle of any number of sends waits for all of them, and a
\* generator that gave up at the gate had none.
NothingAfterClose ==
    loop \in {"closed", "failed"} =>
        /\ permits = Permits
        /\ \A r \in Requests : pc[r] \in Outcomes \cup {"unsent"}

\* The gate opens or gives up, every request comes to an end, and so does the
\* shutdown, whatever the producer does: no request waits for a permit for ever.
EveryRequestEnds ==
    /\ loop = "gate" ~> loop # "gate"
    /\ \A r \in Requests : pc[r] = "waiting" ~> pc[r] \in Outcomes
    /\ loop = "draining" ~> loop = "closed"

-----------------------------------------------------------------------------
(* What the documentation says of the sender and the code does not do.     *)

\* README.md:13, the generator retries while the producer is unavailable.
RetriedWhileUnreachable ==
    \A r \in Requests : pc[r] = "unreachable" => attempt[r] = Attempts
=============================================================================
