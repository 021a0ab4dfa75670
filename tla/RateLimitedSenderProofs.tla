----------------------- MODULE RateLimitedSenderProofs -----------------------
(***************************************************************************)
(* Proofs about RateLimitedSender, for any number of requests, permits,    *)
(* attempts and health checks: permits are conserved, a request is stored  *)
(* at most once per attempt, successes are real and counted, and nothing   *)
(* is under way after the end.                                             *)
(***************************************************************************)
EXTENDS RateLimitedSender, FiniteSetTheorems, TLAPS

\* RowsBoundedByAttempts is not inductive: an attempt under way has stored
\* nothing yet, and one that may be repeated is not the last.
Effort ==
    \A r \in Requests :
        /\ rows[r] + wire[r] <= attempt[r]
        /\ pc[r] \in {"unsent", "waiting"} => attempt[r] = 0
        /\ pc[r] = "sending" => rows[r] + wire[r] < attempt[r]
        /\ pc[r] = "backoff" => attempt[r] < Attempts

\* Nothing has been sent at the gate, so whoever leaves it for good has nothing
\* under way.
GateIsQuiet == loop = "gate" => \A r \in Requests : pc[r] = "unsent"

IInv ==
    /\ TypeOK
    /\ GateIsQuiet
    /\ PermitsConserved
    /\ Effort
    /\ SuccessIsReal
    /\ NothingAfterClose

Successes == {r \in Requests : pc[r] = "created"}

\* The limits are positive, whatever the settings.
LEMMA Limits == Permits \in Nat \ {0} /\ Attempts \in Nat \ {0}
  BY NumbersAssumption DEF Permits, Attempts

\* Sets of requests are finite.
LEMMA Finite ==
    /\ IsFiniteSet(Holders) /\ Cardinality(Holders) \in Nat
    /\ IsFiniteSet(Successes) /\ Cardinality(Successes) \in Nat
  <1>1. Holders \in SUBSET Requests /\ Successes \in SUBSET Requests
    BY DEF Holders, Successes
  <1> QED
    BY <1>1, FS_Subset, FS_CardinalityType, RequestsAssumption

\* What a request that moves does to the two sets that are counted.
LEMMA Moves ==
    ASSUME TypeOK, NEW r \in Requests, NEW x, pc' = [pc EXCEPT ![r] = x]
    PROVE  /\ x \in Holding => Holders' = Holders \cup {r}
           /\ x \notin Holding => Holders' = Holders \ {r}
           /\ x = "created" => Successes' = Successes \cup {r}
           /\ x # "created" => Successes' = Successes \ {r}
  <1>1. DOMAIN pc = Requests
    BY DEF TypeOK
  <1>2. \A q \in Requests : pc'[q] = IF q = r THEN x ELSE pc[q]
    BY <1>1
  <1>3. x \in Holding => Holders' = Holders \cup {r}
    BY <1>2 DEF Holders
  <1>4. x \notin Holding => Holders' = Holders \ {r}
    BY <1>2 DEF Holders
  <1>5. x = "created" => Successes' = Successes \cup {r}
    BY <1>2 DEF Successes
  <1>6. x # "created" => Successes' = Successes \ {r}
    BY <1>2 DEF Successes
  <1> QED
    BY <1>3, <1>4, <1>5, <1>6

\* A request that takes a permit, gives it back, or does neither.
LEMMA Takes ==
    ASSUME TypeOK, NEW r \in Requests, NEW x \in Holding, pc[r] \notin Holding,
           pc' = [pc EXCEPT ![r] = x]
    PROVE  Cardinality(Holders') = Cardinality(Holders) + 1
  <1>1. r \notin Holders
    BY DEF Holders
  <1>2. Holders' = Holders \cup {r}
    BY Moves
  <1>3. Cardinality(Holders \cup {r}) = Cardinality(Holders) + 1
    BY <1>1, Finite, FS_AddElement
  <1> QED
    BY <1>2, <1>3

LEMMA GivesBack ==
    ASSUME TypeOK, NEW r \in Requests, NEW x, x \notin Holding, pc[r] \in Holding,
           pc' = [pc EXCEPT ![r] = x]
    PROVE  /\ Cardinality(Holders') = Cardinality(Holders) - 1
           /\ Cardinality(Holders') \in Nat
  <1>1. r \in Holders
    BY DEF Holders
  <1>2. Holders' = Holders \ {r}
    BY Moves
  <1>3. /\ Cardinality(Holders \ {r}) = Cardinality(Holders) - 1
        /\ IsFiniteSet(Holders \ {r})
    BY <1>1, Finite, FS_RemoveElement
  <1>4. Cardinality(Holders \ {r}) \in Nat
    BY <1>3, FS_CardinalityType
  <1> QED
    BY <1>2, <1>3, <1>4

LEMMA Keeps ==
    ASSUME TypeOK, NEW r \in Requests, NEW x, pc[r] \in Holding <=> x \in Holding,
           pc' = [pc EXCEPT ![r] = x]
    PROVE  Holders' = Holders
  <1>1. CASE x \in Holding
    <2>1. r \in Holders
      BY <1>1 DEF Holders
    <2>2. Holders' = Holders \cup {r}
      BY <1>1, Moves
    <2> QED
      BY <2>1, <2>2
  <1>2. CASE x \notin Holding
    <2>1. r \notin Holders
      BY <1>2 DEF Holders
    <2>2. Holders' = Holders \ {r}
      BY <1>2, Moves
    <2> QED
      BY <2>1, <2>2
  <1> QED
    BY <1>1, <1>2

LEMMA Succeeds ==
    ASSUME TypeOK, NEW r \in Requests, NEW x, pc[r] # "created",
           pc' = [pc EXCEPT ![r] = x]
    PROVE  /\ x = "created" => Cardinality(Successes') = Cardinality(Successes) + 1
           /\ x # "created" => Successes' = Successes
  <1>1. r \notin Successes
    BY DEF Successes
  <1>2. ASSUME x = "created"
        PROVE  Cardinality(Successes') = Cardinality(Successes) + 1
    <2>1. Successes' = Successes \cup {r}
      BY <1>2, Moves
    <2>2. Cardinality(Successes \cup {r}) = Cardinality(Successes) + 1
      BY <1>1, Finite, FS_AddElement
    <2> QED
      BY <2>1, <2>2
  <1>3. ASSUME x # "created"
        PROVE  Successes' = Successes
    <2>1. Successes' = Successes \ {r}
      BY <1>3, Moves
    <2> QED
      BY <1>1, <2>1
  <1> QED
    BY <1>2, <1>3

-----------------------------------------------------------------------------
LEMMA IInvInit == Init => IInv
  <1> SUFFICES ASSUME Init
               PROVE  IInv
    OBVIOUS
  <1>1. Holders = {} /\ Successes = {}
    BY DEF Init, Holders, Holding, Successes
  <1>2. Cardinality({}) = 0
    BY FS_EmptySet
  <1>3. TypeOK
    BY Limits, NumbersAssumption DEF Init, TypeOK
  <1>4. PermitsConserved
    BY <1>1, <1>2, Limits DEF Init, PermitsConserved
  <1>5. Effort
    BY DEF Init, Effort
  <1>6. SuccessIsReal
    BY <1>1, <1>2 DEF Init, SuccessIsReal, Successes
  <1>7. NothingAfterClose
    BY DEF Init, NothingAfterClose
  <1>8. GateIsQuiet
    BY DEF Init, GateIsQuiet
  <1> QED
    BY <1>3, <1>4, <1>5, <1>6, <1>7, <1>8 DEF IInv

\* A step of the loop alone changes no request; if it is the end, no request is
\* under way and so none holds a permit.
LEMMA LoopStepKeeps ==
    ASSUME IInv, TypeOK', UNCHANGED <<permits, pc, attempt, wire, rows, sent>>,
           loop' = "gate" => loop = "gate",
           loop' \in {"closed", "failed"} =>
               \A r \in Requests : pc[r] \in Outcomes \cup {"unsent"}
    PROVE  IInv'
  <1>1. Holders' = Holders
    BY DEF Holders
  <1>2. PermitsConserved'
    BY <1>1 DEF IInv, PermitsConserved
  <1>3. Effort'
    BY DEF IInv, Effort
  <1>4. SuccessIsReal'
    BY DEF IInv, SuccessIsReal
  <1>5. NothingAfterClose'
    <2> SUFFICES ASSUME loop' \in {"closed", "failed"}
                 PROVE  /\ permits = Permits
                        /\ \A r \in Requests : pc[r] \in Outcomes \cup {"unsent"}
      BY DEF NothingAfterClose
    <2>1. Holders = {}
      BY DEF Holders, Holding, Outcomes
    <2>2. Cardinality({}) = 0
      BY FS_EmptySet
    <2>3. permits = Permits
      BY <2>1, <2>2, Limits DEF IInv, TypeOK, PermitsConserved
    <2> QED
      BY <2>3
  <1>6. GateIsQuiet'
    BY DEF IInv, GateIsQuiet
  <1> QED
    BY <1>2, <1>3, <1>4, <1>5, <1>6 DEF IInv

\* A request that is under way keeps the loop from being over.
LEMMA UnderWay ==
    ASSUME IInv, NEW r \in Requests, pc[r] \in {"waiting"} \cup Holding
    PROVE  loop \in {"running", "draining"}
  BY DEF IInv, TypeOK, GateIsQuiet, NothingAfterClose, Outcomes, Holding

\* A step that makes no request a success leaves the successes as they are.
LEMMA NotASuccess ==
    ASSUME IInv, NEW r \in Requests, NEW x, x # "created", pc[r] # "created",
           pc' = [pc EXCEPT ![r] = x], sent' = sent,
           rows' \in [Requests -> Nat],
           \A q \in Requests : rows'[q] >= rows[q]
    PROVE  SuccessIsReal'
  <1>1. Successes' = Successes
    BY Succeeds DEF IInv
  <1>2. sent' = Cardinality(Successes')
    BY <1>1 DEF IInv, SuccessIsReal, Successes
  <1>3. \A q \in Requests : pc'[q] = "created" => pc[q] = "created"
    BY DEF IInv, TypeOK
  <1>4. \A q \in Requests : rows[q] \in Nat
    BY DEF IInv, TypeOK
  <1>5. \A q \in Requests : rows[q] > 0 => rows'[q] > 0
    BY <1>4
  <1> QED
    BY <1>2, <1>3, <1>5 DEF IInv, SuccessIsReal, Successes
\* A request that leaves send_event gives its permit back.
LEMMA FinishKeeps ==
    ASSUME IInv, NEW r \in Requests, NEW x \in Outcomes, pc[r] \in Holding, Finish(r, x)
    PROVE  PermitsConserved' /\ permits' \in 0 .. Permits
  <1>1. /\ Cardinality(Holders') = Cardinality(Holders) - 1
        /\ Cardinality(Holders') \in Nat
    <2>1. x \notin Holding
      BY DEF Outcomes, Holding
    <2> QED
      BY <2>1, GivesBack DEF IInv, Finish
  <1>2. permits' = permits + 1 /\ permits \in 0 .. Permits
    BY DEF Finish, IInv, TypeOK
  <1>3. permits + Cardinality(Holders) = Permits
    BY DEF IInv, PermitsConserved
  <1>4. Cardinality(Holders) \in Nat
    BY Finite
  <1>5. permits' + Cardinality(Holders') = Permits
    BY <1>1, <1>2, <1>3, <1>4
  <1> QED
    BY <1>1, <1>2, <1>5, Limits DEF PermitsConserved

-----------------------------------------------------------------------------
\* The steps of the gate and of the loop.
LEMMA LoopKeeps == IInv /\ (Gate \/ Refill \/ Cancel \/ Close) => IInv'
  <1> SUFFICES ASSUME IInv, Gate \/ Refill \/ Cancel \/ Close
               PROVE  IInv'
    OBVIOUS
  <1>1. UNCHANGED <<permits, pc, attempt, wire, rows, sent>>
    BY DEF Gate, Healthy, Unhealthy, GiveUp, Refill, Cancel, Close
  <1>2. TypeOK'
    BY NumbersAssumption DEF IInv, TypeOK, Gate, Healthy, Unhealthy, GiveUp, Refill, Cancel, Close
  <1>3. loop' = "gate" => loop = "gate"
    BY DEF Gate, Healthy, Unhealthy, GiveUp, Refill, Cancel, Close
  <1>4. loop' \in {"closed", "failed"} =>
            \A r \in Requests : pc[r] \in Outcomes \cup {"unsent"}
    BY DEF IInv, GateIsQuiet, NothingAfterClose,
           Gate, Healthy, Unhealthy, GiveUp, Refill, Cancel, Close
  <1> QED
    BY <1>1, <1>2, <1>3, <1>4, LoopStepKeeps

LEMMA SpawnKeeps == \A r \in Requests : IInv /\ Spawn(r) => IInv'
  <1> SUFFICES ASSUME NEW r \in Requests, IInv, Spawn(r)
               PROVE  IInv'
    OBVIOUS
  <1>1. TypeOK'
    BY NumbersAssumption DEF IInv, TypeOK, Spawn, loopVars
  <1>2. Holders' = Holders
    BY Keeps DEF IInv, Spawn, Holding
  <1>3. PermitsConserved'
    BY <1>2 DEF IInv, PermitsConserved, Spawn
  <1>4. Effort'
    BY DEF IInv, TypeOK, Effort, Spawn
  <1>5. SuccessIsReal'
    <2>1. /\ pc[r] # "created" /\ pc' = [pc EXCEPT ![r] = "waiting"] /\ sent' = sent
          /\ rows' \in [Requests -> Nat]
          /\ \A q \in Requests : rows'[q] >= rows[q]
      BY DEF IInv, TypeOK, Spawn
    <2> QED
      BY <2>1, NotASuccess
  <1>6. GateIsQuiet' /\ NothingAfterClose'
    BY DEF Spawn, GateIsQuiet, NothingAfterClose
  <1> QED
    BY <1>1, <1>3, <1>4, <1>5, <1>6 DEF IInv

LEMMA AcquireKeeps == \A r \in Requests : IInv /\ Acquire(r) => IInv'
  <1> SUFFICES ASSUME NEW r \in Requests, IInv, Acquire(r)
               PROVE  IInv'
    OBVIOUS
  <1>1. TypeOK'
    BY Limits DEF IInv, TypeOK, Acquire, Holding, loopVars
  <1>2. Cardinality(Holders') = Cardinality(Holders) + 1
    BY Takes DEF IInv, Acquire, Holding
  <1>3. PermitsConserved'
    BY <1>2, Finite, Limits DEF IInv, TypeOK, PermitsConserved, Acquire
  <1>4. Effort'
    BY Limits DEF IInv, TypeOK, Effort, Acquire
  <1>5. SuccessIsReal'
    <2>1. /\ pc[r] # "created" /\ pc' = [pc EXCEPT ![r] = "sending"] /\ sent' = sent
          /\ rows' \in [Requests -> Nat]
          /\ \A q \in Requests : rows'[q] >= rows[q]
      BY DEF IInv, TypeOK, Acquire
    <2> QED
      BY <2>1, NotASuccess
  <1>6. GateIsQuiet' /\ NothingAfterClose'
    BY UnderWay DEF Acquire, GateIsQuiet, NothingAfterClose, loopVars
  <1> QED
    BY <1>1, <1>3, <1>4, <1>5, <1>6 DEF IInv

LEMMA AcquireTimeoutKeeps == \A r \in Requests : IInv /\ AcquireTimeout(r) => IInv'
  <1> SUFFICES ASSUME NEW r \in Requests, IInv, AcquireTimeout(r)
               PROVE  IInv'
    OBVIOUS
  <1>1. TypeOK'
    BY DEF IInv, TypeOK, AcquireTimeout, Outcomes, loopVars
  <1>2. Holders' = Holders
    BY Keeps DEF IInv, AcquireTimeout, Holding
  <1>3. PermitsConserved'
    BY <1>2 DEF IInv, PermitsConserved, AcquireTimeout
  <1>4. Effort'
    BY DEF IInv, TypeOK, Effort, AcquireTimeout
  <1>5. SuccessIsReal'
    <2>1. /\ pc[r] # "created" /\ pc' = [pc EXCEPT ![r] = "no_permit"] /\ sent' = sent
          /\ rows' \in [Requests -> Nat]
          /\ \A q \in Requests : rows'[q] >= rows[q]
      BY DEF IInv, TypeOK, AcquireTimeout
    <2> QED
      BY <2>1, NotASuccess
  <1>6. GateIsQuiet' /\ NothingAfterClose'
    BY UnderWay DEF AcquireTimeout, GateIsQuiet, NothingAfterClose, loopVars
  <1> QED
    BY <1>1, <1>3, <1>4, <1>5, <1>6 DEF IInv
\* What a POST without a 201 may have stored is still one row per attempt.
LEMMA Stored ==
    ASSUME IInv, NEW r \in Requests, MayHaveStored(r)
    PROVE  /\ rows' \in [Requests -> Nat]
           /\ \A q \in Requests : rows'[q] >= rows[q]
           /\ \A q \in Requests \ {r} : rows'[q] = rows[q]
           /\ rows'[r] <= rows[r] + 1
  BY DEF IInv, TypeOK, MayHaveStored

LEMMA CreatedKeeps == \A r \in Requests : IInv /\ Created(r) => IInv'
  <1> SUFFICES ASSUME NEW r \in Requests, IInv, Created(r)
               PROVE  IInv'
    OBVIOUS
  <1>1. PermitsConserved' /\ permits' \in 0 .. Permits
    BY FinishKeeps DEF Created, Outcomes, Holding
  <1>2. TypeOK'
    BY <1>1 DEF IInv, TypeOK, Created, Finish, Outcomes, loopVars
  <1>3. Effort'
    BY DEF IInv, TypeOK, Effort, Created, Finish
  <1>4. SuccessIsReal'
    <2>1. Cardinality(Successes') = Cardinality(Successes) + 1
      BY Succeeds DEF IInv, Created, Finish
    <2>2. sent' = Cardinality(Successes')
      BY <2>1 DEF IInv, SuccessIsReal, Successes, Created
    <2>3. \A q \in Requests : pc'[q] = "created" => rows'[q] > 0
      BY DEF IInv, TypeOK, SuccessIsReal, Created, Finish
    <2> QED
      BY <2>2, <2>3 DEF SuccessIsReal, Successes
  <1>5. GateIsQuiet' /\ NothingAfterClose'
    BY UnderWay DEF Created, Holding, GateIsQuiet, NothingAfterClose, loopVars
  <1> QED
    BY <1>1, <1>2, <1>3, <1>4, <1>5 DEF IInv

LEMMA RefusedKeeps ==
    \A r \in Requests : IInv /\ (Refused(r) \/ Unreachable(r)) => IInv'
  <1> SUFFICES ASSUME NEW r \in Requests, IInv,
                      NEW x \in {"refused", "unreachable"},
                      pc[r] = "sending", MayHaveStored(r), Finish(r, x),
                      UNCHANGED <<loopVars, attempt, wire, sent>>
               PROVE  IInv'
    BY DEF Refused, Unreachable
  <1>1. PermitsConserved' /\ permits' \in 0 .. Permits
    BY FinishKeeps DEF Outcomes, Holding
  <1>2. TypeOK'
    BY <1>1, Stored DEF IInv, TypeOK, Finish, Outcomes, loopVars
  <1>3. Effort'
    BY Stored DEF IInv, TypeOK, Effort, Finish
  <1>4. SuccessIsReal'
    BY NotASuccess, Stored DEF Finish
  <1>5. GateIsQuiet' /\ NothingAfterClose'
    BY UnderWay DEF Holding, GateIsQuiet, NothingAfterClose, loopVars
  <1> QED
    BY <1>1, <1>2, <1>3, <1>4, <1>5 DEF IInv

LEMMA TimedOutKeeps == \A r \in Requests : IInv /\ TimedOut(r) => IInv'
  <1> SUFFICES ASSUME NEW r \in Requests, IInv, TimedOut(r)
               PROVE  IInv'
    OBVIOUS
  <1>1. /\ rows' \in [Requests -> Nat] /\ wire' \in [Requests -> Nat]
        /\ \A q \in Requests : rows'[q] >= rows[q]
        /\ \A q \in Requests \ {r} : rows'[q] = rows[q] /\ wire'[q] = wire[q]
        /\ rows'[r] + wire'[r] <= rows[r] + wire[r] + 1
    BY Stored DEF TimedOut, IInv, TypeOK
  <1>2. PICK x \in {"backoff", "timed_out"} :
            /\ pc' = [pc EXCEPT ![r] = x]
            /\ x = "backoff" => attempt[r] < Attempts /\ UNCHANGED permits
            /\ x = "timed_out" => Finish(r, x)
    BY DEF TimedOut, Finish
  <1>3. pc[r] = "sending" /\ UNCHANGED <<loopVars, attempt, sent>>
    BY DEF TimedOut
  <1>4. PermitsConserved' /\ permits' \in 0 .. Permits
    <2>1. CASE x = "timed_out"
      BY <2>1, <1>2, <1>3, FinishKeeps DEF Outcomes, Holding
    <2>2. CASE x = "backoff"
      <3>1. Holders' = Holders
        BY <2>2, <1>2, <1>3, Keeps DEF IInv, Holding
      <3> QED
        BY <3>1, <2>2, <1>2 DEF IInv, TypeOK, PermitsConserved
    <2> QED
      BY <2>1, <2>2
  <1>5. TypeOK'
    BY <1>1, <1>2, <1>3, <1>4 DEF IInv, TypeOK, Outcomes, Holding, loopVars
  <1>6. Effort'
    BY <1>1, <1>2, <1>3 DEF IInv, TypeOK, Effort
  <1>7. SuccessIsReal'
    BY <1>1, <1>2, <1>3, NotASuccess
  <1>8. GateIsQuiet' /\ NothingAfterClose'
    BY <1>3, UnderWay DEF Holding, GateIsQuiet, NothingAfterClose, loopVars
  <1> QED
    BY <1>4, <1>5, <1>6, <1>7, <1>8 DEF IInv

LEMMA RetryKeeps == \A r \in Requests : IInv /\ Retry(r) => IInv'
  <1> SUFFICES ASSUME NEW r \in Requests, IInv, Retry(r)
               PROVE  IInv'
    OBVIOUS
  <1>1. attempt[r] < Attempts
    BY DEF IInv, Effort, Retry
  <1>2. TypeOK'
    BY <1>1, Limits DEF IInv, TypeOK, Retry, Holding, loopVars
  <1>3. Holders' = Holders
    BY Keeps DEF IInv, Retry, Holding
  <1>4. PermitsConserved'
    BY <1>3 DEF IInv, PermitsConserved, Retry
  <1>5. Effort'
    BY DEF IInv, TypeOK, Effort, Retry
  <1>6. SuccessIsReal'
    <2>1. /\ pc[r] # "created" /\ pc' = [pc EXCEPT ![r] = "sending"] /\ sent' = sent
          /\ rows' \in [Requests -> Nat]
          /\ \A q \in Requests : rows'[q] >= rows[q]
      BY DEF IInv, TypeOK, Retry
    <2> QED
      BY <2>1, NotASuccess
  <1>7. GateIsQuiet' /\ NothingAfterClose'
    BY UnderWay DEF Retry, Holding, GateIsQuiet, NothingAfterClose, loopVars
  <1> QED
    BY <1>2, <1>4, <1>5, <1>6, <1>7 DEF IInv

\* A POST that arrives late turns a row that was allowed for into a row.
LEMMA LateKeeps == \A r \in Requests : IInv /\ Late(r) => IInv'
  <1> SUFFICES ASSUME NEW r \in Requests, IInv, Late(r)
               PROVE  IInv'
    OBVIOUS
  <1>1. TypeOK'
    BY Stored DEF IInv, TypeOK, Late, loopVars
  <1>2. Holders' = Holders
    BY DEF Holders, Late
  <1>3. PermitsConserved'
    BY <1>2 DEF IInv, PermitsConserved, Late
  <1>4. \A q \in Requests : rows'[q] + wire'[q] <= rows[q] + wire[q]
    BY Stored DEF IInv, TypeOK, Late
  <1>5. Effort'
    BY <1>4, <1>1 DEF IInv, TypeOK, Effort, Late
  <1>6. SuccessIsReal'
    BY Stored DEF IInv, TypeOK, SuccessIsReal, Late
  <1>7. GateIsQuiet' /\ NothingAfterClose'
    BY DEF IInv, Late, GateIsQuiet, NothingAfterClose, loopVars
  <1> QED
    BY <1>1, <1>3, <1>5, <1>6, <1>7 DEF IInv

-----------------------------------------------------------------------------
LEMMA IInvStep == IInv /\ [Next]_vars => IInv'
  <1> SUFFICES ASSUME IInv, [Next]_vars
               PROVE  IInv'
    OBVIOUS
  <1>1. CASE Gate \/ Refill \/ Cancel \/ Close
    BY <1>1, LoopKeeps
  <1>2. ASSUME NEW r \in Requests, Spawn(r)
        PROVE  IInv'
    BY <1>2, SpawnKeeps
  <1>3. ASSUME NEW r \in Requests, Acquire(r)
        PROVE  IInv'
    BY <1>3, AcquireKeeps
  <1>4. ASSUME NEW r \in Requests, AcquireTimeout(r)
        PROVE  IInv'
    BY <1>4, AcquireTimeoutKeeps
  <1>5. ASSUME NEW r \in Requests, Answer(r)
        PROVE  IInv'
    BY <1>5, CreatedKeeps, RefusedKeeps, TimedOutKeeps DEF Answer
  <1>6. ASSUME NEW r \in Requests, Retry(r)
        PROVE  IInv'
    BY <1>6, RetryKeeps
  <1>7. ASSUME NEW r \in Requests, Late(r)
        PROVE  IInv'
    BY <1>7, LateKeeps
  <1>8. CASE UNCHANGED vars
    <2>1. Holders' = Holders
      BY <1>8 DEF Holders, vars
    <2> QED
      BY <1>8, <2>1 DEF IInv, TypeOK, GateIsQuiet, PermitsConserved, Effort,
         SuccessIsReal, NothingAfterClose, vars, loopVars
  <1> QED
    BY <1>1, <1>2, <1>3, <1>4, <1>5, <1>6, <1>7, <1>8 DEF Next

\* The inductive invariant holds in every behaviour.
LEMMA Invariance == Spec => []IInv
  BY IInvInit, IInvStep, PTL DEF Spec

\* The state of the generator is well typed: never more permits than the
\* semaphore was made with, never an attempt beyond sender_max_retries.
THEOREM TypeCorrect == Spec => []TypeOK
  <1>1. IInv => TypeOK
    BY DEF IInv
  <1> QED
    BY <1>1, Invariance, PTL

\* No way through send_event loses or invents a permit of its semaphore.
THEOREM PermitsAreConserved == Spec => []PermitsConserved
  <1>1. IInv => PermitsConserved
    BY DEF IInv
  <1> QED
    BY <1>1, Invariance, PTL

\* An event is stored at most once per attempt of its request, POSTs that arrive
\* after their timeout included.
THEOREM RowsAreBounded == Spec => []RowsBoundedByAttempts
  <1>1. IInv => RowsBoundedByAttempts
    BY DEF IInv, Effort, RowsBoundedByAttempts
  <1> QED
    BY <1>1, Invariance, PTL

\* What send_event reports as sent is stored, and the counter counts just that.
THEOREM SuccessesAreReal == Spec => []SuccessIsReal
  <1>1. IInv => SuccessIsReal
    BY DEF IInv
  <1> QED
    BY <1>1, Invariance, PTL

\* After the end of the generator no request is under way and all permits are back.
THEOREM QuietAfterClose == Spec => []NothingAfterClose
  <1>1. IInv => NothingAfterClose
    BY DEF IInv
  <1> QED
    BY <1>1, Invariance, PTL
=============================================================================
