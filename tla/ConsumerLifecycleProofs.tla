----------------------- MODULE ConsumerLifecycleProofs -----------------------
(***************************************************************************)
(* Proofs about ConsumerLifecycle, for any number of attempts and faults:  *)
(* the loop keeps its clients, a consumer that is left behind was paid for *)
(* by a failed call, and a life without one ends clean.                    *)
(***************************************************************************)
EXTENDS ConsumerLifecycle, FiniteSetTheorems, TLAPS

\* The consumer of attempt a is still there for somebody.
Present(a) == <<"consumer", a>> \in running \/ a \in members

\* What connect, the task and disconnect know of each other's progress.
Stages ==
    /\ lifespan \in Kinds \cup {"deaf"} => task = "none"
    /\ lifespan \in Kinds => <<"producer", attempt>> \notin running
    /\ lifespan = "consumer" => ~Present(attempt)
    /\ lifespan = "producer" => consumer = attempt /\ <<"consumer", attempt>> \in running
    /\ lifespan \in {"serving", "joining"} => task \in {"polling", "handling", "failed"}
    /\ task \in {"polling", "handling"} =>
           lifespan \in {"serving", "joining"} /\ consumer = attempt
    /\ lifespan = "disconnecting" =>
           task = "done" /\ (consumer = attempt \/ (consumer = 0 /\ ~Present(attempt)))

\* Every attempt but the last was ended by a fault, and so was the last one
\* wherever its consumer is abandoned.
Costs ==
    /\ attempt - 1 <= faults
    /\ lifespan = "deaf" => attempt <= faults
    /\ task = "failed" \/ lifespan = "failed" =>
           attempt <= faults \/ (running = {} /\ members = {})
    /\ lifespan = "ended" => attempt <= faults \/ ~Present(attempt)

\* Without a fault there is one producer, and it is _producer.
Producers ==
    faults = 0 =>
        /\ \A a \in 1 .. attempt : <<"producer", a>> \in running => a = producer
        /\ lifespan = "ended" => producer = 0

IInv == TypeOK /\ Stages /\ LoopHasItsClients /\ Costs /\ Producers

-----------------------------------------------------------------------------
LEMMA Numbers ==
    ASSUME TypeOK
    PROVE  /\ attempts \in Int /\ attempt \in Nat \ {0}
           /\ consumer \in Nat /\ producer \in Nat
           /\ faults \in Nat /\ MaxFaults \in Nat
  BY NumbersAssumption DEF TypeOK

LEMMA IInvInit == Init => IInv
  BY NumbersAssumption
  DEF Init, IInv, TypeOK, Stages, LoopHasItsClients, Costs, Producers, Present, Kinds

LEMMA IInvStep == IInv /\ [Next]_vars => IInv'
  <1> SUFFICES ASSUME IInv, [Next]_vars
               PROVE  IInv'
    OBVIOUS
  <1>0. TypeOK
    BY DEF IInv
  <1> USE <1>0, Numbers
          DEF IInv, TypeOK, Stages, LoopHasItsClients, Costs, Producers, Present, Kinds, clients
  <1>1. CASE ConnectNothing
    BY <1>1 DEF ConnectNothing
  <1>2. CASE StartConsumer
    <2> USE <1>2 DEF StartConsumer
    <2>1. <<"consumer", attempt>> \in Kinds \X (1 .. attempt)
      OBVIOUS
    <2>2. running' \subseteq Kinds \X (1 .. attempt') /\ members' \subseteq 1 .. attempt'
      BY <2>1
    <2>3. TypeOK'
      BY <2>2
    <2>4. Stages' /\ LoopHasItsClients'
      OBVIOUS
    <2>5. Costs' /\ Producers'
      OBVIOUS
    <2> QED
      BY <2>3, <2>4, <2>5
  <1>3. CASE StartConsumerFail
    BY <1>3 DEF StartConsumerFail, Fault, NextAttempt
  <1>4. CASE StartProducer
    BY <1>4 DEF StartProducer, Serve
  <1>5. CASE StartProducerFail
    BY <1>5 DEF StartProducerFail, Fault, NextAttempt
  <1>6. CASE LoopStep
    BY <1>6 DEF LoopStep
  <1>7. CASE LoopFail
    BY <1>7 DEF LoopFail, Fault
  <1>8. CASE Rejoin
    BY <1>8 DEF Rejoin
  <1>9. CASE Stop
    BY <1>9 DEF Stop
  <1>10. CASE StopDeaf
    BY <1>10 DEF StopDeaf
  <1>11. CASE Join
    BY <1>11 DEF Join
  <1>12. CASE JoinFailed
    BY <1>12 DEF JoinFailed
  <1>13. CASE StopConsumer
    BY <1>13 DEF StopConsumer
  <1>14. CASE StopProducer
    BY <1>14 DEF StopProducer
  <1>15. CASE DisconnectFail
    BY <1>15 DEF DisconnectFail, Fault
  <1>16. ASSUME NEW a \in members, Evict(a)
        PROVE  IInv'
    BY <1>16 DEF Evict, Polled
  <1>17. CASE UNCHANGED vars
    BY <1>17 DEF vars
  <1> QED
    BY <1>1, <1>2, <1>3, <1>4, <1>5, <1>6, <1>7, <1>8, <1>9, <1>10, <1>11, <1>12, <1>13, <1>14, <1>15, <1>16, <1>17 DEF Next, Connect, End

LEMMA Inductive == Spec => []IInv
  BY IInvInit, IInvStep, PTL DEF Spec

-----------------------------------------------------------------------------
\* Neither a retry of connect nor the shutdown takes a client away from the loop,
\* whatever number of attempts is configured.
THEOREM LoopKeepsItsClients == Spec => []LoopHasItsClients
  <1>1. IInv => LoopHasItsClients
    BY DEF IInv
  <1> QED
    BY <1>1, Inductive, PTL

\* The variables of the lifespan keep their types.
THEOREM TypeCorrect == Spec => []TypeOK
  <1>1. IInv => TypeOK
    BY DEF IInv
  <1> QED
    BY <1>1, Inductive, PTL

\* At most one consumer is left behind for every failed call.
THEOREM LostArePaidFor == Spec => []LostNeedFaults
  <1>1. IInv => LostNeedFaults
    <2> SUFFICES ASSUME IInv
                 PROVE  Cardinality(Lost) <= faults
      BY DEF LostNeedFaults
    <2>1. attempt \in Nat \ {0} /\ faults \in Nat
      BY Numbers DEF IInv
    <2>2. Lost \subseteq 1 .. faults
      <3> SUFFICES ASSUME NEW a \in Lost
                   PROVE  a \in 1 .. faults
        OBVIOUS
      <3>1. a \in 1 .. attempt /\ Present(a) /\ attempt - 1 <= faults
        BY DEF Lost, Present, IInv, Costs
      <3>2. CASE attempt <= faults
        BY <2>1, <3>1, <3>2
      <3>3. CASE ~(attempt <= faults)
        <4>1. lifespan \notin {"deaf", "failed"} /\ task # "failed"
          BY <3>1, <3>3 DEF IInv, Costs, Present
        <4>2. a # consumer \/ lifespan = "ended"
          BY <4>1 DEF Lost
        <4>3. consumer = attempt \/ ~Present(attempt)
          BY <4>1, <3>3 DEF IInv, TypeOK, Stages, Costs, Kinds
        <4>4. lifespan = "ended" => ~Present(attempt)
          BY <3>3 DEF IInv, Costs
        <4>5. a # attempt
          BY <3>1, <4>2, <4>3, <4>4
        <4> QED
          BY <2>1, <3>1, <4>5
      <3> QED
        BY <3>2, <3>3
    <2>3. IsFiniteSet(1 .. faults) /\ Cardinality(1 .. faults) = faults
      BY <2>1, FS_Interval
    <2> QED
      BY <2>2, <2>3, FS_Subset
  <1> QED
    BY <1>1, Inductive, PTL

\* A life without a failed call ends with all clients closed and the group left.
THEOREM EndsClean == Spec => []CleanEnd
  <1>1. IInv => CleanEnd
    <2> SUFFICES ASSUME IInv, lifespan \in {"ended", "failed"}, faults = 0
                 PROVE  running = {} /\ members = {}
      BY DEF CleanEnd
    <2>1. attempt = 1 /\ running \subseteq Kinds \X {1} /\ members \subseteq {1}
      BY Numbers DEF IInv, TypeOK, Costs
    <2>2. CASE lifespan = "failed"
      BY <2>1, <2>2 DEF IInv, Costs
    <2>3. CASE lifespan = "ended"
      <3>1. <<"consumer", 1>> \notin running /\ 1 \notin members
        BY <2>1, <2>3 DEF IInv, Costs, Present
      <3>2. <<"producer", 1>> \notin running
        BY <2>1, <2>3 DEF IInv, Producers
      <3> QED
        BY <2>1, <3>1, <3>2 DEF Kinds
    <2> QED
      BY <2>2, <2>3
  <1> QED
    BY <1>1, Inductive, PTL
=============================================================================
