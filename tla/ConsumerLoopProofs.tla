------------------------- MODULE ConsumerLoopProofs -------------------------
(***************************************************************************)
(* Proofs about ConsumerLoop: its type invariant, that a committed offset  *)
(* is settled, that messages of a partition are handled in order, that a   *)
(* commit never takes an offset back, that the notifications implement the *)
(* ledger, and what the counters and the dead letters are bounded by.      *)
(* They need at least one attempt per message: with MaxRetries = 0         *)
(* messages are committed unhandled.                                       *)
(***************************************************************************)
EXTENDS ConsumerLoop, FiniteSetTheorems, SequenceTheorems, TLAPS

\* The strengthening that is inductive: CommittedIsSettled needs the positions
\* a commit will take over, and these need the message in a loop's hands.
IInv ==
    /\ TypeOK
    /\ PositionsAccountedFor
    /\ HandlingIsSound
    /\ HandledInOrder
    /\ CommittedIsSettled

\* The invariant holds initially.
LEMMA IInvInit == Init => IInv
  <1> SUFFICES ASSUME Init PROVE IInv
    OBVIOUS
  <1> USE GroupAssumption, MessagesAssumption, NumbersAssumption
  <1>1. log \in [Partitions -> Seq(Keys \cup {Malformed})]
        /\ \A p \in Partitions : Len(log[p]) = 0
    BY EmptySeq DEF Init
  <1>2. TypeOK
    BY <1>1 DEF Init, TypeOK, Locations
  <1>3. PositionsAccountedFor /\ CommittedIsSettled
    BY <1>1 DEF Init, PositionsAccountedFor, CommittedIsSettled
  <1>4. HandlingIsSound /\ HandledInOrder
    BY DEF Init, HandlingIsSound, HandledInOrder, Handling
  <1> QED
    BY <1>2, <1>3, <1>4 DEF IInv

-----------------------------------------------------------------------------
(* What only grows: the log, the notifications and the dead letter queue.  *)

\* A step only adds messages, notifications and dead letters.
LEMMA Grows ==
    ASSUME TypeOK, [Step]_vars
    PROVE  /\ log' \in [Partitions -> Seq(Keys \cup {Malformed})]
           /\ \A p \in Partitions :
                 /\ Len(log[p]) <= Len(log'[p])
                 /\ \A o \in 1 .. Len(log[p]) : log'[p][o] = log[p][o]
           /\ notified' \in [Keys -> Nat]
           /\ \A k \in Keys : notified'[k] >= notified[k]
           /\ dlq \subseteq dlq'
  <1>0. /\ log \in [Partitions -> Seq(Keys \cup {Malformed})]
        /\ \A p \in Partitions : Len(log[p]) \in Nat
        /\ notified \in [Keys -> Nat]
    BY DEF TypeOK
  <1>1. CASE \E p \in Partitions, m \in Keys \cup {Malformed} : Arrive(p, m)
    <2>1. PICK p \in Partitions, m \in Keys \cup {Malformed} : Arrive(p, m)
      BY <1>1
    <2>2. log[p] \in Seq(Keys \cup {Malformed})
      BY <1>0
    <2>3. /\ Append(log[p], m) \in Seq(Keys \cup {Malformed})
          /\ Len(Append(log[p], m)) = Len(log[p]) + 1
          /\ \A o \in 1 .. Len(log[p]) : Append(log[p], m)[o] = log[p][o]
      BY <2>2, AppendProperties
    <2>4. /\ log' = [log EXCEPT ![p] = Append(log[p], m)]
          /\ notified' = notified /\ dlq' = dlq
      BY <2>1 DEF Arrive, dbVars
    <2> QED
      BY <1>0, <2>3, <2>4
  <1>2. ASSUME log' = log, dlq \subseteq dlq',
               \/ notified' = notified
               \/ \E k : notified' = [notified EXCEPT ![k] = notified[k] + 1]
        PROVE  /\ log' \in [Partitions -> Seq(Keys \cup {Malformed})]
               /\ \A p \in Partitions :
                     /\ Len(log[p]) <= Len(log'[p])
                     /\ \A o \in 1 .. Len(log[p]) : log'[p][o] = log[p][o]
               /\ notified' \in [Keys -> Nat]
               /\ \A k \in Keys : notified'[k] >= notified[k]
               /\ dlq \subseteq dlq'
    BY <1>0, <1>2
  <1>3. CASE Rebalance \/ UNCHANGED vars
    BY <1>2, <1>3 DEF Rebalance, vars, dbVars
  <1>4. ASSUME NEW c \in Consumers,
               \/ Start(c) \/ StartFail(c) \/ Halt(c) \/ FetchFail(c)
               \/ \E p \in Partitions : Fetch(c, p)
        PROVE  log' = log /\ dlq' = dlq /\ notified' = notified
    BY <1>4 DEF Start, StartFail, Halt, FetchFail, Fetch, dbVars
  <1>5. ASSUME NEW c \in Consumers, Handle(c)
        PROVE  /\ log' = log
               /\ dlq \subseteq dlq'
               /\ \/ notified' = notified
                  \/ \E k : notified' = [notified EXCEPT ![k] = notified[k] + 1]
    BY <1>5 DEF Handle, Check, CheckFail, Insert, InsertConflict, InsertFail, Retry,
                DeadLetter, DeadLetterFail, Commit, CommitFail, AddRow, dbVars
  <1> QED
    BY <1>1, <1>2, <1>3, <1>4, <1>5 DEF Step, GroupStep

\* A message that is settled stays settled.
LEMMA SettledStays ==
    ASSUME TypeOK, [Step]_vars, NEW p \in Partitions, NEW o \in 1 .. Len(log[p]),
           Settled(p, o)
    PROVE  Settled(p, o)'
  <1>1. log'[p][o] = log[p][o] /\ dlq \subseteq dlq'
    BY Grows
  <1>2. \A k \in Keys : notified[k] > 0 => notified'[k] > 0
    <2>1. \A k \in Keys : notified[k] \in Nat /\ notified'[k] \in Nat
      BY Grows DEF TypeOK
    <2>2. \A k \in Keys : notified'[k] >= notified[k]
      BY Grows
    <2> QED
      BY <2>1, <2>2
  <1>3. CASE log[p][o] = Malformed
    BY <1>1, <1>3 DEF Settled
  <1>4. CASE Notified(p, o)
    BY <1>1, <1>2, <1>4 DEF Settled, Notified
  <1>5. CASE DeadLettered(p, o)
    BY <1>1, <1>5 DEF Settled, DeadLettered
  <1> QED
    BY <1>3, <1>4, <1>5 DEF Settled

-----------------------------------------------------------------------------
(* Types.                                                                  *)

\* A step keeps the types; HandlingIsSound bounds the attempts.
LEMMA TypeStep == TypeOK /\ HandlingIsSound /\ [Step]_vars => TypeOK'
  <1> SUFFICES ASSUME TypeOK, HandlingIsSound, [Step]_vars PROVE TypeOK'
    OBVIOUS
  <1> USE NumbersAssumption
  <1>0. log' \in [Partitions -> Seq(Keys \cup {Malformed})] /\ notified' \in [Keys -> Nat]
    BY Grows
  <1>1. CASE \E p \in Partitions, m \in Keys \cup {Malformed} : Arrive(p, m)
    BY <1>0, <1>1 DEF Arrive, TypeOK, groupVars, loopVars, dbVars, faultVars
  <1>2. CASE Rebalance
    <2>1. owner' \in [Partitions -> Consumers \cup {NoConsumer}]
      BY <1>2 DEF Rebalance
    <2>2. rebalances' \in 0 .. MaxRebalances
      BY <1>2 DEF Rebalance, ResumeFrom, TypeOK
    <2> QED
      BY <1>0, <1>2, <2>1, <2>2 DEF Rebalance, ResumeFrom, TypeOK, loopVars, dbVars
  <1>3. ASSUME NEW c \in Consumers, Start(c) \/ StartFail(c) \/ FetchFail(c) PROVE TypeOK'
    <2>1. pc' \in [Consumers -> Locations]
      BY <1>3 DEF Start, StartFail, FetchFail, TypeOK, Locations, loopVars
    <2>2. brokerFaults' \in 0 .. MaxBrokerFaults
          /\ UNCHANGED <<dbFaults, rebalances, restarts>>
      BY <1>3 DEF Start, StartFail, FetchFail, BrokerFault, TypeOK, faultVars
    <2>3. UNCHANGED <<groupVars, msg, attempt, dbVars, dlq>>
      BY <1>3 DEF Start, StartFail, FetchFail, loopVars
    <2> QED
      BY <1>0, <2>1, <2>2, <2>3 DEF TypeOK, groupVars, dbVars
  <1>4. ASSUME NEW c \in Consumers, Halt(c) PROVE TypeOK'
    <2>1. owner' \in [Partitions -> Consumers \cup {NoConsumer}]
      BY <1>4 DEF Halt, TypeOK
    <2>2. /\ pc' \in [Consumers -> Locations]
          /\ msg' \in [Consumers -> (Partitions \X Nat) \cup {NoMessage}]
      BY <1>4 DEF Halt, TypeOK, Locations
    <2>3. /\ attempt' \in [Consumers -> 0 .. IF MaxRetries = 0 THEN 1 ELSE MaxRetries]
          /\ created' \in [Consumers -> Nat]
          /\ restarts' \in 0 .. MaxRestarts
      BY <1>4 DEF Halt, TypeOK
    <2> QED
      BY <1>0, <1>4, <2>1, <2>2, <2>3 DEF Halt, TypeOK
  <1>5. ASSUME NEW c \in Consumers, NEW p \in Partitions, Fetch(c, p) PROVE TypeOK'
    <2>1. position[p] + 1 \in Nat /\ position' \in [Partitions -> Nat]
      BY <1>5 DEF Fetch, TypeOK
    <2>2. msg' \in [Consumers -> (Partitions \X Nat) \cup {NoMessage}]
      BY <1>5, <2>1 DEF Fetch, TypeOK
    <2>3. pc' \in [Consumers -> Locations]
      BY <1>5 DEF Fetch, TypeOK, Locations, Handling
    <2>4. attempt' \in [Consumers -> 0 .. IF MaxRetries = 0 THEN 1 ELSE MaxRetries]
      BY <1>5 DEF Fetch, TypeOK
    <2> QED
      BY <1>0, <1>5, <2>1, <2>2, <2>3, <2>4 DEF Fetch, TypeOK, dbVars, faultVars
  <1>6. ASSUME NEW c \in Consumers, Handle(c) PROVE TypeOK'
    <2>1. ASSUME HandlerFailed(c) PROVE pc' \in [Consumers -> Locations]
      BY <2>1 DEF HandlerFailed, TypeOK, Locations, Handling
    <2>2. CASE Check(c)
      <3>1. pc' \in [Consumers -> Locations]
        BY <2>2 DEF Check, TypeOK, Locations, Handling
      <3> QED
        BY <2>2, <3>1 DEF Check, TypeOK, groupVars, dbVars, faultVars
    <2>3. CASE CheckFail(c)
      BY <2>1, <2>3 DEF CheckFail, DbFault, TypeOK, groupVars, dbVars
    <2>4. CASE Insert(c)
      <3>1. pc' \in [Consumers -> Locations] /\ created' \in [Consumers -> Nat]
        BY <2>4 DEF Insert, TypeOK, Locations, Handling
      <3> QED
        BY <1>0, <2>4, <3>1 DEF Insert, TypeOK, groupVars, faultVars
    <2>5. CASE InsertConflict(c)
      BY <2>1, <2>5 DEF InsertConflict, TypeOK, groupVars, dbVars, faultVars
    <2>6. CASE InsertFail(c)
      BY <1>0, <2>1, <2>6 DEF InsertFail, DbFault, TypeOK, groupVars
    <2>7. CASE Retry(c)
      <3>1. pc' \in [Consumers -> Locations]
        BY <2>7 DEF Retry, TypeOK, Locations, Handling
      <3>2. attempt[c] < MaxRetries
        BY <2>7 DEF Retry, HandlingIsSound, Handling
      <3>3. attempt' \in [Consumers -> 0 .. IF MaxRetries = 0 THEN 1 ELSE MaxRetries]
        BY <2>7, <3>2 DEF Retry, TypeOK
      <3> QED
        BY <2>7, <3>1, <3>3 DEF Retry, TypeOK, groupVars, dbVars, faultVars
    <2>8. ASSUME LoopDies(c)
          PROVE  /\ pc' \in [Consumers -> Locations]
                 /\ msg' \in [Consumers -> (Partitions \X Nat) \cup {NoMessage}]
                 /\ attempt' \in [Consumers -> 0 .. IF MaxRetries = 0 THEN 1 ELSE MaxRetries]
      BY <2>8 DEF LoopDies, TypeOK, Locations
    <2>9. CASE DeadLetter(c) \/ DeadLetterFail(c)
      <3>1. msg[c] \in Partitions \X Nat
        <4>1. pc[c] \in Handling
          BY <2>9 DEF DeadLetter, DeadLetterFail, Handling
        <4>2. PICK p \in Partitions, o \in Nat : msg[c] = <<p, o>>
          BY <4>1 DEF HandlingIsSound
        <4> QED
          BY <4>2
      <3>2. CASE DeadLetter(c)
        <4>1. pc' \in [Consumers -> Locations]
          BY <3>2 DEF DeadLetter, TypeOK, Locations, Handling
        <4> QED
          BY <3>1, <3>2, <4>1 DEF DeadLetter, TypeOK, groupVars, dbVars, faultVars
      <3>3. CASE DeadLetterFail(c)
        BY <2>8, <3>1, <3>3
        DEF DeadLetterFail, BrokerFault, TypeOK, groupVars, dbVars
      <3> QED
        BY <2>9, <3>2, <3>3
    <2>10. ASSUME CommitPositions(c) PROVE committed' \in [Partitions -> Nat]
      BY <2>10 DEF CommitPositions, TypeOK
    <2>11. CASE Commit(c)
      <3>1. /\ pc' \in [Consumers -> Locations]
            /\ msg' \in [Consumers -> (Partitions \X Nat) \cup {NoMessage}]
            /\ attempt' \in [Consumers -> 0 .. IF MaxRetries = 0 THEN 1 ELSE MaxRetries]
        BY <2>11 DEF Commit, TypeOK, Locations
      <3> QED
        BY <2>10, <2>11, <3>1 DEF Commit, TypeOK, dbVars, faultVars
    <2>12. CASE CommitFail(c)
      BY <2>8, <2>10, <2>12 DEF CommitFail, BrokerFault, TypeOK, dbVars
    <2> QED
      BY <1>6, <2>2, <2>3, <2>4, <2>5, <2>6, <2>7, <2>9, <2>11, <2>12 DEF Handle
  <1>7. CASE UNCHANGED vars
    BY <1>7 DEF vars, TypeOK, groupVars, loopVars, dbVars, faultVars
  <1> QED
    BY <1>1, <1>2, <1>3, <1>4, <1>5, <1>6, <1>7 DEF Step, GroupStep

-----------------------------------------------------------------------------
(* The inductive step.  Only four kinds of step touch what the group's     *)
(* offsets say: a rebalance, a fetch, a commit, and the end of a replica;  *)
(* the rest of the handling moves one message closer to being settled.     *)

\* A replica that does not move keeps what its message says, and one that does
\* may rely on the messages before its own.
LEMMA OthersKeepHandling ==
    ASSUME IInv, [Step]_vars, NEW d \in Consumers, pc[d] \in Handling,
           pc'[d] = pc[d], msg'[d] = msg[d], attempt'[d] = attempt[d]
    PROVE  \E p \in Partitions : \E o \in 1 .. Len(log'[p]) :
               /\ msg'[d] = <<p, o>>
               /\ IF pc'[d] = "commit" THEN Settled(p, o)' ELSE log'[p][o] \in Keys
               /\ pc'[d] = "backoff" => attempt'[d] < MaxRetries
  <1>1. PICK p \in Partitions, o \in Nat :
               /\ o \in 1 .. Len(log[p])
               /\ msg[d] = <<p, o>>
               /\ IF pc[d] = "commit" THEN Settled(p, o) ELSE log[p][o] \in Keys
               /\ pc[d] = "backoff" => attempt[d] < MaxRetries
    BY DEF IInv, HandlingIsSound
  <1>2. TypeOK
    BY DEF IInv
  <1>3. /\ log[p] \in Seq(Keys \cup {Malformed}) /\ log'[p] \in Seq(Keys \cup {Malformed})
        /\ Len(log[p]) <= Len(log'[p])
        /\ log'[p][o] = log[p][o]
    BY <1>1, <1>2, Grows DEF TypeOK
  <1>4. o \in 1 .. Len(log'[p])
    BY <1>1, <1>3
  <1>5. Settled(p, o) => Settled(p, o)'
    BY <1>1, <1>2, SettledStays
  <1>6. IF pc'[d] = "commit" THEN Settled(p, o)' ELSE log'[p][o] \in Keys
    BY <1>1, <1>3, <1>5
  <1> QED
    BY <1>1, <1>4, <1>6

\* The messages below a handled one, and below a committed offset, stay settled.
LEMMA PrefixStays ==
    ASSUME TypeOK, [Step]_vars, NEW p \in Partitions, NEW n \in Nat, n <= Len(log[p]),
           \A o \in 1 .. n : Settled(p, o)
    PROVE  \A o \in 1 .. n : Settled(p, o)'
  <1> TAKE o \in 1 .. n
  <1>1. Len(log[p]) \in Nat
    BY DEF TypeOK
  <1>2. o \in 1 .. Len(log[p]) /\ Settled(p, o)
    BY <1>1
  <1> QED
    BY <1>2, SettledStays

\* A message that was in hand before the step has settled ones before it.
LEMMA OthersKeepOrder ==
    ASSUME IInv, [Step]_vars, NEW d \in Consumers, pc[d] \in Handling, msg'[d] = msg[d],
           NEW p \in Partitions, NEW o \in 1 .. Len(log'[p]), InHand(d, p, o)'
    PROVE  \A n \in 1 .. o - 1 : Settled(p, n)'
  <1>1. TypeOK
    BY DEF IInv
  <1>2. Len(log[p]) \in Nat
    BY <1>1 DEF TypeOK
  <1>3. msg[d] = <<p, o>>
    BY DEF InHand
  <1>4. o \in 1 .. Len(log[p])
    BY <1>3 DEF IInv, HandlingIsSound
  <1>5. \A n \in 1 .. o - 1 : Settled(p, n)
    BY <1>3, <1>4 DEF IInv, HandledInOrder, InHand
  <1>6. o - 1 \in Nat /\ o - 1 <= Len(log[p])
    BY <1>2, <1>4
  <1> QED
    BY <1>1, <1>5, <1>6, PrefixStays

\* Positions stay accounted for, as long as their owner keeps its message in hand.
LEMMA PositionsStay ==
    ASSUME IInv, [Step]_vars, NEW p \in Partitions, NEW c \in Consumers,
           owner[p] = c, owner'[p] = c, position'[p] = position[p],
           committed'[p] \in {committed[p], position[p]},
           \A o \in 1 .. position[p] :
              InHand(c, p, o) => Settled(p, o) \/ InHand(c, p, o)' \/ pc'[c] = "dead",
           pc[c] = "dead" => pc'[c] = "dead"
    PROVE  /\ committed'[p] <= position'[p] /\ position'[p] <= Len(log'[p])
           /\ \A o \in 1 .. position'[p] :
                 Settled(p, o)' \/ InHand(c, p, o)' \/ pc'[c] = "dead"
  <1>1. /\ TypeOK
        /\ committed[p] <= position[p] /\ position[p] <= Len(log[p])
        /\ \A o \in 1 .. position[p] :
              Settled(p, o) \/ InHand(c, p, o) \/ pc[c] = "dead"
    BY GroupAssumption DEF IInv, PositionsAccountedFor
  <1>2. position[p] \in Nat /\ Len(log[p]) \in Nat /\ committed[p] \in Nat
    BY <1>1 DEF TypeOK
  <1>3. Len(log'[p]) \in Nat /\ Len(log[p]) <= Len(log'[p])
    BY <1>1, Grows
  <1>4. ASSUME NEW o \in 1 .. position[p]
        PROVE  Settled(p, o)' \/ InHand(c, p, o)' \/ pc'[c] = "dead"
    <2>1. o \in 1 .. Len(log[p])
      BY <1>1, <1>2
    <2>2. Settled(p, o) => Settled(p, o)'
      BY <1>1, <2>1, SettledStays
    <2> QED
      BY <1>1, <2>2
  <1> QED
    BY <1>1, <1>2, <1>3, <1>4

\* A step moves a loop by a fetch, by its handling, or out of handling.
LEMMA Moves ==
    ASSUME TypeOK, [Step]_vars, NEW d \in Consumers
    PROVE  \/ pc'[d] = pc[d] /\ msg'[d] = msg[d] /\ attempt'[d] = attempt[d]
           \/ \E p \in Partitions : Fetch(d, p)
           \/ Handle(d)
           \/ pc[d] \notin Handling /\ pc'[d] \notin Handling /\ pc[d] # "dead"
           \/ Halt(d)
  <1>0. DOMAIN pc = Consumers /\ DOMAIN msg = Consumers /\ DOMAIN attempt = Consumers
    BY DEF TypeOK
  <1>1. ASSUME NEW c \in Consumers, c # d,
               \/ Start(c) \/ StartFail(c) \/ Halt(c) \/ FetchFail(c) \/ Handle(c)
               \/ \E p \in Partitions : Fetch(c, p)
        PROVE  pc'[d] = pc[d] /\ msg'[d] = msg[d] /\ attempt'[d] = attempt[d]
    <2>1. CASE Start(c) \/ StartFail(c) \/ Halt(c) \/ FetchFail(c)
               \/ \E p \in Partitions : Fetch(c, p)
      BY <1>0, <1>1, <2>1 DEF Start, StartFail, Halt, FetchFail, Fetch, loopVars
    <2>2. CASE Check(c) \/ CheckFail(c) \/ Insert(c) \/ InsertConflict(c)
               \/ InsertFail(c) \/ Retry(c)
      BY <1>0, <1>1, <2>2 DEF Check, CheckFail, Insert, InsertConflict, InsertFail, Retry,
                              HandlerFailed
    <2>3. CASE DeadLetter(c) \/ DeadLetterFail(c) \/ Commit(c) \/ CommitFail(c)
      BY <1>0, <1>1, <2>3 DEF DeadLetter, DeadLetterFail, Commit, CommitFail, LoopDies
    <2> QED
      BY <1>1, <2>1, <2>2, <2>3 DEF Handle
  <1>2. CASE Start(d) \/ StartFail(d)
    BY <1>0, <1>2 DEF Start, StartFail, Handling
  <1>3. CASE FetchFail(d) \/ Rebalance \/ UNCHANGED vars
             \/ \E p \in Partitions, m \in Keys \cup {Malformed} : Arrive(p, m)
    BY <1>3 DEF FetchFail, Rebalance, Arrive, vars, loopVars
  <1> QED
    BY <1>1, <1>2, <1>3 DEF Step, GroupStep

\* A step keeps every message in hand sound.
LEMMA HandlingStep ==
    ASSUME MaxRetries >= 1, IInv, [Step]_vars
    PROVE  HandlingIsSound'
  <1> USE NumbersAssumption
  <1> SUFFICES ASSUME NEW d \in Consumers, pc'[d] \in Handling
               PROVE  \E p \in Partitions : \E o \in 1 .. Len(log'[p]) :
                         /\ msg'[d] = <<p, o>>
                         /\ IF pc'[d] = "commit" THEN Settled(p, o)' ELSE log'[p][o] \in Keys
                         /\ pc'[d] = "backoff" => attempt'[d] < MaxRetries
    BY DEF HandlingIsSound
  <1>0. TypeOK
    BY DEF IInv
  <1>1. CASE pc'[d] = pc[d] /\ msg'[d] = msg[d] /\ attempt'[d] = attempt[d]
    BY <1>1, OthersKeepHandling
  <1>2. ASSUME NEW p \in Partitions, Fetch(d, p)
        PROVE  \E o \in 1 .. Len(log'[p]) :
                   /\ msg'[d] = <<p, o>>
                   /\ IF pc'[d] = "commit" THEN Settled(p, o)' ELSE log'[p][o] \in Keys
                   /\ pc'[d] = "backoff" => attempt'[d] < MaxRetries
    <2>0. PICK o \in Nat : o = position[p] + 1
      BY <1>0 DEF TypeOK
    <2>1. /\ log' = log /\ o \in 1 .. Len(log[p]) /\ msg'[d] = <<p, o>>
          /\ log[p][o] \in Keys \cup {Malformed}
      BY <1>0, <1>2, <2>0 DEF Fetch, TypeOK
    <2>2. pc'[d] = IF log[p][o] = Malformed THEN "commit" ELSE "check"
      BY <1>0, <1>2, <2>0 DEF Fetch, TypeOK
    <2>3. log[p][o] = Malformed => Settled(p, o)'
      BY <2>1 DEF Settled
    <2> QED
      BY <2>1, <2>2, <2>3
  <1>3. CASE Handle(d)
    <2>1. pc[d] \in Handling
      BY <1>3 DEF Handle, Check, CheckFail, Insert, InsertConflict, InsertFail, Retry,
                  DeadLetter, DeadLetterFail, Commit, CommitFail, Handling
    <2>2. PICK p \in Partitions, o \in Nat :
             /\ o \in 1 .. Len(log[p]) /\ msg[d] = <<p, o>>
             /\ IF pc[d] = "commit" THEN Settled(p, o) ELSE log[p][o] \in Keys
      <3>1. HandlingIsSound
        BY DEF IInv
      <3>2. PICK p \in Partitions : \E o \in 1 .. Len(log[p]) :
               /\ msg[d] = <<p, o>>
               /\ IF pc[d] = "commit" THEN Settled(p, o) ELSE log[p][o] \in Keys
        BY <2>1, <3>1 DEF HandlingIsSound
      <3> QED
        BY <3>2
    <2>3. log' = log /\ Payload(msg[d]) = log[p][o]
      <3>1. log' = log
        BY <1>3 DEF Handle, Check, CheckFail, Insert, InsertConflict, InsertFail, Retry,
                    DeadLetter, DeadLetterFail, Commit, CommitFail
      <3>2. msg[d][1] = p /\ msg[d][2] = o
        BY <2>2
      <3> QED
        BY <3>1, <3>2 DEF Payload
    <2>4. CASE Check(d)
      <3>1. pc[d] = "check" /\ msg' = msg /\ notified' = notified
            /\ pc'[d] = IF notified[log[p][o]] > 0 THEN "commit" ELSE "insert"
        BY <1>0, <2>3, <2>4 DEF Check, TypeOK, dbVars
      <3>2. notified[log[p][o]] > 0 => Settled(p, o)'
        BY <2>2, <2>3, <3>1 DEF Settled, Notified
      <3> QED
        BY <2>2, <2>3, <3>1, <3>2
    <2>5. CASE CheckFail(d) \/ InsertConflict(d) \/ InsertFail(d)
      <3>1. pc[d] # "commit" /\ msg' = msg /\ attempt' = attempt
            /\ pc'[d] = IF attempt[d] < MaxRetries THEN "backoff" ELSE "dlq"
        BY <1>0, <2>5 DEF CheckFail, InsertConflict, InsertFail, HandlerFailed, TypeOK
      <3> QED
        BY <2>2, <2>3, <3>1
    <2>6. CASE Insert(d)
      <3>1. pc[d] # "commit" /\ msg' = msg /\ pc'[d] = "commit" /\ log[p][o] \in Keys
        BY <1>0, <2>2, <2>6 DEF Insert, TypeOK
      <3>2. notified'[log[p][o]] = 1
        BY <1>0, <2>3, <2>6, <3>1 DEF Insert, AddRow, TypeOK
      <3>3. Settled(p, o)'
        BY <2>3, <3>1, <3>2 DEF Settled, Notified
      <3> QED
        BY <2>2, <2>3, <3>1, <3>3
    <2>7. CASE Retry(d)
      <3>1. pc[d] # "commit" /\ msg' = msg /\ pc'[d] = "check"
        BY <1>0, <2>7 DEF Retry, TypeOK
      <3> QED
        BY <2>2, <2>3, <3>1
    <2>8. CASE DeadLetter(d)
      <3>1. msg' = msg /\ pc'[d] = "commit" /\ <<p, o>> \in dlq'
        BY <1>0, <2>2, <2>8 DEF DeadLetter, TypeOK
      <3>2. Settled(p, o)'
        BY <3>1 DEF Settled, DeadLettered
      <3> QED
        BY <2>2, <2>3, <3>1, <3>2
    <2>9. CASE DeadLetterFail(d) \/ Commit(d) \/ CommitFail(d)
      <3>1. pc'[d] \in {"dead", "poll"}
        BY <1>0, <2>9 DEF DeadLetterFail, Commit, CommitFail, LoopDies, TypeOK
      <3> QED
        BY <3>1 DEF Handling
    <2> QED
      BY <1>3, <2>4, <2>5, <2>6, <2>7, <2>8, <2>9 DEF Handle
  <1>4. CASE Halt(d)
    BY <1>0, <1>4 DEF Halt, TypeOK, Handling
  <1> QED
    BY <1>0, <1>1, <1>2, <1>3, <1>4, Moves

\* A message that a step puts in hand, or finds there.
LEMMA InHandBefore ==
    ASSUME IInv, [Step]_vars, NEW d \in Consumers, pc'[d] \in Handling
    PROVE  \/ pc[d] \in Handling /\ msg'[d] = msg[d]
           \/ \E p \in Partitions : Fetch(d, p)
  <1>0. TypeOK
    BY DEF IInv
  <1>1. CASE Handle(d)
    <2>1. pc[d] \in Handling
      BY <1>1 DEF Handle, Check, CheckFail, Insert, InsertConflict, InsertFail, Retry,
                  DeadLetter, DeadLetterFail, Commit, CommitFail, Handling
    <2>2. CASE Commit(d) \/ CommitFail(d) \/ DeadLetterFail(d)
      BY <1>0, <2>2 DEF Commit, CommitFail, DeadLetterFail, LoopDies, TypeOK, Handling
    <2>3. CASE ~(Commit(d) \/ CommitFail(d) \/ DeadLetterFail(d))
      BY <1>1, <2>1, <2>3 DEF Handle, Check, CheckFail, Insert, InsertConflict, InsertFail,
                              Retry, DeadLetter
    <2> QED
      BY <2>2, <2>3
  <1>2. CASE Halt(d)
    BY <1>0, <1>2 DEF Halt, TypeOK, Handling
  <1> QED
    BY <1>0, <1>1, <1>2, Moves

\* A step keeps the order of handling.
LEMMA OrderStep ==
    ASSUME IInv, [Step]_vars
    PROVE  HandledInOrder'
  <1> SUFFICES ASSUME NEW d \in Consumers, NEW p \in Partitions,
                      NEW o \in 1 .. Len(log'[p]), InHand(d, p, o)'
               PROVE  \A n \in 1 .. o - 1 : Settled(p, n)'
    BY DEF HandledInOrder
  <1>0. TypeOK /\ pc'[d] \in Handling /\ msg'[d] = <<p, o>>
    BY DEF IInv, InHand
  <1>1. CASE pc[d] \in Handling /\ msg'[d] = msg[d]
    BY <1>1, OthersKeepOrder
  <1>2. ASSUME NEW q \in Partitions, Fetch(d, q)
        PROVE  \A n \in 1 .. o - 1 : Settled(p, n)'
    <2>1. /\ owner[q] = d /\ pc[d] = "poll" /\ msg'[d] = <<q, position[q] + 1>>
          /\ position[q] \in Nat /\ position[q] <= Len(log[q]) /\ Len(log[q]) \in Nat
      BY <1>0, <1>2 DEF Fetch, TypeOK
    <2>2. q = p /\ o = position[p] + 1
      BY <1>0, <2>1
    <2>3. ASSUME NEW n \in 1 .. position[p] PROVE Settled(p, n)
      <3>1. Settled(p, n) \/ InHand(d, p, n) \/ pc[d] = "dead"
        BY <2>1, <2>2, GroupAssumption DEF IInv, PositionsAccountedFor
      <3> QED
        BY <2>1, <3>1 DEF InHand, Handling
    <2>4. \A n \in 1 .. position[p] : Settled(p, n)'
      <3>1. PICK m \in Nat : m = position[p]
        BY <2>1, <2>2
      <3> QED
        BY <1>0, <2>1, <2>2, <2>3, <3>1, PrefixStays
    <2>5. 1 .. o - 1 = 1 .. position[p]
      BY <2>1, <2>2
    <2> QED
      BY <2>4, <2>5
  <1> QED
    BY <1>0, <1>1, <1>2, InHandBefore

\* At its commit a replica has settled all it would commit.
LEMMA CommitSettles ==
    ASSUME IInv, NEW c \in Consumers, pc[c] = "commit", NEW p \in Partitions, owner[p] = c
    PROVE  /\ position[p] \in Nat /\ position[p] <= Len(log[p])
           /\ \A o \in 1 .. position[p] : Settled(p, o)
  <1>0. TypeOK /\ position[p] \in Nat /\ position[p] <= Len(log[p])
    BY GroupAssumption DEF IInv, TypeOK, PositionsAccountedFor
  <1>1. ASSUME NEW o \in 1 .. position[p] PROVE Settled(p, o)
    <2>1. Settled(p, o) \/ InHand(c, p, o)
      BY GroupAssumption DEF IInv, PositionsAccountedFor
    <2>2. PICK q \in Partitions : \E n \in 1 .. Len(log[q]) :
              msg[c] = <<q, n>> /\ Settled(q, n)
      BY DEF IInv, HandlingIsSound, Handling
    <2> QED
      BY <2>1, <2>2 DEF InHand
  <1> QED
    BY <1>0, <1>1

\* A replica that goes on keeps its message in hand until it is settled.
LEMMA OwnerKeeps ==
    ASSUME IInv, [Step]_vars, NEW d \in Consumers, ~Halt(d)
    PROVE  /\ \A p \in Partitions : \A o \in Nat :
                 InHand(d, p, o) => Settled(p, o) \/ InHand(d, p, o)' \/ pc'[d] = "dead"
           /\ pc[d] = "dead" => pc'[d] = "dead"
  <1>0. TypeOK
    BY DEF IInv
  <1>1. CASE pc'[d] = pc[d] /\ msg'[d] = msg[d] /\ attempt'[d] = attempt[d]
    BY <1>1 DEF InHand
  <1>2. CASE \E p \in Partitions : Fetch(d, p)
    BY <1>2 DEF Fetch, InHand, Handling
  <1>3. CASE pc[d] \notin Handling /\ pc'[d] \notin Handling /\ pc[d] # "dead"
    BY <1>3 DEF InHand
  <1>4. CASE Handle(d)
    <2>1. pc[d] \in Handling /\ pc[d] # "dead"
      BY <1>4 DEF Handle, Check, CheckFail, Insert, InsertConflict, InsertFail, Retry,
                  DeadLetter, DeadLetterFail, Commit, CommitFail, Handling
    <2>2. CASE CommitFail(d) \/ DeadLetterFail(d)
      BY <1>0, <2>1, <2>2 DEF CommitFail, DeadLetterFail, LoopDies, TypeOK
    <2>3. CASE Commit(d)
      <3>1. PICK q \in Partitions : \E n \in 1 .. Len(log[q]) :
                msg[d] = <<q, n>> /\ Settled(q, n)
        BY <2>3 DEF Commit, IInv, HandlingIsSound, Handling
      <3> QED
        BY <2>1, <3>1 DEF InHand
    <2>4. CASE Check(d) \/ Insert(d) \/ Retry(d) \/ DeadLetter(d)
      <3>1. pc'[d] \in Handling /\ msg' = msg
        BY <1>0, <2>4 DEF Check, Insert, Retry, DeadLetter, TypeOK, Handling
      <3> QED
        BY <2>1, <3>1 DEF InHand
    <2>5. CASE CheckFail(d) \/ InsertConflict(d) \/ InsertFail(d)
      <3>1. pc'[d] \in Handling /\ msg' = msg
        BY <1>0, <2>5
        DEF CheckFail, InsertConflict, InsertFail, HandlerFailed, TypeOK, Handling
      <3> QED
        BY <2>1, <3>1 DEF InHand
    <2> QED
      BY <1>4, <2>2, <2>3, <2>4, <2>5 DEF Handle
  <1> QED
    BY <1>0, <1>1, <1>2, <1>3, <1>4, Moves

\* Who changes the offsets of the group.
LEMMA OffsetsMove ==
    ASSUME TypeOK, [Step]_vars, NEW p \in Partitions
    PROVE  \/ Rebalance
           \/ \E c \in Consumers : Fetch(c, p)
           \/ /\ \/ owner'[p] = NoConsumer
                 \/ owner'[p] = owner[p] /\ \A c \in Consumers : owner[p] = c => ~Halt(c)
              /\ position'[p] = position[p]
              /\ \/ committed'[p] = committed[p]
                 \/ /\ committed'[p] = position[p]
                    /\ \E c \in Consumers : owner[p] = c /\ pc[c] = "commit"
  <1>0. DOMAIN owner = Partitions /\ DOMAIN position = Partitions /\ DOMAIN committed = Partitions
    BY DEF TypeOK
  <1>1. ASSUME NEW c \in Consumers, Halt(c)
        PROVE  /\ owner'[p] = IF owner[p] = c THEN NoConsumer ELSE owner[p]
               /\ pc'[c] = "down" /\ pc[c] # "down"
               /\ \A d \in Consumers : d # c => pc'[d] = pc[d]
               /\ position' = position /\ committed' = committed
    BY <1>0, <1>1 DEF Halt, TypeOK
  <1>2. CASE \E c \in Consumers : Halt(c)
    <2>1. PICK c \in Consumers : Halt(c)
      BY <1>2
    <2>2. ASSUME NEW d \in Consumers, Halt(d) PROVE d = c
      BY <1>1, <2>1, <2>2
    <2> QED
      BY <1>1, <2>1, <2>2
  <1>3. ASSUME NEW c \in Consumers, Handle(c)
        PROVE  /\ owner' = owner /\ position' = position
               /\ \/ committed'[p] = committed[p]
                  \/ /\ committed'[p] = position[p]
                     /\ owner[p] = c /\ pc[c] = "commit"
    <2>1. CASE Commit(c) \/ CommitFail(c)
      BY <1>0, <2>1 DEF Commit, CommitFail, CommitPositions
    <2>2. CASE ~(Commit(c) \/ CommitFail(c))
      BY <1>3, <2>2 DEF Handle, Check, CheckFail, Insert, InsertConflict, InsertFail, Retry,
                        DeadLetter, DeadLetterFail, groupVars
    <2> QED
      BY <2>1, <2>2
  <1>4. ASSUME NEW c \in Consumers, NEW q \in Partitions, q # p, Fetch(c, q)
        PROVE  owner' = owner /\ position'[p] = position[p] /\ committed' = committed
    BY <1>0, <1>4 DEF Fetch
  <1>5. ASSUME \/ \E c \in Consumers : Start(c) \/ StartFail(c) \/ FetchFail(c)
               \/ \E q \in Partitions, m \in Keys \cup {Malformed} : Arrive(q, m)
               \/ UNCHANGED vars
        PROVE  owner' = owner /\ position' = position /\ committed' = committed
    BY <1>5 DEF Start, StartFail, FetchFail, Arrive, vars, groupVars
  <1> QED
    BY <1>2, <1>3, <1>4, <1>5 DEF Step, GroupStep

\* A step commits settled offsets only.
LEMMA CommittedStep ==
    ASSUME IInv, [Step]_vars
    PROVE  CommittedIsSettled' /\ \A p \in Partitions : committed'[p] <= Len(log'[p])
  <1> SUFFICES ASSUME NEW p \in Partitions
               PROVE  /\ \A o \in 1 .. committed'[p] : Settled(p, o)'
                      /\ committed'[p] <= Len(log'[p])
    BY DEF CommittedIsSettled
  <1>0. TypeOK /\ committed[p] \in Nat /\ committed[p] <= Len(log[p])
        /\ \A o \in 1 .. committed[p] : Settled(p, o)
    BY DEF IInv, TypeOK, PositionsAccountedFor, CommittedIsSettled
  <1>1. Len(log[p]) \in Nat /\ Len(log'[p]) \in Nat /\ Len(log[p]) <= Len(log'[p])
    <2>1. log[p] \in Seq(Keys \cup {Malformed}) /\ log'[p] \in Seq(Keys \cup {Malformed})
      BY <1>0, Grows DEF TypeOK
    <2>2. Len(log[p]) <= Len(log'[p])
      BY <1>0, Grows
    <2> QED
      BY <2>1, <2>2
  <1>2. PICK n \in Nat : n = committed'[p] /\ n <= Len(log[p]) /\ \A o \in 1 .. n : Settled(p, o)
    <2>1. CASE committed'[p] = committed[p]
      BY <1>0, <2>1
    <2>2. CASE committed'[p] = position[p] /\ \E c \in Consumers : owner[p] = c /\ pc[c] = "commit"
      BY <2>2, CommitSettles
    <2>3. CASE Rebalance \/ \E c \in Consumers : Fetch(c, p)
      BY <1>0, <2>3 DEF Rebalance, Fetch
    <2> QED
      BY <1>0, <2>1, <2>2, <2>3, OffsetsMove
  <1>3. \A o \in 1 .. n : Settled(p, o)'
    BY <1>0, <1>2, PrefixStays
  <1> QED
    BY <1>1, <1>2, <1>3

\* A step accounts for every position it moves.
LEMMA PositionsStep ==
    ASSUME IInv, [Step]_vars
    PROVE  PositionsAccountedFor'
  <1> SUFFICES ASSUME NEW p \in Partitions, NEW d \in Consumers, owner'[p] = d
               PROVE  /\ committed'[p] <= position'[p] /\ position'[p] <= Len(log'[p])
                      /\ \A o \in 1 .. position'[p] :
                            Settled(p, o)' \/ InHand(d, p, o)' \/ pc'[d] = "dead"
    <2>1. TypeOK'
      BY TypeStep DEF IInv
    <2>2. \A q \in Partitions : owner'[q] # NoConsumer => owner'[q] \in Consumers
      BY <2>1 DEF TypeOK
    <2> QED
      BY <2>2, CommittedStep DEF PositionsAccountedFor, InHand
  <1>0. TypeOK /\ committed[p] \in Nat /\ position[p] \in Nat /\ d # NoConsumer
    BY GroupAssumption DEF IInv, TypeOK
  <1>1. CASE Rebalance
    <2>1. position' = committed' /\ committed' = committed
      BY <1>1 DEF Rebalance, ResumeFrom
    <2> QED
      BY <1>0, <2>1, CommittedStep DEF CommittedIsSettled
  <1>2. ASSUME NEW c \in Consumers, Fetch(c, p)
        PROVE  /\ committed'[p] <= position'[p] /\ position'[p] <= Len(log'[p])
               /\ \A o \in 1 .. position'[p] :
                     Settled(p, o)' \/ InHand(d, p, o)' \/ pc'[d] = "dead"
    <2>1. /\ owner[p] = c /\ c = d /\ pc[c] = "poll" /\ log' = log /\ committed' = committed
          /\ position'[p] = position[p] + 1 /\ position[p] < Len(log[p])
          /\ msg'[c] = <<p, position[p] + 1>> /\ pc'[c] \in Handling
      BY <1>0, <1>2 DEF Fetch, TypeOK, Handling
    <2>2. Len(log[p]) \in Nat /\ committed[p] <= position[p]
      BY <1>0, <2>1 DEF IInv, TypeOK, PositionsAccountedFor
    <2>3. ASSUME NEW o \in 1 .. position[p] PROVE Settled(p, o)'
      <3>1. Settled(p, o) \/ InHand(d, p, o) \/ pc[d] = "dead"
        BY <1>0, <2>1 DEF IInv, PositionsAccountedFor
      <3>2. Settled(p, o)
        BY <2>1, <3>1 DEF InHand, Handling
      <3>3. o \in 1 .. Len(log[p])
        BY <1>0, <2>1, <2>2
      <3> QED
        BY <1>0, <3>2, <3>3, SettledStays
    <2>4. ASSUME NEW o \in Nat, o = position[p] + 1 PROVE InHand(d, p, o)'
      BY <2>1, <2>4 DEF InHand
    <2>5. \A o \in 1 .. position[p] + 1 : o \in 1 .. position[p] \/ o = position[p] + 1
      BY <1>0
    <2> QED
      BY <1>0, <2>1, <2>2, <2>3, <2>4, <2>5
  <1>3. CASE /\ owner[p] = d /\ ~Halt(d)
             /\ position'[p] = position[p]
             /\ committed'[p] \in {committed[p], position[p]}
    BY <1>0, <1>3, OwnerKeeps, PositionsStay
  <1> QED
    BY <1>0, <1>1, <1>2, <1>3, OffsetsMove

-----------------------------------------------------------------------------
(* Theorems.                                                               *)

\* The invariant is inductive, with or without room for more messages.
LEMMA StepKeepsIInv ==
    ASSUME MaxRetries >= 1
    PROVE  IInv /\ [Step]_vars => IInv'
  BY TypeStep, PositionsStep, HandlingStep, OrderStep, CommittedStep DEF IInv

LEMMA NextIsStep == [Next]_vars => [Step]_vars
  BY DEF Next, Step

\* The strengthened invariant holds in every state.
THEOREM Inductive ==
    ASSUME MaxRetries >= 1
    PROVE  Spec => []IInv
  <1> QED
    BY IInvInit, StepKeepsIInv, NextIsStep, PTL DEF Spec

\* The variables of the consumer keep their types; in particular no message is
\* given to the handler more than MaxRetries times.
THEOREM TypeCorrect ==
    ASSUME MaxRetries >= 1
    PROVE  Spec => []TypeOK
  <1>1. IInv => TypeOK
    BY DEF IInv
  <1> QED
    BY <1>1, Inductive, PTL

\* A committed offset is settled, for any number of replicas, partitions,
\* messages, failures, rebalances and restarts.
THEOREM NothingLost ==
    ASSUME MaxRetries >= 1
    PROVE  Spec => []CommittedIsSettled
  <1>1. IInv => CommittedIsSettled
    BY DEF IInv
  <1> QED
    BY <1>1, Inductive, PTL

\* A message is handled when those before it are settled.
THEOREM InOrder ==
    ASSUME MaxRetries >= 1
    PROVE  Spec => []HandledInOrder
  <1>1. IInv => HandledInOrder
    BY DEF IInv
  <1> QED
    BY <1>1, Inductive, PTL

\* Between fetch and commit no message is forgotten.
THEOREM NothingForgotten ==
    ASSUME MaxRetries >= 1
    PROVE  Spec => [](PositionsAccountedFor /\ HandlingIsSound)
  <1>1. IInv => PositionsAccountedFor /\ HandlingIsSound
    BY DEF IInv
  <1> QED
    BY <1>1, Inductive, PTL

\* What a replica has in hand is a message of a key, which has been settled by the
\* time of the commit.
THEOREM HandledSoundly ==
    ASSUME MaxRetries >= 1
    PROVE  Spec => []HandlingIsSound
  <1>1. IInv => HandlingIsSound
    BY DEF IInv
  <1> QED
    BY <1>1, Inductive, PTL

\* A key has one notification at most, however many replicas race for it.
THEOREM OneNotification ==
    ASSUME MaxRetries >= 1
    PROVE  Spec => []OneNotificationPerKey
  <1>1. Init => OneNotificationPerKey
    BY DEF Init, OneNotificationPerKey
  <1>2. IInv /\ OneNotificationPerKey /\ [Step]_vars => OneNotificationPerKey'
    <2> SUFFICES ASSUME IInv, OneNotificationPerKey, [Step]_vars, NEW k \in Keys
                 PROVE  notified'[k] <= 1
      BY DEF OneNotificationPerKey
    <2>1. notified \in [Keys -> Nat]
      BY DEF IInv, TypeOK
    <2>2. notified' = notified \/ \E c \in Consumers : AddRow(Payload(msg[c]))
      BY DEF Step, GroupStep, Arrive, Rebalance, Start, StartFail, Halt, Fetch, FetchFail, Handle,
             Check, CheckFail, Insert, InsertConflict, InsertFail, Retry, DeadLetter,
             DeadLetterFail, Commit, CommitFail, vars, dbVars
    <2> QED
      BY <2>1, <2>2 DEF AddRow, OneNotificationPerKey
  <1> QED
    BY <1>1, <1>2, Inductive, NextIsStep, PTL DEF Spec

\* A commit never takes the offset of a partition back.
THEOREM NoRewind ==
    ASSUME MaxRetries >= 1
    PROVE  Spec => CommitNeverRewinds
  <1>1. IInv /\ [Step]_vars => [\A p \in Partitions : committed'[p] >= committed[p]]_vars
    <2> SUFFICES ASSUME IInv, [Step]_vars, NEW p \in Partitions
                 PROVE  committed'[p] >= committed[p]
      OBVIOUS
    <2>0. TypeOK /\ committed[p] \in Nat /\ position[p] \in Nat
      BY DEF IInv, TypeOK
    <2>1. CASE committed'[p] = committed[p]
      BY <2>0, <2>1
    <2>2. CASE committed'[p] = position[p] /\ \E c \in Consumers : owner[p] = c /\ pc[c] = "commit"
      BY <2>0, <2>2, GroupAssumption DEF IInv, PositionsAccountedFor
    <2>3. CASE Rebalance \/ \E c \in Consumers : Fetch(c, p)
      BY <2>0, <2>3 DEF Rebalance, Fetch
    <2> QED
      BY <2>0, <2>1, <2>2, <2>3, OffsetsMove
  <1> QED
    BY <1>1, Inductive, NextIsStep, PTL DEF Spec, CommitNeverRewinds

-----------------------------------------------------------------------------
(* The notifications implement the ledger.                                 *)

\* A step of the consumer is a step of the ledger, or leaves it alone.
LEMMA LedgerStep ==
    ASSUME IInv, [Step]_vars
    PROVE  [Ledger!Next]_(Ledger!ledger)
  <1>0. TypeOK
    BY DEF IInv
  <1>1. ASSUME log' = log, notified' = notified PROVE UNCHANGED Ledger!ledger
    BY <1>1 DEF Ledger!ledger, Requested
  <1>2. CASE \E p \in Partitions, m \in Keys \cup {Malformed} : Arrive(p, m)
    <2>1. PICK p \in Partitions, m \in Keys \cup {Malformed} : Arrive(p, m)
      BY <1>2
    <2>2. log[p] \in Seq(Keys \cup {Malformed}) /\ DOMAIN log = Partitions
      BY <1>0 DEF TypeOK
    <2>3. /\ Len(Append(log[p], m)) = Len(log[p]) + 1 /\ Len(log[p]) \in Nat
          /\ \A o \in 1 .. Len(log[p]) : Append(log[p], m)[o] = log[p][o]
          /\ Append(log[p], m)[Len(log[p]) + 1] = m
      BY <2>2, AppendProperties
    <2>4. log'[p] = Append(log[p], m) /\ (\A q \in Partitions : q # p => log'[q] = log[q])
          /\ notified' = notified
      BY <2>1, <2>2 DEF Arrive, dbVars
    <2>5. \A k \in Keys :
             (\E o \in 1 .. Len(log'[p]) : log'[p][o] = k)
                 <=> (\E o \in 1 .. Len(log[p]) : log[p][o] = k) \/ k = m
      BY <2>3, <2>4
    <2>6. Requested' = Requested \cup ({m} \cap Keys)
      <3>1. ASSUME NEW k \in Keys
            PROVE  (\E q \in Partitions : \E o \in 1 .. Len(log'[q]) : log'[q][o] = k)
                     <=> (\E q \in Partitions : \E o \in 1 .. Len(log[q]) : log[q][o] = k)
                         \/ k = m
        <4>1. ASSUME NEW q \in Partitions, NEW o \in 1 .. Len(log'[q]), log'[q][o] = k
              PROVE  k = m \/ \E r \in Partitions : \E i \in 1 .. Len(log[r]) : log[r][i] = k
          <5>1. CASE q = p
            BY <2>5, <4>1, <5>1
          <5>2. CASE q # p
            BY <2>4, <4>1, <5>2
          <5> QED
            BY <5>1, <5>2
        <4>2. ASSUME NEW q \in Partitions, NEW o \in 1 .. Len(log[q]), log[q][o] = k
              PROVE  \E r \in Partitions : \E i \in 1 .. Len(log'[r]) : log'[r][i] = k
          <5>1. CASE q = p
            BY <2>5, <4>2, <5>1
          <5>2. CASE q # p
            BY <2>4, <4>2, <5>2
          <5> QED
            BY <5>1, <5>2
        <4>3. k = m => \E r \in Partitions : \E i \in 1 .. Len(log'[r]) : log'[r][i] = k
          BY <2>5
        <4> QED
          BY <4>1, <4>2, <4>3
      <3> QED
        BY <3>1 DEF Requested
    <2>7. CASE m \in Keys
      BY <2>4, <2>6, <2>7 DEF Ledger!Next, Ledger!Request
    <2>8. CASE m \notin Keys
      BY <2>4, <2>6, <2>8 DEF Ledger!ledger
    <2> QED
      BY <2>7, <2>8
  <1>3. ASSUME NEW c \in Consumers, Handle(c)
        PROVE  [Ledger!Next]_(Ledger!ledger)
    <2>1. log' = log
      BY <1>3 DEF Handle, Check, CheckFail, Insert, InsertConflict, InsertFail, Retry,
                  DeadLetter, DeadLetterFail, Commit, CommitFail
    <2>2. notified' = notified \/ (pc[c] = "insert" /\ AddRow(Payload(msg[c])))
      BY <1>3 DEF Handle, Check, CheckFail, Insert, InsertConflict, InsertFail, Retry,
                  DeadLetter, DeadLetterFail, Commit, CommitFail, dbVars
    <2>3. CASE pc[c] = "insert" /\ AddRow(Payload(msg[c]))
      <3>1. PICK p \in Partitions : \E o \in 1 .. Len(log[p]) :
                msg[c] = <<p, o>> /\ log[p][o] \in Keys
        BY <2>3 DEF IInv, HandlingIsSound, Handling
      <3>2. PICK k \in Keys : k = Payload(msg[c]) /\ k \in Requested
        BY <3>1 DEF Payload, Requested
      <3>3. notified[k] = 0 /\ notified' = [notified EXCEPT ![k] = 1]
        BY <1>0, <2>3, <3>2 DEF AddRow, TypeOK
      <3>4. Requested' = Requested
        BY <2>1 DEF Requested
      <3> QED
        BY <3>2, <3>3, <3>4 DEF Ledger!Next, Ledger!Notify
    <2> QED
      BY <1>1, <2>1, <2>2, <2>3
  <1>4. ASSUME \/ Rebalance \/ UNCHANGED vars
               \/ \E c \in Consumers :
                     \/ Start(c) \/ StartFail(c) \/ Halt(c) \/ FetchFail(c)
                     \/ \E p \in Partitions : Fetch(c, p)
        PROVE  log' = log /\ notified' = notified
    BY <1>4 DEF Rebalance, vars, Start, StartFail, Halt, FetchFail, Fetch, dbVars
  <1> QED
    BY <1>1, <1>2, <1>3, <1>4 DEF Step, GroupStep

\* The notifications implement NotificationLedger: at most one per key, only for
\* a key that was sent, and never taken back.
THEOREM LedgerImplemented ==
    ASSUME MaxRetries >= 1
    PROVE  Spec => ImplementsLedger
  <1>1. Init => Ledger!Init
    <2> SUFFICES ASSUME Init PROVE Ledger!Init
      OBVIOUS
    <2>1. \A p \in Partitions : log[p] = <<>> /\ Len(log[p]) = 0
      BY EmptySeq DEF Init
    <2> QED
      BY <2>1 DEF Init, Ledger!Init, Requested
  <1>2. IInv /\ [Step]_vars => [Ledger!Next]_(Ledger!ledger)
    BY LedgerStep
  <1> QED
    BY <1>1, <1>2, Inductive, NextIsStep, PTL DEF Spec, ImplementsLedger, Ledger!Spec

-----------------------------------------------------------------------------
(* Counting.  A number for every replica is the set of that many units per *)
(* replica, so that a sum over the replicas is the cardinality of a set.   *)

Units(f) == UNION {{c} \X (1 .. f[c]) : c \in Consumers}

\* The elements of Units.
LEMMA UnitsElements ==
    ASSUME NEW f
    PROVE  \A u : u \in Units(f) <=> \E c \in Consumers : \E n \in 1 .. f[c] : u = <<c, n>>
  BY DEF Units

\* There are finitely many units.
LEMMA UnitsFinite ==
    ASSUME NEW f \in [Consumers -> Int]
    PROVE  IsFiniteSet(Units(f)) /\ Cardinality(Units(f)) \in Nat
  <1> DEFINE part == [c \in Consumers |-> {c} \X (1 .. f[c])]
             parts == {part[c] : c \in Consumers}
  <1>1. ASSUME NEW c \in Consumers PROVE IsFiniteSet(part[c])
    <2>1. IsFiniteSet({c})
      BY FS_Singleton
    <2>2. IsFiniteSet(1 .. f[c])
      BY FS_Interval
    <2>3. IsFiniteSet({c} \X (1 .. f[c]))
      BY <2>1, <2>2, FS_Product
    <2> QED
      BY <2>3
  <1>2. IsFiniteSet(parts)
    <2>1. part \in Surjection(Consumers, parts)
      BY DEF Surjection
    <2> QED
      BY <2>1, FS_Surjection, GroupAssumption
  <1>3. IsFiniteSet(UNION parts)
    BY <1>1, <1>2, FS_UNION
  <1>4. Units(f) = UNION parts
    BY DEF Units
  <1> QED
    BY <1>3, <1>4, FS_CardinalityType

\* Fewer units for every replica are fewer units.
LEMMA UnitsLower ==
    ASSUME NEW f \in [Consumers -> Int], NEW g \in [Consumers -> Int],
           \A c \in Consumers : g[c] <= f[c] \/ g[c] <= 0
    PROVE  Cardinality(Units(g)) <= Cardinality(Units(f))
  <1>1. Units(g) \subseteq Units(f)
    <2> SUFFICES ASSUME NEW c \in Consumers, NEW n \in 1 .. g[c] PROVE <<c, n>> \in Units(f)
      BY UnitsElements
    <2>1. n \in 1 .. f[c]
      OBVIOUS
    <2> QED
      BY <2>1, UnitsElements
  <1> QED
    BY <1>1, UnitsFinite, FS_Subset

\* One unit more for one replica is at most one unit more.
LEMMA UnitsRaise ==
    ASSUME NEW f \in [Consumers -> Int], NEW g \in [Consumers -> Int], NEW c \in Consumers,
           g[c] <= f[c] + 1,
           \A d \in Consumers : d # c => g[d] <= f[d] \/ g[d] <= 0
    PROVE  Cardinality(Units(g)) <= Cardinality(Units(f)) + 1
  <1> DEFINE more == Units(f) \cup {<<c, g[c]>>}
  <1>1. Units(g) \subseteq more
    <2> SUFFICES ASSUME NEW d \in Consumers, NEW n \in 1 .. g[d] PROVE <<d, n>> \in more
      BY UnitsElements
    <2>1. n \in 1 .. f[d] \/ (d = c /\ n = g[c])
      OBVIOUS
    <2> QED
      BY <2>1, UnitsElements
  <1>2. IsFiniteSet(more) /\ Cardinality(more) <= Cardinality(Units(f)) + 1
    <2>1. PICK n \in Nat : n = Cardinality(Units(f))
      BY UnitsFinite
    <2>2. IsFiniteSet(more) /\ Cardinality(more) \in {n, n + 1}
      BY <2>1, UnitsFinite, FS_AddElement
    <2> QED
      BY <2>1, <2>2
  <1>3. Cardinality(Units(g)) <= Cardinality(more)
    BY <1>1, <1>2, FS_Subset
  <1> QED
    BY <1>2, <1>3, UnitsFinite, FS_CardinalityType

\* A replica that loses its units takes all of them away.
LEMMA UnitsDrop ==
    ASSUME NEW f \in [Consumers -> Int], NEW g \in [Consumers -> Int], NEW c \in Consumers,
           g[c] <= 0, f[c] \in Nat,
           \A d \in Consumers : d # c => g[d] <= f[d] \/ g[d] <= 0
    PROVE  Cardinality(Units(g)) + f[c] <= Cardinality(Units(f))
  <1> DEFINE own == {c} \X (1 .. f[c])
  <1>1. IsFiniteSet(own) /\ Cardinality(own) = f[c]
    <2>1. IsFiniteSet({c}) /\ Cardinality({c}) = 1
      BY FS_Singleton
    <2>2. IsFiniteSet(1 .. f[c]) /\ Cardinality(1 .. f[c]) = f[c]
      BY FS_Interval
    <2> QED
      BY <2>1, <2>2, FS_Product
  <1>2. own \cap Units(f) = own /\ Units(f) \cap own = own
    BY UnitsElements
  <1>3. Units(g) \subseteq Units(f) \ own
    <2> SUFFICES ASSUME NEW d \in Consumers, NEW n \in 1 .. g[d]
                 PROVE  <<d, n>> \in Units(f) \ own
      BY UnitsElements
    <2>1. d # c /\ n \in 1 .. f[d]
      OBVIOUS
    <2> QED
      BY <2>1, UnitsElements
  <1>4. /\ IsFiniteSet(Units(f) \ own)
        /\ Cardinality(Units(f) \ own) = Cardinality(Units(f)) - f[c]
    <2>1. /\ IsFiniteSet(Units(f) \ own)
          /\ Cardinality(Units(f) \ own) = Cardinality(Units(f)) - Cardinality(Units(f) \cap own)
      BY UnitsFinite, FS_Difference
    <2> HIDE DEF own
    <2> QED
      BY <1>1, <1>2, <2>1
  <1>5. Cardinality(Units(g)) <= Cardinality(Units(f) \ own)
    BY <1>3, <1>4, FS_Subset
  <1>6. PICK m \in Nat, n \in Nat : m = Cardinality(Units(f)) /\ n = Cardinality(Units(g))
    BY UnitsFinite, Zenon
  <1>7. n <= m - f[c]
    BY <1>4, <1>5, <1>6
  <1>8. n + f[c] <= m
    BY <1>7
  <1> QED
    BY <1>6, <1>8

-----------------------------------------------------------------------------
(* The counters.                                                           *)

Rows == {k \in Keys : notified[k] > 0}

\* A step counts a notification only with the row it adds.
LEMMA CountedWithRow ==
    ASSUME IInv, [Step]_vars
    PROVE  \/ \E c \in Consumers, k \in Keys :
                /\ created' = [created EXCEPT ![c] = created[c] + 1]
                /\ notified[k] = 0 /\ notified' = [notified EXCEPT ![k] = 1]
           \/ \A c \in Consumers : created'[c] <= created[c]
  <1>0. TypeOK /\ \A c \in Consumers : created[c] \in Nat
    BY DEF IInv, TypeOK
  <1>1. ASSUME NEW c \in Consumers, Insert(c)
        PROVE  \E k \in Keys :
                  /\ created' = [created EXCEPT ![c] = created[c] + 1]
                  /\ notified[k] = 0 /\ notified' = [notified EXCEPT ![k] = 1]
    <2>1. pc[c] \in Handling /\ pc[c] # "commit"
      BY <1>1 DEF Insert, Handling
    <2>2. PICK k \in Keys : k = Payload(msg[c])
      BY <2>1 DEF IInv, HandlingIsSound, Payload
    <2>3. notified[k] = 0 /\ notified' = [notified EXCEPT ![k] = 1]
      BY <1>0, <1>1, <2>2 DEF Insert, AddRow, TypeOK
    <2> QED
      BY <1>1, <2>3 DEF Insert
  <1>2. ASSUME NEW c \in Consumers, Halt(c)
        PROVE  \A d \in Consumers : created'[d] <= created[d]
    BY <1>0, <1>2 DEF Halt, TypeOK
  <1>3. ASSUME created' = created PROVE \A d \in Consumers : created'[d] <= created[d]
    BY <1>0, <1>3
  <1>4. ASSUME NEW c \in Consumers, Handle(c), ~Insert(c) PROVE created' = created
    BY <1>4 DEF Handle, Check, CheckFail, InsertConflict, InsertFail, Retry,
                DeadLetter, DeadLetterFail, Commit, CommitFail, dbVars
  <1>5. ASSUME \/ \E p \in Partitions, m \in Keys \cup {Malformed} : Arrive(p, m)
               \/ Rebalance \/ UNCHANGED vars
               \/ \E c \in Consumers :
                     \/ Start(c) \/ StartFail(c) \/ FetchFail(c)
                     \/ \E p \in Partitions : Fetch(c, p)
        PROVE  created' = created
    BY <1>5 DEF Arrive, Rebalance, vars, Start, StartFail, FetchFail, Fetch, dbVars
  <1> QED
    BY <1>1, <1>2, <1>3, <1>4, <1>5 DEF Step, GroupStep

\* The replicas' counters never claim more notifications than there are rows.
THEOREM CountersClaimRows ==
    ASSUME MaxRetries >= 1
    PROVE  Spec => []CreatedCountsRows
  <1> USE DEF CreatedCountsRows
  <1>1. Init => CreatedCountsRows
    <2> SUFFICES ASSUME Init PROVE CreatedCountsRows
      OBVIOUS
    <2>1. \A c \in Consumers : created[c] = 0
      BY DEF Init
    <2>2. Claims = {}
      BY <2>1 DEF Claims
    <2>3. {k \in Keys : notified[k] > 0} = {}
      BY DEF Init
    <2> QED
      BY <2>2, <2>3, FS_EmptySet
  <1>2. IInv /\ CreatedCountsRows /\ [Step]_vars => CreatedCountsRows'
    <2> SUFFICES ASSUME IInv, CreatedCountsRows, [Step]_vars
                 PROVE  Cardinality(Units(created')) <= Cardinality(Rows')
      BY DEF Claims, Units, Rows
    <2>1. /\ created \in [Consumers -> Int] /\ created' \in [Consumers -> Int]
          /\ notified \in [Keys -> Nat] /\ notified' \in [Keys -> Nat]
          /\ \A k \in Keys : notified'[k] >= notified[k]
      <3>1. TypeOK /\ TypeOK'
        BY TypeStep DEF IInv
      <3>2. \A k \in Keys : notified'[k] >= notified[k]
        BY <3>1, Grows
      <3> QED
        BY <3>1, <3>2 DEF TypeOK
    <2>2. Cardinality(Units(created)) <= Cardinality(Rows)
      BY DEF Claims, Units, Rows
    <2>3. /\ IsFiniteSet(Rows) /\ IsFiniteSet(Rows')
          /\ Cardinality(Rows) \in Nat /\ Cardinality(Rows') \in Nat
      BY MessagesAssumption, FS_Subset, FS_CardinalityType DEF Rows
    <2>4. CASE \A c \in Consumers : created'[c] <= created[c]
      <3>1. Rows \subseteq Rows'
        BY <2>1 DEF Rows
      <3>2. Cardinality(Rows) <= Cardinality(Rows')
        BY <2>3, <3>1, FS_Subset
      <3>3. Cardinality(Units(created')) <= Cardinality(Units(created))
        BY <2>1, <2>4, UnitsLower
      <3> QED
        BY <2>1, <2>2, <2>3, <3>2, <3>3, UnitsFinite
    <2>5. ASSUME NEW c \in Consumers, NEW k \in Keys,
                 created' = [created EXCEPT ![c] = created[c] + 1],
                 notified[k] = 0, notified' = [notified EXCEPT ![k] = 1]
          PROVE  Cardinality(Units(created')) <= Cardinality(Rows')
      <3>1. Rows' = Rows \cup {k} /\ k \notin Rows
        BY <2>1, <2>5 DEF Rows
      <3>2. Cardinality(Rows') = Cardinality(Rows) + 1
        BY <2>3, <3>1, FS_AddElement
      <3>3. created'[c] <= created[c] + 1 /\ \A d \in Consumers : d # c => created'[d] <= created[d]
        BY <2>1, <2>5
      <3>4. Cardinality(Units(created')) <= Cardinality(Units(created)) + 1
        BY <2>1, <3>3, UnitsRaise
      <3> QED
        BY <2>1, <2>2, <2>3, <3>2, <3>4, UnitsFinite
    <2> QED
      BY <2>4, <2>5, CountedWithRow
  <1> QED
    BY <1>1, <1>2, Inductive, NextIsStep, PTL DEF Spec

-----------------------------------------------------------------------------
(* What a dead letter costs.  DeadLetterNeedsFailures counts the failures  *)
(* of messages that were given up; the inductive invariant also counts     *)
(* those spent on the messages in hand.  A failed attempt is paid for by a *)
(* failure of the database, or by the row of another replica: once.        *)

Found(c) == notified[Payload(msg[c])] > 0

\* The failures replica c has spent on its message.  Once its key has a row, one
\* of its attempts may have lost the race for the row instead.
Spent(c) ==
    IF pc[c] = "insert" THEN attempt[c] - 1
    ELSE IF pc[c] \notin {"check", "backoff", "dlq"} THEN 0
    ELSE attempt[c] - (IF pc[c] = "check" THEN 1 ELSE 0) - (IF Found(c) THEN 1 ELSE 0)

\* All replicas together.
Effort == [c \in Consumers |-> Spent(c)]

\* The failures pay for the messages given up and for those in hand.
AttemptsPaid ==
    /\ IsFiniteSet(dlq)
    /\ \A c \in Consumers : pc[c] = "dlq" => attempt[c] = MaxRetries
    /\ (MaxRetries - 1) * Cardinality(dlq) + Cardinality(Units(Effort)) <= dbFaults

\* What is spent is an integer; it is below zero when an attempt won its row.
LEMMA SpentType ==
    TypeOK => Effort \in [Consumers -> Int] /\ \A c \in Consumers : Effort[c] = Spent(c)
  <1> SUFFICES ASSUME TypeOK
               PROVE  Effort \in [Consumers -> Int] /\ \A c \in Consumers : Effort[c] = Spent(c)
    OBVIOUS
  <1>1. \A c \in Consumers : attempt[c] \in Int
    BY NumbersAssumption DEF TypeOK
  <1>2. ASSUME NEW c \in Consumers PROVE Spent(c) \in Int
    <2>1. PICK n \in Int : n = attempt[c]
      BY <1>1
    <2> QED
      BY <2>1 DEF Spent
  <1> QED
    BY <1>2 DEF Effort

\* The message in a replica's hands stays what it is, and its row, if it has one.
LEMMA HandledStays ==
    ASSUME IInv, [Step]_vars, NEW c \in Consumers, pc[c] \in Handling \ {"commit"}, msg'[c] = msg[c]
    PROVE  /\ Payload(msg[c]) \in Keys
           /\ Payload(msg[c])' = Payload(msg[c])
           /\ Found(c) => Found(c)'
  <1>1. PICK p \in Partitions, o \in Nat :
            o \in 1 .. Len(log[p]) /\ msg[c] = <<p, o>> /\ log[p][o] \in Keys
    BY DEF IInv, HandlingIsSound
  <1>2. TypeOK
    BY DEF IInv
  <1>3. log'[p][o] = log[p][o]
    BY <1>1, <1>2, Grows
  <1>4. Payload(msg[c]) \in Keys /\ Payload(msg[c])' = Payload(msg[c])
    BY <1>1, <1>3 DEF Payload
  <1>5. PICK k \in Keys : k = Payload(msg[c]) /\ k = Payload(msg[c])'
    BY <1>4
  <1>6. notified[k] \in Nat /\ notified'[k] \in Nat /\ notified'[k] >= notified[k]
    BY <1>2, Grows DEF TypeOK
  <1>7. Found(c) => Found(c)'
    BY <1>5, <1>6 DEF Found
  <1> QED
    BY <1>4, <1>7

\* A replica that does not move has not spent more.
LEMMA OthersSpendNothing ==
    ASSUME IInv, [Step]_vars, NEW c \in Consumers,
           pc'[c] = pc[c], msg'[c] = msg[c], attempt'[c] = attempt[c]
    PROVE  Spent(c)' <= Spent(c)
  <1>1. PICK n \in Int : n = attempt[c]
    BY NumbersAssumption DEF IInv, TypeOK
  <1>2. CASE pc[c] \in {"check", "backoff", "dlq"}
    <2>1. Found(c) => Found(c)'
      BY <1>2, HandledStays DEF Handling
    <2> QED
      BY <1>1, <1>2, <2>1 DEF Spent
  <1>3. CASE pc[c] \notin {"check", "backoff", "dlq"}
    BY <1>1, <1>3 DEF Spent
  <1> QED
    BY <1>2, <1>3

\* A replica whose handler failed has spent one attempt more, or none if it lost
\* the attempt to the row of its key.
LEMMA FailedSpends ==
    ASSUME MaxRetries >= 1, IInv, [Step]_vars, NEW c \in Consumers, pc[c] \in {"check", "insert"},
           HandlerFailed(c), msg'[c] = msg[c], attempt'[c] = attempt[c]
    PROVE  /\ Spent(c)' <= Spent(c) + 1
           /\ pc[c] = "insert" /\ Found(c) => Spent(c)' <= Spent(c)
           /\ pc'[c] = "dlq" => attempt'[c] = MaxRetries
  <1>1. PICK n \in Int : n = attempt[c] /\ n <= MaxRetries
    BY NumbersAssumption DEF IInv, TypeOK
  <1>2. pc'[c] = IF n < MaxRetries THEN "backoff" ELSE "dlq"
    BY <1>1 DEF HandlerFailed, IInv, TypeOK
  <1>3. Found(c) => Found(c)'
    BY HandledStays DEF Handling
  <1>4. Spent(c)' = n - (IF Found(c)' THEN 1 ELSE 0)
    BY <1>1, <1>2 DEF Spent
  <1>5. Spent(c) = n - 1 - (IF pc[c] = "check" /\ Found(c) THEN 1 ELSE 0)
    BY <1>1 DEF Spent
  <1> QED
    BY <1>1, <1>2, <1>3, <1>4, <1>5, NumbersAssumption

\* Every step of a replica leaves the others where they are.
LEMMA OthersStay ==
    ASSUME TypeOK, NEW c \in Consumers,
           \/ Start(c) \/ StartFail(c) \/ Halt(c) \/ FetchFail(c) \/ Handle(c)
           \/ \E p \in Partitions : Fetch(c, p)
    PROVE  \A d \in Consumers : d # c =>
              pc'[d] = pc[d] /\ msg'[d] = msg[d] /\ attempt'[d] = attempt[d]
  <1>0. DOMAIN pc = Consumers /\ DOMAIN msg = Consumers /\ DOMAIN attempt = Consumers
    BY DEF TypeOK
  <1>1. ASSUME \/ Start(c) \/ StartFail(c) \/ Halt(c) \/ FetchFail(c)
               \/ \E p \in Partitions : Fetch(c, p)
        PROVE  \A d \in Consumers : d # c =>
                  pc'[d] = pc[d] /\ msg'[d] = msg[d] /\ attempt'[d] = attempt[d]
    BY <1>0, <1>1 DEF Start, StartFail, Halt, FetchFail, Fetch, loopVars
  <1>2. ASSUME Handle(c)
        PROVE  \A d \in Consumers : d # c =>
                  pc'[d] = pc[d] /\ msg'[d] = msg[d] /\ attempt'[d] = attempt[d]
    BY <1>0, <1>2 DEF Handle, Check, CheckFail, Insert, InsertConflict, InsertFail, Retry,
                      DeadLetter, DeadLetterFail, Commit, CommitFail, HandlerFailed, LoopDies
  <1> QED
    BY <1>1, <1>2

\* What a step spends: nothing; an attempt, for a failure of the database; or all
\* attempts of a message, for a dead letter.
Saves == \A c \in Consumers : Spent(c)' <= Spent(c) \/ Spent(c)' <= 0
Spends(c) == Spent(c)' <= Spent(c) + 1
Ends(c) == Spent(c)' <= 0 /\ Spent(c) >= MaxRetries - 1
OthersSave(c) == \A d \in Consumers : d # c => Spent(d)' <= Spent(d)

\* Every step is of one of these three kinds.
LEMMA EffortMoves ==
    ASSUME MaxRetries >= 1, IInv, AttemptsPaid, [Step]_vars
    PROVE  /\ \A c \in Consumers : pc'[c] = "dlq" => attempt'[c] = MaxRetries
           /\ \/ dlq' = dlq /\ dbFaults' = dbFaults /\ Saves
              \/ \E c \in Consumers :
                    /\ OthersSave(c)
                    /\ \/ dlq' = dlq /\ dbFaults' = dbFaults + 1 /\ Spends(c)
                       \/ dlq' \in {dlq, dlq \cup {msg[c]}} /\ dbFaults' = dbFaults /\ Ends(c)
  <1> DEFINE GivenUp(c) == pc'[c] = "dlq" => attempt'[c] = MaxRetries
             Quiet == dlq' = dlq /\ dbFaults' = dbFaults
  <1>0. /\ TypeOK
        /\ DOMAIN pc = Consumers /\ DOMAIN msg = Consumers /\ DOMAIN attempt = Consumers
        /\ \A c \in Consumers : pc[c] = "dlq" => attempt[c] = MaxRetries
    BY DEF IInv, TypeOK, AttemptsPaid
  <1>1. ASSUME Quiet, UNCHANGED loopVars
        PROVE  Saves /\ \A c \in Consumers : GivenUp(c)
    BY <1>0, <1>1, OthersSpendNothing DEF Saves, loopVars
  <1>2. ASSUME NEW c \in Consumers,
               \/ Start(c) \/ StartFail(c) \/ Halt(c) \/ FetchFail(c) \/ Handle(c)
               \/ \E p \in Partitions : Fetch(c, p)
        PROVE  OthersSave(c) /\ \A d \in Consumers : d # c => GivenUp(d)
    <2>1. \A d \in Consumers : d # c =>
             pc'[d] = pc[d] /\ msg'[d] = msg[d] /\ attempt'[d] = attempt[d]
      BY <1>0, <1>2, OthersStay
    <2> QED
      BY <1>0, <2>1, OthersSpendNothing DEF OthersSave
  <1>3. ASSUME NEW c \in Consumers, OthersSave(c), Spent(c)' <= Spent(c) \/ Spent(c)' <= 0
        PROVE  Saves
    BY <1>3 DEF OthersSave, Saves
  <1>4. ASSUME NEW c \in Consumers,
               \/ Start(c) \/ StartFail(c) \/ Halt(c)
               \/ Commit(c) \/ CommitFail(c) \/ Insert(c)
        PROVE  Quiet /\ Spent(c)' <= 0 /\ GivenUp(c)
    <2>1. pc'[c] \in {"poll", "detached", "down", "dead", "commit"} /\ Quiet
      BY <1>0, <1>4 DEF Start, StartFail, Halt, BrokerFault, Commit, CommitFail, Insert,
                        LoopDies, faultVars
    <2>2. Spent(c)' = 0
      BY <2>1 DEF Spent
    <2> QED
      BY <2>1, <2>2
  <1>5. ASSUME NEW c \in Consumers, FetchFail(c) PROVE Quiet /\ UNCHANGED loopVars
    BY <1>5 DEF FetchFail, BrokerFault
  <1>6. ASSUME NEW c \in Consumers, NEW p \in Partitions, Fetch(c, p)
        PROVE  Quiet /\ Spent(c)' <= 0 /\ GivenUp(c)
    <2>1. pc'[c] \in {"check", "commit"} /\ attempt'[c] = 1 /\ Quiet
      BY <1>0, <1>6 DEF Fetch, faultVars
    <2>2. Spent(c)' \in {0, -1}
      BY <2>1 DEF Spent
    <2> QED
      BY <2>1, <2>2
  <1>7. ASSUME NEW c \in Consumers, Check(c)
        PROVE  Quiet /\ (Spent(c)' <= Spent(c) \/ Spent(c)' <= 0) /\ GivenUp(c)
    <2>1. /\ Quiet /\ pc[c] = "check" /\ attempt'[c] = attempt[c]
          /\ pc'[c] = IF Found(c) THEN "commit" ELSE "insert"
      BY <1>0, <1>7 DEF Check, Found, faultVars
    <2>2. PICK n \in Int : n = attempt[c]
      BY <1>0, NumbersAssumption DEF TypeOK
    <2>3. CASE Found(c)
      <3>1. Spent(c)' = 0
        BY <2>1, <2>3 DEF Spent
      <3> QED
        BY <2>1, <2>3, <3>1
    <2>4. CASE ~Found(c)
      <3>1. Spent(c)' = n - 1 /\ Spent(c) = n - 1
        BY <2>1, <2>2, <2>4 DEF Spent
      <3> QED
        BY <2>1, <2>2, <2>4, <3>1
    <2> QED
      BY <2>3, <2>4
  <1>8. ASSUME NEW c \in Consumers, CheckFail(c) \/ InsertFail(c)
        PROVE  dlq' = dlq /\ dbFaults' = dbFaults + 1 /\ Spends(c) /\ GivenUp(c)
    BY <1>0, <1>8, FailedSpends DEF CheckFail, InsertFail, DbFault, Spends
  <1>9. ASSUME NEW c \in Consumers, InsertConflict(c)
        PROVE  Quiet /\ Spent(c)' <= Spent(c) /\ GivenUp(c)
    BY <1>0, <1>9, FailedSpends DEF InsertConflict, Found, faultVars
  <1>10. ASSUME NEW c \in Consumers, Retry(c)
         PROVE  Quiet /\ Spent(c)' <= Spent(c) /\ GivenUp(c)
    <2>1. PICK n \in Int : n = attempt[c]
      BY <1>0, NumbersAssumption DEF TypeOK
    <2>2. /\ Quiet /\ pc[c] = "backoff" /\ pc'[c] = "check" /\ msg'[c] = msg[c]
          /\ attempt'[c] = n + 1
      BY <1>0, <1>10, <2>1 DEF Retry, faultVars
    <2>3. Found(c) => Found(c)'
      BY <2>2, HandledStays DEF Handling
    <2>4. /\ Spent(c)' = n + 1 - 1 - (IF Found(c)' THEN 1 ELSE 0)
          /\ Spent(c) = n - 0 - (IF Found(c) THEN 1 ELSE 0)
      BY <2>1, <2>2 DEF Spent
    <2> QED
      BY <2>2, <2>3, <2>4
  <1>11. ASSUME NEW c \in Consumers, DeadLetter(c) \/ DeadLetterFail(c)
         PROVE  /\ dlq' \in {dlq, dlq \cup {msg[c]}} /\ dbFaults' = dbFaults
                /\ Ends(c) /\ GivenUp(c)
    <2>1. /\ pc[c] = "dlq" /\ attempt[c] = MaxRetries
          /\ pc'[c] \in {"commit", "dead"}
          /\ dlq' \in {dlq, dlq \cup {msg[c]}} /\ dbFaults' = dbFaults
      BY <1>0, <1>11 DEF DeadLetter, DeadLetterFail, BrokerFault, LoopDies, faultVars
    <2>2. Spent(c)' = 0 /\ Spent(c) = MaxRetries - 0 - (IF Found(c) THEN 1 ELSE 0)
      BY <2>1 DEF Spent
    <2> QED
      BY <2>1, <2>2, NumbersAssumption DEF Ends
  <1>12. CASE Rebalance \/ UNCHANGED vars
              \/ \E p \in Partitions, m \in Keys \cup {Malformed} : Arrive(p, m)
    <2>1. Quiet /\ UNCHANGED loopVars
      BY <1>12 DEF Rebalance, vars, Arrive, faultVars
    <2> QED
      BY <1>1, <2>1
  <1>13. ASSUME NEW c \in Consumers, FetchFail(c)
         PROVE  Quiet /\ Saves /\ \A d \in Consumers : GivenUp(d)
    BY <1>1, <1>5, <1>13
  <1>14. ASSUME NEW c \in Consumers,
                \/ Start(c) \/ StartFail(c) \/ Halt(c)
                \/ Commit(c) \/ CommitFail(c) \/ Insert(c)
                \/ Check(c) \/ InsertConflict(c) \/ Retry(c)
                \/ \E p \in Partitions : Fetch(c, p)
         PROVE  Quiet /\ Saves /\ \A d \in Consumers : GivenUp(d)
    <2>1. Quiet /\ (Spent(c)' <= Spent(c) \/ Spent(c)' <= 0) /\ GivenUp(c)
      BY <1>4, <1>6, <1>7, <1>9, <1>10, <1>14
    <2>2. OthersSave(c) /\ \A d \in Consumers : d # c => GivenUp(d)
      BY <1>2, <1>14 DEF Handle
    <2> QED
      BY <1>3, <2>1, <2>2
  <1>15. ASSUME NEW c \in Consumers,
                CheckFail(c) \/ InsertFail(c) \/ DeadLetter(c) \/ DeadLetterFail(c)
         PROVE  /\ OthersSave(c)
                /\ \A d \in Consumers : GivenUp(d)
                /\ \/ dlq' = dlq /\ dbFaults' = dbFaults + 1 /\ Spends(c)
                   \/ dlq' \in {dlq, dlq \cup {msg[c]}} /\ dbFaults' = dbFaults /\ Ends(c)
    <2>1. OthersSave(c) /\ \A d \in Consumers : d # c => GivenUp(d)
      BY <1>2, <1>15 DEF Handle
    <2> QED
      BY <1>8, <1>11, <1>15, <2>1
  <1> QED
    BY <1>12, <1>13, <1>14, <1>15 DEF Step, GroupStep, Handle

\* The failures pay for what was spent, initially and after every step.
LEMMA AttemptsPaidInit == Init => AttemptsPaid
  <1> SUFFICES ASSUME Init PROVE AttemptsPaid
    OBVIOUS
  <1>1. \A c \in Consumers : pc[c] = "down" /\ Spent(c) = 0
    BY DEF Init, Spent
  <1>2. Units(Effort) = {}
    BY <1>1, UnitsElements DEF Effort
  <1>3. dlq = {} /\ dbFaults = 0
    BY DEF Init
  <1>4. (MaxRetries - 1) * 0 + 0 <= 0
    BY NumbersAssumption
  <1> QED
    BY <1>1, <1>2, <1>3, <1>4, FS_EmptySet DEF AttemptsPaid

\* Units(Effort) has one element for every failure spent on a message in hand.
LEMMA AttemptsPaidStep ==
    ASSUME MaxRetries >= 1
    PROVE  IInv /\ AttemptsPaid /\ [Step]_vars => AttemptsPaid'
  <1> SUFFICES ASSUME IInv, AttemptsPaid, [Step]_vars PROVE AttemptsPaid'
    OBVIOUS
  <1>0. TypeOK /\ TypeOK' /\ IsFiniteSet(dlq)
    BY TypeStep DEF IInv, AttemptsPaid
  <1>1. Effort \in [Consumers -> Int] /\ \A c \in Consumers : Effort[c] = Spent(c)
    BY <1>0, SpentType
  <1>2. (TypeOK => Effort \in [Consumers -> Int] /\ \A c \in Consumers : Effort[c] = Spent(c))'
    BY SpentType, PTL
  <1>3. Effort' \in [Consumers -> Int] /\ \A c \in Consumers : Effort'[c] = Spent(c)'
    BY <1>0, <1>2
  <1>4. PICK m \in Nat, n \in Nat, d \in Nat, r \in Nat :
            /\ m = Cardinality(Units(Effort)) /\ n = Cardinality(Units(Effort'))
            /\ d = Cardinality(dlq) /\ r = MaxRetries - 1
            /\ r * d + m <= dbFaults
    <2>1. Cardinality(Units(Effort)) \in Nat /\ Cardinality(Units(Effort')) \in Nat
      BY <1>1, <1>3, UnitsFinite
    <2>2. Cardinality(dlq) \in Nat /\ MaxRetries - 1 \in Nat
      BY <1>0, FS_CardinalityType, NumbersAssumption
    <2> QED
      BY <2>1, <2>2, Zenon DEF AttemptsPaid
  <1>5. dbFaults \in Nat
    BY <1>0, NumbersAssumption DEF TypeOK
  <1>6. /\ IsFiniteSet(dlq')
        /\ r * Cardinality(dlq') + n <= dbFaults'
    <2>1. CASE dlq' = dlq /\ dbFaults' = dbFaults /\ Saves
      <3>1. n <= m
        BY <1>1, <1>3, <1>4, <2>1, UnitsLower DEF Saves
      <3> QED
        BY <1>0, <1>4, <1>5, <2>1, <3>1
    <2>2. ASSUME NEW c \in Consumers, OthersSave(c),
                 dlq' = dlq, dbFaults' = dbFaults + 1, Spends(c)
          PROVE  /\ IsFiniteSet(dlq')
                 /\ r * Cardinality(dlq') + n <= dbFaults'
      <3>1. n <= m + 1
        BY <1>1, <1>3, <1>4, <2>2, UnitsRaise DEF OthersSave, Spends
      <3> QED
        BY <1>0, <1>4, <1>5, <2>2, <3>1
    <2>3. ASSUME NEW c \in Consumers, OthersSave(c),
                 dlq' \in {dlq, dlq \cup {msg[c]}}, dbFaults' = dbFaults, Ends(c)
          PROVE  /\ IsFiniteSet(dlq')
                 /\ r * Cardinality(dlq') + n <= dbFaults'
      <3>1. Effort[c] \in Nat /\ r <= Effort[c] /\ Effort'[c] <= 0
        BY <1>1, <1>3, <1>4, <2>3, NumbersAssumption DEF Ends
      <3>2. n + Effort[c] <= m
        BY <1>1, <1>3, <1>4, <2>3, <3>1, UnitsDrop DEF OthersSave
      <3>3. n + r <= m
        BY <1>4, <3>1, <3>2
      <3>4. IsFiniteSet(dlq') /\ Cardinality(dlq') \in {d, d + 1}
        BY <1>0, <1>4, <2>3, FS_AddElement
      <3>5. r * (d + 1) = r * d + r /\ r * d \in Nat
        BY <1>4
      <3> QED
        BY <1>4, <1>5, <2>3, <3>3, <3>4, <3>5
    <2> QED
      BY <2>1, <2>2, <2>3, EffortMoves
  <1>7. n = Cardinality(Units(Effort))' /\ r = MaxRetries - 1
    BY <1>4 DEF Units
  <1>8. \A c \in Consumers : pc'[c] = "dlq" => attempt'[c] = MaxRetries
    BY EffortMoves
  <1> QED
    BY <1>6, <1>7, <1>8 DEF AttemptsPaid

\* A message is given up only for MaxRetries - 1 failures of the database, and no
\* failure pays for two messages.
THEOREM GivenUpForFailures ==
    ASSUME MaxRetries >= 1
    PROVE  Spec => []DeadLetterNeedsFailures
  <1>1. IInv /\ AttemptsPaid => DeadLetterNeedsFailures
    <2> SUFFICES ASSUME IInv, AttemptsPaid PROVE DeadLetterNeedsFailures
      OBVIOUS
    <2>1. PICK m \in Nat, n \in Nat, r \in Nat :
              /\ m = Cardinality(Units(Effort)) /\ n = Cardinality(dlq) /\ r = MaxRetries - 1
              /\ r * n + m <= dbFaults
      <3>1. Cardinality(Units(Effort)) \in Nat
        BY SpentType, UnitsFinite DEF IInv
      <3>2. Cardinality(dlq) \in Nat /\ MaxRetries - 1 \in Nat
        BY FS_CardinalityType, NumbersAssumption DEF AttemptsPaid
      <3> QED
        BY <3>1, <3>2, Zenon DEF AttemptsPaid
    <2>2. dbFaults \in Nat
      BY NumbersAssumption DEF IInv, TypeOK
    <2>3. dbFaults >= r * n
      BY <2>1, <2>2
    <2> QED
      BY <2>1, <2>3 DEF DeadLetterNeedsFailures
  <1> QED
    BY <1>1, AttemptsPaidInit, AttemptsPaidStep, Inductive, NextIsStep, PTL DEF Spec
=============================================================================
