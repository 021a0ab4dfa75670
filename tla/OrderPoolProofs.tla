--------------------------- MODULE OrderPoolProofs ---------------------------
(***************************************************************************)
(* Proofs about OrderPool, for any number of slots, orders and events: the *)
(* events of every order are a sensible sequence.  What was emitted for an *)
(* order that still has a slot is tied to the step of its chain; an order  *)
(* that lost its slot is never emitted for again.                          *)
(***************************************************************************)
EXTENDS OrderPool, TLAPS

Steps == 0 .. 3

\* A slot's chain is neither cancelled nor completed: such a chain is replaced.
Chains ==
    [order_id : 1 .. MaxOrders, current_step : Steps,
     cancelled : {FALSE}, completed : {FALSE}]

Types == {"order_created", "order_paid", "order_shipped", "order_delivered",
          "order_cancelled"}

Events == [order_id : 1 .. MaxOrders, event_type : Types, duplicate : BOOLEAN]

Shape ==
    /\ pool \in [Slots -> Chains]
    /\ last_sent \in [Slots -> Types \cup {"none"}]
    /\ orders \in PoolSize .. MaxOrders
    /\ emitted \in Seq(Events)

\* No order has two slots, and none that was drawn is drawn again.
Owners ==
    /\ \A i, j \in Slots : pool[i].order_id = pool[j].order_id => i = j
    /\ \A i \in Slots : pool[i].order_id <= orders
    /\ \A n \in DOMAIN emitted : emitted[n].order_id <= orders

\* A slot remembers the last step of its chain; of a chain that has none it
\* may remember only how its predecessor was cancelled.
Memory ==
    \A i \in Slots :
        IF pool[i].current_step = 0
          THEN last_sent[i] \in {"none", "order_cancelled"}
          ELSE last_sent[i] = CHAIN[pool[i].current_step]

\* Events of the order in slot i.
Of(i) == {n \in DOMAIN emitted : emitted[n].order_id = pool[i].order_id}

\* The events of an order in a slot are its steps so far, each of them at least
\* once, and duplicates of its predecessor's cancellation.
HistoryOf(i) ==
    /\ \A s \in 1 .. pool[i].current_step :
          \E n \in Of(i) : emitted[n].event_type = CHAIN[s]
    /\ \A n \in Of(i) :
          \/ \E s \in 1 .. pool[i].current_step : emitted[n].event_type = CHAIN[s]
          \/ emitted[n].event_type = "order_cancelled" /\ emitted[n].duplicate
History == \A i \in Slots : HistoryOf(i)

Sensible == ChainInOrder /\ NothingAfterTheEnd /\ FreshEventsAreUnique

IInv == Shape /\ Owners /\ Memory /\ History /\ Sensible

-----------------------------------------------------------------------------
\* CHAIN, in a form that the provers need no more definitions for.
LEMMA ChainFacts ==
    /\ Len(CHAIN) = 4 /\ CHAIN \in Seq(Types)
    /\ CHAIN[1] = "order_created" /\ CHAIN[2] = "order_paid"
    /\ CHAIN[3] = "order_shipped" /\ CHAIN[4] = "order_delivered"
    /\ \A s \in 1 .. 4 : CHAIN[s] \in Types \ {"order_cancelled"}
    /\ \A s, t \in 1 .. 4 : CHAIN[s] = CHAIN[t] => s = t
    /\ \A s \in 1 .. 4 : CHAIN[s] = "order_delivered" <=> s = 4
    /\ EventTypes = Types
  <1>1. /\ Len(CHAIN) = 4
        /\ CHAIN[1] = "order_created" /\ CHAIN[2] = "order_paid"
        /\ CHAIN[3] = "order_shipped" /\ CHAIN[4] = "order_delivered"
    BY DEF CHAIN
  <1>2. CHAIN \in Seq(Types)
    BY DEF CHAIN, Types
  <1>3. /\ \A s \in 1 .. 4 : CHAIN[s] \in Types \ {"order_cancelled"}
        /\ \A s, t \in 1 .. 4 : CHAIN[s] = CHAIN[t] => s = t
        /\ \A s \in 1 .. 4 : CHAIN[s] = "order_delivered" <=> s = 4
    <2>1. \A s \in 1 .. 4 : s = 1 \/ s = 2 \/ s = 3 \/ s = 4
      OBVIOUS
    <2> QED
      BY <1>1, <2>1 DEF Types
  <1>4. EventTypes = Types
    <2>1. ToSet(CHAIN) = {CHAIN[s] : s \in 1 .. 4}
      BY <1>1, <1>2 DEF ToSet
    <2> QED
      BY <1>1, <2>1 DEF EventTypes, Types
  <1> QED
    BY <1>1, <1>2, <1>3, <1>4

LEMMA NextStep ==
    ASSUME NEW chain \in Chains
    PROVE  /\ next_event_type(chain) = CHAIN[chain.current_step + 1]
           /\ advance(chain).completed <=> chain.current_step = 3
           /\ chain.current_step # 3 =>
                 /\ advance(chain) \in Chains
                 /\ advance(chain).order_id = chain.order_id
                 /\ advance(chain).current_step = chain.current_step + 1
  <1> DEFINE done == chain.current_step + 1 >= Len(CHAIN)
  <1>1. chain.current_step \in Steps /\ chain.cancelled = FALSE /\ chain.completed = FALSE
    BY DEF Chains
  <1>2. next_event_type(chain) = CHAIN[chain.current_step + 1]
    <2>1. ~(chain.current_step >= Len(CHAIN))
      BY <1>1, ChainFacts DEF Steps
    <2> QED
      BY <1>1, <2>1, Zenon DEF next_event_type
  <1>3. done \in BOOLEAN /\ (done <=> chain.current_step = 3)
    BY <1>1, ChainFacts DEF Steps
  <1>4. advance(chain) = [chain EXCEPT !.current_step = chain.current_step + 1,
                                       !.completed = done]
    BY <1>1, Zenon DEF advance
  <1>5. chain.current_step # 3 => chain.current_step + 1 \in Steps /\ done = FALSE
    BY <1>1, <1>3 DEF Steps
  <1> HIDE DEF done
  <1>6. advance(chain).completed = done
    BY <1>3, <1>4 DEF Chains
  <1>7. CASE chain.current_step = 3
    BY <1>2, <1>3, <1>6, <1>7, Zenon
  <1>8. CASE chain.current_step # 3
    <2>0. advance(chain) = [chain EXCEPT !.current_step = chain.current_step + 1,
                                         !.completed = FALSE]
      BY <1>4, <1>5, <1>8, Zenon
    <2>1. /\ advance(chain) \in Chains
          /\ advance(chain).order_id = chain.order_id
          /\ advance(chain).current_step = chain.current_step + 1
      BY <1>5, <1>8, <2>0 DEF Chains
    <2> QED
      BY <1>2, <1>3, <1>6, <1>8, <2>1, Zenon
  <1> QED
    BY <1>7, <1>8

LEMMA Typed == Shape => TypeOK
  <1>1. Chains \subseteq [order_id : 1 .. MaxOrders, current_step : 0 .. Len(CHAIN) - 1,
                          cancelled : BOOLEAN, completed : BOOLEAN]
    <2>1. {FALSE} \subseteq BOOLEAN /\ Steps = 0 .. Len(CHAIN) - 1
      BY ChainFacts DEF Steps
    <2> QED
      BY <2>1, Zenon DEF Chains
  <1> QED
    BY <1>1, ChainFacts DEF Shape, TypeOK, Events

\* What a slot and an event hold.
LEMMA SlotFacts ==
    ASSUME Shape, NEW i \in Slots
    PROVE  /\ pool[i] \in Chains
           /\ pool[i].order_id \in 1 .. MaxOrders /\ pool[i].order_id \in Nat
           /\ pool[i].current_step \in Steps /\ pool[i].current_step \in Nat
           /\ pool[i].current_step + 1 \in 1 .. 4
  <1>1. pool[i] \in Chains
    BY DEF Shape
  <1>2. pool[i].order_id \in 1 .. MaxOrders /\ pool[i].current_step \in Steps
    BY <1>1, Zenon DEF Chains
  <1> QED
    BY <1>1, <1>2, PoolAssumption DEF Steps

LEMMA EventFacts ==
    ASSUME Shape, NEW n \in DOMAIN emitted
    PROVE  emitted[n].order_id \in 1 .. MaxOrders /\ emitted[n].order_id \in Nat
  <1>1. emitted[n] \in Events
    BY DEF Shape
  <1>2. emitted[n].order_id \in 1 .. MaxOrders
    BY <1>1, Zenon DEF Events
  <1> QED
    BY <1>2, PoolAssumption

-----------------------------------------------------------------------------
(* One event more.                                                         *)

LEMMA Emitted ==
    ASSUME Shape, NEW i \in Slots, NEW type \in Types, NEW duplicate \in BOOLEAN,
           Emit(i, type, duplicate)
    PROVE  /\ emitted' \in Seq(Events)
           /\ Len(emitted') = Len(emitted) + 1
           /\ DOMAIN emitted = 1 .. Len(emitted)
           /\ DOMAIN emitted' = 1 .. Len(emitted) + 1
           /\ \A n \in 1 .. Len(emitted) : emitted'[n] = emitted[n]
           /\ emitted'[Len(emitted) + 1].order_id = pool[i].order_id
           /\ emitted'[Len(emitted) + 1].event_type = type
           /\ emitted'[Len(emitted) + 1].duplicate = duplicate
  <1> DEFINE event == [order_id |-> pool[i].order_id, event_type |-> type,
                       duplicate |-> duplicate]
  <1>1. pool[i].order_id \in 1 .. MaxOrders
    BY DEF Shape, Chains
  <1>2. event \in Events
    BY <1>1 DEF Events
  <1>3. /\ event.order_id = pool[i].order_id
        /\ event.event_type = type
        /\ event.duplicate = duplicate
    OBVIOUS
  <1>4. emitted' = Append(emitted, event)
    BY DEF Emit
  <1> HIDE DEF event
  <1> QED
    BY <1>2, <1>3, <1>4 DEF Shape

\* The order of the slot has not come to its end.
LEMMA StillOpen ==
    ASSUME IInv, NEW i \in Slots, NEW n \in Of(i)
    PROVE  /\ emitted[n].event_type # "order_delivered"
           /\ emitted[n].event_type = "order_cancelled" => emitted[n].duplicate
  <1>1. pool[i].current_step \in Steps
    BY DEF IInv, Shape, Chains
  <1>2. \A s \in 1 .. pool[i].current_step :
           CHAIN[s] # "order_delivered" /\ CHAIN[s] # "order_cancelled"
    BY <1>1, ChainFacts DEF Steps
  <1> QED
    BY <1>2 DEF IInv, History, HistoryOf

\* An event keeps the sequence sensible if its predecessor in CHAIN is there and,
\* unless it is a duplicate, it is the first of its type but for duplicates.
LEMMA StaysSensible ==
    ASSUME IInv, NEW i \in Slots, NEW type \in Types, NEW duplicate \in BOOLEAN,
           Emit(i, type, duplicate),
           \A s \in 2 .. 4 : type = CHAIN[s] =>
               \E n \in Of(i) : emitted[n].event_type = CHAIN[s - 1],
           ~duplicate => \A n \in Of(i) :
               emitted[n].event_type = type => emitted[n].duplicate
    PROVE  Sensible'
  <1> DEFINE last == Len(emitted) + 1
  <1>1. /\ last \in Nat /\ Len(emitted) \in Nat
        /\ DOMAIN emitted = 1 .. Len(emitted)
        /\ DOMAIN emitted' = 1 .. last
        /\ \A n \in 1 .. Len(emitted) : n \in 1 .. last /\ n < last /\ emitted'[n] = emitted[n]
        /\ \A n \in 1 .. last : n \in 1 .. Len(emitted) \/ n = last
        /\ emitted'[last].order_id = pool[i].order_id
        /\ emitted'[last].event_type = type
        /\ emitted'[last].duplicate = duplicate
    BY Emitted DEF IInv, Shape
  <1>2. ChainInOrder'
    <2> SUFFICES ASSUME NEW n \in 1 .. last, NEW s \in 2 .. 4,
                        emitted'[n].event_type = CHAIN[s]
                 PROVE  \E m \in 1 .. n - 1 : SameOrder(m, n)' /\ emitted'[m].event_type = CHAIN[s - 1]
      <3>1. Len(CHAIN) = 4 /\ DOMAIN emitted' = 1 .. last
        BY <1>1, ChainFacts
      <3> QED
        BY <3>1 DEF ChainInOrder
    <2>1. CASE n \in 1 .. Len(emitted)
      <3>1. \E m \in 1 .. n - 1 : /\ emitted[m].order_id = emitted[n].order_id
                                  /\ emitted[m].event_type = CHAIN[s - 1]
        BY <1>1, <2>1, ChainFacts DEF IInv, Sensible, ChainInOrder, SameOrder
      <3> QED
        BY <1>1, <2>1, <3>1 DEF SameOrder
    <2>2. CASE n = last
      <3>1. PICK m \in Of(i) : emitted[m].event_type = CHAIN[s - 1]
        BY <1>1, <2>2
      <3>2. m \in 1 .. last - 1 /\ emitted[m].order_id = pool[i].order_id
        BY <1>1, <3>1 DEF Of
      <3> QED
        BY <1>1, <2>2, <3>1, <3>2 DEF SameOrder
    <2> QED
      BY <1>1, <2>1, <2>2
  <1>3. NothingAfterTheEnd'
    <2> SUFFICES ASSUME NEW m \in 1 .. last, NEW n \in 1 .. last, m < n,
                        emitted'[m].order_id = emitted'[n].order_id
                 PROVE  /\ emitted'[m].event_type # "order_delivered"
                        /\ emitted'[m].event_type = "order_cancelled" => emitted'[m].duplicate
      BY <1>1 DEF NothingAfterTheEnd, SameOrder
    <2>1. CASE n \in 1 .. Len(emitted)
      <3>1. m \in 1 .. Len(emitted) /\ emitted'[m] = emitted[m] /\ emitted'[n] = emitted[n]
        BY <1>1, <2>1
      <3> QED
        BY <1>1, <2>1, <3>1, Zenon DEF IInv, Sensible, NothingAfterTheEnd, SameOrder
    <2>2. CASE n = last
      <3>1. m \in Of(i) /\ emitted'[m] = emitted[m]
        BY <1>1, <2>2 DEF Of
      <3> QED
        BY <3>1, StillOpen
    <2> QED
      BY <1>1, <2>1, <2>2
  <1>4. FreshEventsAreUnique'
    <2> SUFFICES ASSUME NEW m \in 1 .. last, NEW n \in 1 .. last,
                        emitted'[m].order_id = emitted'[n].order_id,
                        emitted'[m].event_type = emitted'[n].event_type,
                        ~emitted'[m].duplicate, ~emitted'[n].duplicate
                 PROVE  m = n
      BY <1>1 DEF FreshEventsAreUnique, SameOrder
    <2>1. CASE m \in 1 .. Len(emitted) /\ n \in 1 .. Len(emitted)
      BY <1>1, <2>1 DEF IInv, Sensible, FreshEventsAreUnique, SameOrder
    <2>2. CASE m = last /\ n \in 1 .. Len(emitted)
      BY <1>1, <2>2 DEF Of
    <2>3. CASE n = last /\ m \in 1 .. Len(emitted)
      BY <1>1, <2>3 DEF Of
    <2> QED
      BY <1>1, <2>1, <2>2, <2>3
  <1> QED
    BY <1>2, <1>3, <1>4 DEF Sensible

-----------------------------------------------------------------------------
(* What becomes of the slots.                                              *)

\* The events of a slot are untouched by another slot's.
LEMMA OtherSlot ==
    ASSUME IInv, NEW i \in Slots, NEW j \in Slots, i # j,
           NEW type \in Types, NEW duplicate \in BOOLEAN, Emit(i, type, duplicate),
           pool'[j] = pool[j]
    PROVE  HistoryOf(j)'
  <1>1. pool[j].order_id # pool[i].order_id
    BY DEF IInv, Owners
  <1>2. Shape /\ HistoryOf(j)
    BY DEF IInv, History
  <1>3. Of(j)' = Of(j) /\ \A n \in Of(j) : emitted'[n] = emitted[n]
    BY <1>1, <1>2, Emitted DEF Of
  <1> QED
    BY <1>2, <1>3 DEF HistoryOf

\* The slot that emitted keeps its order, whose last step is now `step'.
LEMMA OwnSlot ==
    ASSUME IInv, NEW i \in Slots, NEW type \in Types, NEW duplicate \in BOOLEAN,
           Emit(i, type, duplicate),
           pool'[i].order_id = pool[i].order_id,
           \/ pool'[i].current_step = pool[i].current_step
           \/ /\ pool'[i].current_step = pool[i].current_step + 1
              /\ type = CHAIN[pool'[i].current_step],
           \/ \E s \in 1 .. pool'[i].current_step : type = CHAIN[s]
           \/ type = "order_cancelled" /\ duplicate
    PROVE  HistoryOf(i)'
  <1> DEFINE last == Len(emitted) + 1
  <1>1. Shape /\ HistoryOf(i) /\ pool[i].current_step \in Nat
    BY SlotFacts DEF IInv, History
  <1>2. /\ Of(i)' = Of(i) \cup {last}
        /\ \A n \in Of(i) : emitted'[n] = emitted[n]
        /\ emitted'[last].event_type = type
        /\ emitted'[last].duplicate = duplicate
    BY <1>1, Emitted DEF Of
  <1>3. ASSUME NEW s \in 1 .. pool'[i].current_step
        PROVE  \E n \in Of(i)' : emitted'[n].event_type = CHAIN[s]
    <2>1. CASE s \in 1 .. pool[i].current_step
      BY <1>1, <1>2, <2>1 DEF HistoryOf
    <2>2. CASE s = pool[i].current_step + 1
      BY <1>1, <1>2, <2>2
    <2> QED
      BY <1>1, <2>1, <2>2
  <1>4. ASSUME NEW n \in Of(i)'
        PROVE  \/ \E s \in 1 .. pool'[i].current_step : emitted'[n].event_type = CHAIN[s]
               \/ emitted'[n].event_type = "order_cancelled" /\ emitted'[n].duplicate
    <2>1. CASE n \in Of(i)
      <3>1. 1 .. pool[i].current_step \subseteq 1 .. pool'[i].current_step
        BY <1>1
      <3> QED
        BY <1>1, <1>2, <2>1, <3>1, Zenon DEF HistoryOf
    <2>2. CASE n = last
      BY <1>2, <2>2, Zenon
    <2> QED
      BY <1>2, <2>1, <2>2
  <1> QED
    BY <1>3, <1>4 DEF HistoryOf

\* As long as every slot keeps its order.
LEMMA OwnersKept ==
    ASSUME IInv, NEW i \in Slots, NEW type \in Types, NEW duplicate \in BOOLEAN,
           Emit(i, type, duplicate), orders' = orders,
           \A j \in Slots : pool'[j].order_id = pool[j].order_id
    PROVE  Owners'
  <1>1. /\ \A j, k \in Slots : pool'[j].order_id = pool'[k].order_id => j = k
        /\ \A j \in Slots : pool'[j].order_id <= orders'
    BY DEF IInv, Owners
  <1>2. ASSUME NEW n \in DOMAIN emitted'
        PROVE  emitted'[n].order_id <= orders'
    <2>1. \/ n \in DOMAIN emitted /\ emitted'[n] = emitted[n]
          \/ emitted'[n].order_id = pool[i].order_id
      BY Emitted DEF IInv
    <2> QED
      BY <2>1 DEF IInv, Owners
  <1> QED
    BY <1>1, <1>2 DEF Owners

\* A slot that was handed on has an order without events.
LEMMA NewOrder ==
    ASSUME IInv, NEW i \in Slots, NEW type \in Types, NEW duplicate \in BOOLEAN,
           Emit(i, type, duplicate), replace_chain(i)
    PROVE  /\ pool' \in [Slots -> Chains] /\ orders' \in PoolSize .. MaxOrders
           /\ pool'[i].current_step = 0
           /\ \A j \in Slots : j # i => pool'[j] = pool[j]
           /\ Owners'
           /\ HistoryOf(i)'
  <1>1. /\ pool \in [Slots -> Chains]
        /\ orders \in Nat /\ PoolSize \in Nat /\ MaxOrders \in Nat
        /\ orders < MaxOrders /\ PoolSize <= orders
        /\ orders' = orders + 1
        /\ pool' = [pool EXCEPT ![i] = OrderChain(orders + 1)]
    BY PoolAssumption DEF IInv, Shape, replace_chain
  <1>2. /\ OrderChain(orders + 1) \in Chains
        /\ OrderChain(orders + 1).order_id = orders + 1
        /\ OrderChain(orders + 1).current_step = 0
    BY <1>1 DEF OrderChain, Chains, Steps
  <1>3. /\ pool' \in [Slots -> Chains]
        /\ pool'[i].order_id = orders + 1 /\ pool'[i].current_step = 0
        /\ \A j \in Slots : j # i => pool'[j] = pool[j]
    BY <1>1, <1>2
  <1>4. \A j \in Slots : pool[j].order_id \in Nat /\ pool[j].order_id <= orders
    BY SlotFacts DEF IInv, Owners
  <1>5. \A n \in DOMAIN emitted' :
           emitted'[n].order_id \in Nat /\ emitted'[n].order_id <= orders
    <2>1. \A n \in 1 .. Len(emitted) :
             emitted[n].order_id \in Nat /\ emitted[n].order_id <= orders
      <3>1. DOMAIN emitted = 1 .. Len(emitted)
        BY DEF IInv, Shape
      <3> QED
        BY <3>1, EventFacts DEF IInv, Owners
    <2> QED
      BY <1>4, <2>1, Emitted DEF IInv
  <1>6. Owners'
    BY <1>1, <1>3, <1>4, <1>5 DEF IInv, Owners
  <1>7. Of(i)' = {}
    BY <1>1, <1>3, <1>5 DEF Of
  <1>8. HistoryOf(i)'
    BY <1>3, <1>7 DEF HistoryOf
  <1> QED
    BY <1>1, <1>3, <1>6, <1>8

-----------------------------------------------------------------------------
(* The actions.                                                            *)

LEMMA DuplicateKeeps == \A i \in Slots : IInv /\ Duplicate(i) => IInv'
  <1> SUFFICES ASSUME NEW i \in Slots, IInv, Duplicate(i)
               PROVE  IInv'
    OBVIOUS
  <1>1. /\ last_sent[i] \in Types
        /\ Emit(i, last_sent[i], TRUE)
        /\ pool' = pool /\ last_sent' = last_sent /\ orders' = orders
        /\ pool[i].current_step \in Steps
    BY SlotFacts DEF IInv, Shape, Duplicate
  <1>2. Shape' /\ Owners' /\ Memory'
    <2>1. Shape'
      BY <1>1, Emitted DEF IInv, Shape
    <2>2. Owners'
      BY <1>1, OwnersKept DEF IInv
    <2>3. Memory'
      BY <1>1 DEF IInv, Memory
    <2> QED
      BY <2>1, <2>2, <2>3
  <1>3. \/ pool[i].current_step = 0 /\ last_sent[i] = "order_cancelled"
        \/ /\ pool[i].current_step \in 1 .. 3
           /\ last_sent[i] = CHAIN[pool[i].current_step]
    BY <1>1 DEF IInv, Memory, Duplicate, Steps
  <1>4. History'
    <2>1. HistoryOf(i)'
      <3>1. \/ \E s \in 1 .. pool[i].current_step : last_sent[i] = CHAIN[s]
            \/ last_sent[i] = "order_cancelled"
        BY <1>3
      <3> QED
        BY <1>1, <3>1, OwnSlot
    <2>2. \A j \in Slots : j # i => HistoryOf(j)'
      BY <1>1, OtherSlot
    <2> QED
      BY <2>1, <2>2 DEF History
  <1>5. Sensible'
    <2>1. ASSUME NEW s \in 2 .. 4, last_sent[i] = CHAIN[s]
          PROVE  \E n \in Of(i) : emitted[n].event_type = CHAIN[s - 1]
      <3>1. s = pool[i].current_step
        BY <1>3, <2>1, ChainFacts
      <3>2. s - 1 \in 1 .. pool[i].current_step
        BY <3>1
      <3> QED
        BY <3>2 DEF IInv, History, HistoryOf
    <2> QED
      BY <1>1, <2>1, StaysSensible
  <1> QED
    BY <1>2, <1>4, <1>5 DEF IInv

LEMMA CancelKeeps == \A i \in Slots : IInv /\ Cancel(i) => IInv'
  <1> SUFFICES ASSUME NEW i \in Slots, IInv, Cancel(i)
               PROVE  IInv'
    OBVIOUS
  <1>1. /\ "order_cancelled" \in Types
        /\ Emit(i, "order_cancelled", FALSE)
        /\ replace_chain(i)
        /\ last_sent' = [last_sent EXCEPT ![i] = "order_cancelled"]
    BY DEF Cancel, Types
  <1>2. /\ pool' \in [Slots -> Chains] /\ orders' \in PoolSize .. MaxOrders
        /\ pool'[i].current_step = 0
        /\ \A j \in Slots : j # i => pool'[j] = pool[j]
        /\ Owners'
        /\ HistoryOf(i)'
    BY <1>1, NewOrder
  <1>3. Shape'
    BY <1>1, <1>2, Emitted DEF IInv, Shape
  <1>4. Memory'
    BY <1>1, <1>2 DEF IInv, Shape, Memory
  <1>5. History'
    <2>1. \A j \in Slots : j # i => HistoryOf(j)'
      BY <1>1, <1>2, OtherSlot
    <2> QED
      BY <1>2, <2>1 DEF History
  <1>6. Sensible'
    <2>1. \A s \in 2 .. 4 : "order_cancelled" # CHAIN[s]
      BY ChainFacts
    <2>2. \A n \in Of(i) : emitted[n].event_type = "order_cancelled" => emitted[n].duplicate
      BY StillOpen
    <2> QED
      BY <1>1, <2>1, <2>2, StaysSensible
  <1> QED
    BY <1>2, <1>3, <1>4, <1>5, <1>6 DEF IInv

LEMMA ProgressKeeps == \A i \in Slots : IInv /\ Progress(i) => IInv'
  <1> SUFFICES ASSUME NEW i \in Slots, IInv, Progress(i)
               PROVE  IInv'
    OBVIOUS
  <1> DEFINE step == pool[i].current_step
             type == CHAIN[step + 1]
  <1>1. /\ pool[i] \in Chains /\ step \in Steps /\ step + 1 \in 1 .. 4
        /\ type \in Types
        /\ next_event_type(pool[i]) = type
        /\ Emit(i, type, FALSE)
    <2>1. pool[i] \in Chains /\ step \in Steps /\ step + 1 \in 1 .. 4
      BY SlotFacts DEF IInv
    <2>2. type \in Types /\ next_event_type(pool[i]) = type
      BY <2>1, NextStep, ChainFacts
    <2>3. Emit(i, type, FALSE)
      BY <2>2, Zenon DEF Progress
    <2> QED
      BY <2>1, <2>2, <2>3
  <1>2. Sensible'
    <2>1. ASSUME NEW s \in 2 .. 4, type = CHAIN[s]
          PROVE  \E n \in Of(i) : emitted[n].event_type = CHAIN[s - 1]
      <3>1. s = step + 1
        BY <1>1, <2>1, ChainFacts
      <3>2. s - 1 \in 1 .. step
        BY <1>1, <3>1 DEF Steps
      <3> QED
        BY <3>2 DEF IInv, History, HistoryOf
    <2>2. ASSUME NEW n \in Of(i), emitted[n].event_type = type
          PROVE  FALSE
      <3>1. type # "order_cancelled"
        BY <1>1, ChainFacts
      <3>2. PICK s \in 1 .. step : type = CHAIN[s]
        BY <2>2, <3>1 DEF IInv, History, HistoryOf
      <3>3. s \in 1 .. 4 /\ s # step + 1
        BY <1>1, <3>2 DEF Steps
      <3> QED
        BY <1>1, <3>2, <3>3, ChainFacts
    <2> QED
      BY <1>1, <2>1, <2>2, StaysSensible
  <1>3. CASE step = 3
    <2>1. advance(pool[i]).completed
      BY <1>1, <1>3, NextStep, Zenon
    <2>2. replace_chain(i) /\ last_sent' = [last_sent EXCEPT ![i] = "none"]
      BY <2>1, Zenon DEF Progress
    <2>3. /\ pool' \in [Slots -> Chains] /\ orders' \in PoolSize .. MaxOrders
          /\ pool'[i].current_step = 0
          /\ \A j \in Slots : j # i => pool'[j] = pool[j]
          /\ Owners'
          /\ HistoryOf(i)'
      BY <1>1, <2>2, NewOrder
    <2>4. Shape'
      BY <1>1, <2>2, <2>3, Emitted DEF IInv, Shape
    <2>5. Memory'
      BY <2>2, <2>3 DEF IInv, Shape, Memory
    <2>6. \A j \in Slots : j # i => HistoryOf(j)'
      BY <1>1, <2>3, OtherSlot
    <2> QED
      BY <1>2, <2>3, <2>4, <2>5, <2>6 DEF IInv, History
  <1>4. CASE step # 3
    <2>1. /\ advance(pool[i]) \in Chains
          /\ advance(pool[i]).order_id = pool[i].order_id
          /\ advance(pool[i]).current_step = step + 1
          /\ ~advance(pool[i]).completed
      BY <1>1, <1>4, NextStep, Zenon
    <2>2. /\ pool' = [pool EXCEPT ![i] = advance(pool[i])]
          /\ last_sent' = [last_sent EXCEPT ![i] = type]
          /\ orders' = orders
      BY <1>1, <2>1, Zenon DEF Progress
    <2>3. /\ pool' \in [Slots -> Chains]
          /\ pool'[i].order_id = pool[i].order_id /\ pool'[i].current_step = step + 1
          /\ \A j \in Slots : j # i => pool'[j] = pool[j]
      BY <2>1, <2>2 DEF IInv, Shape
    <2>4. Shape'
      BY <1>1, <2>2, <2>3, Emitted DEF IInv, Shape
    <2>5. Owners'
      <3>1. \A j \in Slots : pool'[j].order_id = pool[j].order_id
        BY <2>3
      <3> QED
        BY <1>1, <2>2, <3>1, OwnersKept
    <2>6. Memory'
      BY <1>1, <2>2, <2>3 DEF IInv, Shape, Memory, Steps
    <2>7. HistoryOf(i)'
      <3>1. step + 1 \in 1 .. pool'[i].current_step
        BY <1>1, <2>3 DEF Steps
      <3> QED
        BY <1>1, <2>3, <3>1, OwnSlot
    <2>8. \A j \in Slots : j # i => HistoryOf(j)'
      BY <1>1, <2>3, OtherSlot
    <2> QED
      BY <1>2, <2>4, <2>5, <2>6, <2>7, <2>8 DEF IInv, History
  <1> QED
    BY <1>3, <1>4

-----------------------------------------------------------------------------
LEMMA IInvInit == Init => IInv
  <1> SUFFICES ASSUME Init
               PROVE  IInv
    OBVIOUS
  <1>1. \A i \in Slots : /\ OrderChain(i) \in Chains
                         /\ OrderChain(i).order_id = i
                         /\ OrderChain(i).current_step = 0
    BY PoolAssumption DEF Slots, OrderChain, Chains, Steps
  <1>2. Shape
    BY <1>1, PoolAssumption DEF Init, Shape
  <1>3. Owners /\ Memory
    BY <1>1, PoolAssumption DEF Init, Owners, Memory, Slots
  <1>4. \A i \in Slots : Of(i) = {} /\ pool[i].current_step = 0
    BY <1>1 DEF Init, Of
  <1>5. History
    BY <1>4 DEF History, HistoryOf
  <1>6. Sensible
    BY DEF Init, Sensible, ChainInOrder, NothingAfterTheEnd, FreshEventsAreUnique
  <1> QED
    BY <1>2, <1>3, <1>5, <1>6 DEF IInv

LEMMA IInvStep == IInv /\ [Next]_vars => IInv'
  <1> SUFFICES ASSUME IInv, [Next]_vars
               PROVE  IInv'
    OBVIOUS
  <1>1. ASSUME NEW i \in Slots, generate_next(i)
        PROVE  IInv'
    <2>1. pool[i] \in Chains /\ pool[i].current_step + 1 \in 1 .. 4
      BY SlotFacts DEF IInv
    <2>2. next_event_type(pool[i]) # "none"
      BY <2>1, NextStep, ChainFacts DEF Types
    <2> QED
      BY <1>1, <2>2, DuplicateKeeps, CancelKeeps, ProgressKeeps DEF generate_next
  <1>2. CASE UNCHANGED vars
    BY <1>2 DEF vars, IInv, Shape, Owners, Memory, History, HistoryOf, Of, Sensible,
                ChainInOrder, NothingAfterTheEnd, FreshEventsAreUnique, SameOrder
  <1> QED
    BY <1>1, <1>2 DEF Next

LEMMA Invariance == Spec => []IInv
  BY IInvInit, IInvStep, PTL DEF Spec

\* The type invariant holds: no chain is ever seen past its last step.
THEOREM TypeCorrect == Spec => []TypeOK
  <1>1. IInv => TypeOK
    BY Typed DEF IInv
  <1> QED
    BY <1>1, Invariance, PTL

\* No order skips a step, whatever its slot repeats, cancels or hands on.
THEOREM OrdersAreInOrder == Spec => []ChainInOrder
  <1>1. IInv => ChainInOrder
    BY DEF IInv, Sensible
  <1> QED
    BY <1>1, Invariance, PTL

\* An order that was cancelled or delivered is never heard of again.
THEOREM TheEndIsTheEnd == Spec => []NothingAfterTheEnd
  <1>1. IInv => NothingAfterTheEnd
    BY DEF IInv, Sensible
  <1> QED
    BY <1>1, Invariance, PTL

\* Only duplicates repeat an event of an order.
THEOREM FreshOnce == Spec => []FreshEventsAreUnique
  <1>1. IInv => FreshEventsAreUnique
    BY DEF IInv, Sensible
  <1> QED
    BY <1>1, Invariance, PTL
=============================================================================
