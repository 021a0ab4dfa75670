----------------------------- MODULE OrderPool ------------------------------
(***************************************************************************)
(* The event generator's domain: OrderEventPool keeps a fixed number of    *)
(* order chains and, at every call, emits the next event of a random one,  *)
(* repeats the last event of its slot, or cancels it.  The calls are       *)
(* serialised by the pool lock of the rate-limited event loop.             *)
(***************************************************************************)
EXTENDS Integers, Sequences, SequencesExt

CONSTANTS
    PoolSize,    \* active_orders
    MaxOrders,   \* bound: order ids drawn
    MaxEvents    \* bound: events emitted

ASSUME PoolAssumption ==
    /\ PoolSize \in Nat \ {0}
    /\ MaxOrders \in Nat /\ MaxOrders >= PoolSize
    /\ MaxEvents \in Nat

VARIABLES
    pool,        \* the chain in every slot
    last_sent,   \* event type last emitted from the slot, or "none"
    orders,      \* order ids drawn so far: uuid4 never repeats one
    emitted      \* the events returned, in order

vars == <<pool, last_sent, orders, emitted>>

Slots == 1 .. PoolSize

CHAIN == <<"order_created", "order_paid", "order_shipped", "order_delivered">>

EventTypes == ToSet(CHAIN) \cup {"order_cancelled"}

OrderChain(id) ==
    [order_id |-> id, current_step |-> 0, cancelled |-> FALSE, completed |-> FALSE]

next_event_type(chain) ==
    IF chain.cancelled THEN "order_cancelled"
    ELSE IF chain.current_step >= Len(CHAIN) THEN "none"
    ELSE CHAIN[chain.current_step + 1]

\* Faulty variant of advance: the chain completes one step late.
advanceTooFar(chain) ==
    IF chain.cancelled \/ chain.completed THEN chain
    ELSE [chain EXCEPT !.current_step = @ + 1,
                       !.completed = chain.current_step + 1 > Len(CHAIN)]

\* Faulty variant of advance: the step is not taken.
advanceNowhere(chain) ==
    IF chain.cancelled \/ chain.completed THEN chain
    ELSE [chain EXCEPT !.completed = chain.current_step + 1 >= Len(CHAIN)]

advance(chain) ==
    IF chain.cancelled \/ chain.completed THEN chain
    ELSE [chain EXCEPT !.current_step = @ + 1,
                       !.completed = chain.current_step + 1 >= Len(CHAIN)]

Init ==
    /\ pool = [idx \in Slots |-> OrderChain(idx)]
    /\ last_sent = [idx \in Slots |-> "none"]
    /\ orders = PoolSize
    /\ emitted = <<>>

-----------------------------------------------------------------------------
Emit(idx, type, duplicate) ==
    /\ Len(emitted) < MaxEvents
    /\ emitted' = Append(emitted, [order_id |-> pool[idx].order_id,
                                   event_type |-> type, duplicate |-> duplicate])

replace_chain(idx) ==
    /\ orders < MaxOrders
    /\ orders' = orders + 1
    /\ pool' = [pool EXCEPT ![idx] = OrderChain(orders + 1)]

\* A duplicate: what the slot emitted last, for the order that is in it now.
Duplicate(idx) ==
    /\ last_sent[idx] # "none"
    /\ Emit(idx, last_sent[idx], TRUE)
    /\ UNCHANGED <<pool, last_sent, orders>>

\* Faulty variant of Cancel: the cancelled order keeps its slot.
CancelKeepsSlot(idx) ==
    /\ next_event_type(pool[idx]) # "order_delivered"
    /\ Emit(idx, "order_cancelled", FALSE)
    /\ last_sent' = [last_sent EXCEPT ![idx] = "order_cancelled"]
    /\ UNCHANGED <<pool, orders>>

\* The order is cancelled in place of its next event, and gives up its slot.
Cancel(idx) ==
    /\ next_event_type(pool[idx]) # "order_delivered"
    /\ Emit(idx, "order_cancelled", FALSE)
    /\ last_sent' = [last_sent EXCEPT ![idx] = "order_cancelled"]
    /\ replace_chain(idx)

\* Faulty variant of Progress: the slot's last event outlives the order.
ProgressKeepsLast(idx) ==
    /\ Emit(idx, next_event_type(pool[idx]), FALSE)
    /\ IF advance(pool[idx]).completed
         THEN replace_chain(idx)
         ELSE /\ pool' = [pool EXCEPT ![idx] = advance(@)]
              /\ UNCHANGED orders
    /\ last_sent' = [last_sent EXCEPT ![idx] = next_event_type(pool[idx])]

\* The next event of the chain; the last one frees the slot and its memory.
Progress(idx) ==
    /\ Emit(idx, next_event_type(pool[idx]), FALSE)
    /\ IF advance(pool[idx]).completed
         THEN /\ replace_chain(idx)
              /\ last_sent' = [last_sent EXCEPT ![idx] = "none"]
         ELSE /\ pool' = [pool EXCEPT ![idx] = advance(@)]
              /\ last_sent' = [last_sent EXCEPT ![idx] = next_event_type(pool[idx])]
              /\ UNCHANGED orders

\* A chain without a next event is replaced and nothing is emitted.
generate_next(idx) ==
    IF next_event_type(pool[idx]) = "none"
      THEN replace_chain(idx) /\ UNCHANGED <<last_sent, emitted>>
      ELSE Duplicate(idx) \/ Cancel(idx) \/ Progress(idx)

Next == \E idx \in Slots : generate_next(idx)

Spec == Init /\ [][Next]_vars

-----------------------------------------------------------------------------
(* Properties.                                                             *)

\* Type invariant.
TypeOK ==
    /\ pool \in [Slots -> [order_id : 1 .. MaxOrders, current_step : 0 .. Len(CHAIN) - 1,
                           cancelled : BOOLEAN, completed : BOOLEAN]]
    /\ last_sent \in [Slots -> EventTypes \cup {"none"}]
    /\ orders \in PoolSize .. MaxOrders
    /\ emitted \in Seq([order_id : 1 .. MaxOrders, event_type : EventTypes,
                        duplicate : BOOLEAN])

\* Event n is of the given type and of the same order as event m.
SameOrder(m, n) == emitted[m].order_id = emitted[n].order_id

\* An event of the chain is emitted for an order only after the one before it in
\* CHAIN: no repetition of a slot's last event makes an order skip a step.
ChainInOrder ==
    \A n \in DOMAIN emitted : \A i \in 2 .. Len(CHAIN) :
        emitted[n].event_type = CHAIN[i] =>
            \E m \in 1 .. n - 1 : SameOrder(m, n) /\ emitted[m].event_type = CHAIN[i - 1]

\* Nothing is emitted for an order after its own cancellation or its delivery,
\* not even a duplicate.
NothingAfterTheEnd ==
    \A m, n \in DOMAIN emitted :
        m < n /\ SameOrder(m, n) =>
            /\ emitted[m].event_type # "order_delivered"
            /\ emitted[m].event_type = "order_cancelled" => emitted[m].duplicate

\* Apart from marked duplicates an order emits every event type at most once, and
\* only while a slot holds it: it does not come back after its slot moved on.
FreshEventsAreUnique ==
    \A m, n \in DOMAIN emitted :
        /\ SameOrder(m, n) /\ emitted[m].event_type = emitted[n].event_type
        /\ ~emitted[m].duplicate /\ ~emitted[n].duplicate
        => m = n

-----------------------------------------------------------------------------
(* What the documentation says of the generator and the code does not do.  *)

\* docs/logic.md:218, a duplicate sends the last event of the same order again.
DuplicateRepeatsItsOrder ==
    \A n \in DOMAIN emitted : emitted[n].duplicate =>
        \E m \in 1 .. n - 1 :
            SameOrder(m, n) /\ emitted[m].event_type = emitted[n].event_type
=============================================================================
