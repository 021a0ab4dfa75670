------------------------- MODULE NotificationLedger -------------------------
(***************************************************************************)
(* What the consumer promises to the users: a key (order_id, event_type)   *)
(* gets a notification only after a message with that key was sent, gets   *)
(* at most one, and keeps it.                                              *)
(***************************************************************************)
EXTENDS Naturals

CONSTANT Ids          \* idempotency keys

VARIABLES
    requested,        \* keys with a message on the topic
    rows              \* notifications of every key

ledger == <<requested, rows>>

Init ==
    /\ requested = {}
    /\ rows = [k \in Ids |-> 0]

Request(k) ==
    /\ requested' = requested \cup {k}
    /\ UNCHANGED rows

Notify(k) ==
    /\ k \in requested
    /\ rows[k] = 0
    /\ rows' = [rows EXCEPT ![k] = 1]
    /\ UNCHANGED requested

Next == \E k \in Ids : Request(k) \/ Notify(k)

Spec == Init /\ [][Next]_ledger
=============================================================================
