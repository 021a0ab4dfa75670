---------------------------- MODULE EventOutbox -----------------------------
(***************************************************************************)
(* What the producer promises to the services behind it: an event reaches  *)
(* the topic only after it was stored, and it is confirmed (and so never   *)
(* looked at again) only after it reached the topic.  How often a record   *)
(* is written, by whom, and what fails in between is of no concern here.   *)
(***************************************************************************)

CONSTANT Ids          \* the events

VARIABLES
    accepted,         \* stored events
    delivered,        \* events with at least one record on the topic
    confirmed         \* events known to be delivered

outbox == <<accepted, delivered, confirmed>>

Init ==
    /\ accepted = {}
    /\ delivered = {}
    /\ confirmed = {}

Accept(e) ==
    /\ accepted' = accepted \cup {e}
    /\ UNCHANGED <<delivered, confirmed>>

Deliver(e) ==
    /\ e \in accepted
    /\ delivered' = delivered \cup {e}
    /\ UNCHANGED <<accepted, confirmed>>

Confirm(e) ==
    /\ e \in delivered
    /\ confirmed' = confirmed \cup {e}
    /\ UNCHANGED <<accepted, delivered>>

Next == \E e \in Ids : Accept(e) \/ Deliver(e) \/ Confirm(e)

Spec == Init /\ [][Next]_outbox
=============================================================================
