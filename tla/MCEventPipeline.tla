-------------------------- MODULE MCEventPipeline ---------------------------
(* Small instances of EventPipeline for TLC. *)
EXTENDS EventPipeline

CONSTANTS e1, e2,   \* events
          o1,       \* their order
          c1, c2    \* replicas

OneEvent    == {e1}
TwoEvents   == {e1, e2}
SameKey     == [e \in TwoEvents |-> <<o1, "order_paid">>]
OneReplica  == {c1}
TwoReplicas == {c1, c2}
=============================================================================
