-------------------------- MODULE MCProducerOutbox --------------------------
(* Small instances of ProducerOutbox for TLC. *)
EXTENDS ProducerOutbox

CONSTANTS e1, e2,   \* events
          o1        \* the order they both belong to

TwoEvents  == {e1, e2}
TwoOrderOf == [e \in TwoEvents |-> o1]
=============================================================================
