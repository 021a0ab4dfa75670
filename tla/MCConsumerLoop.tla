--------------------------- MODULE MCConsumerLoop ---------------------------
(* Small instances of ConsumerLoop for TLC. *)
EXTENDS ConsumerLoop

CONSTANTS c1, c2,   \* replicas
          p1, p2,   \* partitions
          k1        \* an idempotency key

OneReplica    == {c1}
TwoReplicas   == {c1, c2}
OnePartition  == {p1}
TwoPartitions == {p1, p2}
OneKey        == {k1}
=============================================================================
