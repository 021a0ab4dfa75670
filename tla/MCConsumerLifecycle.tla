------------------------ MODULE MCConsumerLifecycle -------------------------
(* A small instance of ConsumerLifecycle for TLC. *)
EXTENDS ConsumerLifecycle

NoneOneOrThree == {0, 1, 3}
=============================================================================
