-------------------------------- MODULE MCQueues -------------------------------
(* A main queue, its dead letter queue, one instance followed in detail and others. *)
EXTENDS Queues, TLC
================================================================================
