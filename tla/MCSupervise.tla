------------------------------ MODULE MCSupervise ------------------------------
(* Two instances: both are configured to rebuild indexes, and a's adapter cannot.
   The setups look at the maintenance claims of two queues, at one queue's expiry
   under the backoff, and at the rebuild. *)
EXTENDS Supervise

CONSTANTS a, b, q1, q2, j1, j2, j3

MCQueueOf == [j \in Jobs |-> q1]
MCSweepOf == [j \in Jobs |-> IF j = j3 THEN "heartbeats" ELSE "timeouts"]

Claims == [queues |-> {q1, q2}, intervals |-> {"maintain"}, monitorVacuum |-> FALSE,
           maxFaults |-> 2, maxCalls |-> 0, calls |-> {}]
Expiry == [queues |-> {q1}, intervals |-> {"monitor"}, monitorVacuum |-> TRUE,
           maxFaults |-> 1, maxCalls |-> 0, calls |-> {}]
Rebuilds == [queues |-> {q1}, intervals |-> {"reindex"}, monitorVacuum |-> FALSE,
             maxFaults |-> 2, maxCalls |-> 1,
             calls |-> [scope : {{q1}}, reindex : {"off", "force"}]]
AllSetups == {Claims, Expiry, Rebuilds}
================================================================================
