------------------------------- MODULE MCWorker -------------------------------
(* Small instances of Worker for TLC. *)
EXTENDS Worker, TLC

CONSTANTS g1, j1, j2, w1, w2

\* Two jobs of one group, any other job without one.
PairInGroup == [j \in Jobs |-> IF j \in {j1, j2} THEN g1 ELSE NoGroup]

Setup(m, listen, retries, ws, starts, n) ==
    [mode |-> m, useListenNotify |-> listen, retryLimit |-> retries,
     workers |-> ws, maxStarts |-> starts, maxFaults |-> n]

\* Two workers with one fault or none, one worker with two.
AllSetups ==
    {Setup("transactional", FALSE, 0, {w1, w2}, 1, 1), Setup("transactional", FALSE, 1, {w1}, 1, 2),
     Setup("batch", TRUE, 0, {w1, w2}, 1, 0), Setup("batch", TRUE, 1, {w1}, 1, 1),
     Setup("perJob", FALSE, 0, {w1, w2}, 2, 0), Setup("perJob", FALSE, 1, {w1}, 2, 2)}
================================================================================
