----------------------------- MODULE MCQueueStats -----------------------------
(* Two jobs; a monitor pass and a first refresh without the lock.  The retained
   counts meet the application's removals, the throughput history the late commits. *)
EXTENDS QueueStats, TLC

CONSTANTS j1, j2, m, r

Symmetry == Permutations(Jobs)

Retained == [persistQueueStats |-> FALSE, counters |-> {m}, walks |-> TRUE, deletionSeconds |-> 1,
             maxTime |-> 3, maxFaults |-> 0, removers |-> {}]
Removals == [Retained EXCEPT !.removers = {"delete", "resume"}]
Failures == [Removals EXCEPT !.counters = {}, !.maxFaults = 1]
Truncates == [Retained EXCEPT !.removers = {"truncate"}]
Overlaps == [Retained EXCEPT !.counters = {m, r}]
History == [Retained EXCEPT !.persistQueueStats = TRUE, !.walks = FALSE, !.deletionSeconds = 4,
                            !.maxTime = 5, !.maxFaults = 1, !.removers = {"delete"}]
AllSetups == {Removals, Failures, Truncates, Overlaps, History}

===============================================================================
