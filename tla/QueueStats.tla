------------------------------ MODULE QueueStats ------------------------------
(***************************************************************************)
(* One queue's counts of finished jobs: retained_count and its watermark   *)
(* retained_on, and the throughput windows of queue_stats.  Five writers   *)
(* share them: the retention walk, which counts what it keeps; the monitor *)
(* aggregate and the forced refresh, which add what finished since; the    *)
(* deletes and resume(), which take off what they removed in a second      *)
(* statement; and the truncate.  None of them locks out the others.        *)
(*                                                                         *)
(* A completion is stamped when its transaction begins and visible when it *)
(* commits.  `dirty', walk.clean and `caught' are ghosts: they record the  *)
(* overlaps the code leaves to the next maintenance pass.                  *)
(***************************************************************************)
EXTENDS Integers, Sequences, FiniteSets, FiniteSetsExt

CONSTANTS
    Jobs,
    Counters,       \* the statements that aggregate: monitor passes and refreshes
    Unlocked,       \* those that take no try-lock: a first capture
    Lag,            \* DELTA_LAG
    Setups,         \* configurations, see QueueStatsAssumption
    Null

ASSUME QueueStatsAssumption ==
    /\ IsFiniteSet(Jobs) /\ IsFiniteSet(Counters) /\ Unlocked \subseteq Counters
    /\ Lag \in Nat \ {0}
    /\ Null \notin Int
    /\ Setups \subseteq [persistQueueStats : BOOLEAN, counters : SUBSET Counters, walks : BOOLEAN,
                          deletionSeconds : Nat, maxTime : Nat, maxFaults : Nat,
                          removers : SUBSET {"delete", "resume", "truncate"}]

VARIABLES
    setup,      \* persistQueueStats, deletion_seconds, the counters there are, whether the
                \* maintenance interval ends within the run, what the application calls;
                \* and two bounds: the clock, and the statements that fail
    now,
    job,        \* [state, stamp]: live, finishing (stamped, not committed), done, gone
    retained,   \* retained_count, retained_on; `by' keeps two instants of a tick apart
    walk,       \* the retention walk of a maintenance pass
    count,      \* per counter, the aggregate in flight
    remove,     \* a delete or resume, and the jobs it has to take off
    truncated,  \* when the table was truncated, until the counts are zeroed
    captured,   \* monitor_on: the counts have been written
    delta,      \* the queue row's window: delta_on, its count, whether it began afresh
    stats,      \* queue_stats: [on, n, first] per snapshot
    faults,
    dirty, caught   \* ghosts

jobVars == <<now, job>>
vars == <<setup, jobVars, retained, walk, count, remove, truncated, captured, delta, stats, faults, dirty, caught>>

NoWalk == [on |-> FALSE, before |-> 0, left |-> {}, kept |-> 0, held |-> 0, clean |-> FALSE, last |-> -1]
NoCount == [pc |-> "idle", from |-> <<Null, Null>>, since |-> 0, end |-> 0, n |-> 0, first |-> FALSE, short |-> FALSE,
            seen |-> FALSE]
NoRemove == [pc |-> "idle", held |-> 0]

Init ==
    /\ setup \in Setups
    /\ now = 0
    /\ job = [j \in Jobs |-> [state |-> "live", stamp |-> -1]]
    /\ retained = [count |-> Null, on |-> Null, by |-> Null]
    /\ walk = NoWalk /\ count = [c \in Counters |-> NoCount]
    /\ remove = NoRemove /\ truncated = Null
    /\ captured = FALSE
    /\ delta = [on |-> Null, n |-> 0, first |-> FALSE] /\ stats = << >> /\ faults = 0
    /\ dirty = FALSE /\ caught = 0

-----------------------------------------------------------------------------
(* The jobs, and time *)

Done(S) == {j \in S : job[j].state = "done"}
UpTo(t) == {j \in Done(Jobs) : job[j].stamp <= t}

\* Finished by the queue's retained_on, which is null before the first walk.
Held(S) == IF retained.on = Null THEN {} ELSE S \intersect UpTo(retained.on)

Counting == \E c \in Counters : count[c].pc = "apply"

\* The passes in flight have read the table before this.
Unseen == [c \in Counters |-> [count[c] EXCEPT !.seen = FALSE]]

Tick ==
    /\ now < setup.maxTime /\ now' = now + 1
    /\ UNCHANGED <<setup, job, retained, walk, count, remove, truncated, captured, delta, stats, faults, dirty, caught>>

\* A transaction that will complete or cancel j begins.
Finish(j) ==
    /\ job[j].state = "live"
    /\ job' = [job EXCEPT ![j] = [state |-> "finishing", stamp |-> now]]
    /\ UNCHANGED <<setup, now, retained, walk, count, remove, truncated, captured, delta, stats, faults, dirty, caught>>

\* It commits: in time, or after a pass may have counted past its stamp.
Commit(j) ==
    LET late == now - job[j].stamp >= Lag IN
    /\ job[j].state = "finishing"
    /\ job' = [job EXCEPT ![j].state = "done"]
    /\ dirty' = (dirty \/ late) /\ walk' = [walk EXCEPT !.clean = @ /\ ~late]
    /\ caught' = IF late THEN 0 ELSE caught
    /\ count' = IF late THEN Unseen ELSE count
    /\ UNCHANGED <<setup, now, retained, remove, truncated, captured, delta, stats, faults>>

-----------------------------------------------------------------------------
(* The retention walk of #maintainQueue *)

\* A pass reads the time; passes are a maintenance interval apart.
WalkStart ==
    /\ setup.walks /\ ~walk.on /\ walk.last < now /\ truncated = Null
    /\ walk' = [on |-> TRUE, before |-> now - Lag, left |-> Jobs, kept |-> 0, held |-> 0,
                clean |-> remove.pc = "idle", last |-> now]
    /\ UNCHANGED <<setup, jobVars, retained, count, remove, truncated, captured, delta, stats, faults, dirty, caught>>

\* One batch of deletion(): the expired jobs among the next keys go, and it returns how
\* many of those retained_count holds and how many it kept.
WalkBatch(j) ==
    LET expired == {k \in {j} : k \in Done(Jobs) /\ job[k].stamp + setup.deletionSeconds < now} IN
    /\ walk.on /\ j \in walk.left
    /\ job' = [k \in Jobs |-> IF k \in expired THEN [job[k] EXCEPT !.state = "gone"] ELSE job[k]]
    /\ walk' = [walk EXCEPT !.left = @ \ {j}, !.held = @ + Cardinality(Held(expired)),
                            !.kept = @ + Cardinality(({j} \ expired) \intersect UpTo(walk.before))]
    /\ dirty' = (dirty \/ (expired # {} /\ Counting))
    /\ UNCHANGED <<setup, now, retained, count, remove, truncated, captured, delta, stats, faults, caught>>

\* setRetainedCount, once the whole queue is covered.
SetRetained ==
    /\ walk.on /\ walk.left = {}
    /\ retained' = [count |-> walk.kept, on |-> walk.before, by |-> "walk"]
    /\ dirty' = ~(walk.clean /\ remove.pc = "idle") /\ walk' = [NoWalk EXCEPT !.last = walk.last]
    /\ UNCHANGED <<setup, jobVars, count, remove, truncated, captured, delta, stats, faults, caught>>

Less(n) == IF retained.count = Null THEN Null ELSE IF retained.count < n THEN 0 ELSE retained.count - n

\* A stop or a failed batch: only what the walk deleted comes off, unless that fails too.
WalkCut(fails) ==
    /\ walk.on /\ walk.left # {} /\ faults < setup.maxFaults /\ faults' = faults + 1
    /\ retained' = [retained EXCEPT !.count = IF fails THEN @ ELSE Less(walk.held)]
    /\ dirty' = (dirty \/ fails) /\ walk' = [NoWalk EXCEPT !.last = walk.last]
    /\ UNCHANGED <<setup, jobVars, count, remove, truncated, captured, delta, stats, caught>>

-----------------------------------------------------------------------------
(* The aggregate of a monitor pass, and of a forced refresh *)

Between(a, b) == {j \in Done(Jobs) : a <= job[j].stamp /\ job[j].stamp < b}

\* The windows a true-up may revise: those past the anchor, the first counted pass, and
\* inside the retention; with what they hold.
Anchor ==
    LET firsts == {k \in DOMAIN stats : stats[k].first}
        inside == {k \in DOMAIN stats : stats[k].on >= now - setup.deletionSeconds}
        horizon == IF firsts = {} THEN Min({stats[k].on : k \in DOMAIN stats})
                   ELSE Max({stats[k].on : k \in firsts})
        floor == Min({stats[k].on : k \in inside})
    IN  IF inside = {} THEN Null ELSE IF floor > horizon THEN floor ELSE horizon
Top == stats[Len(stats)].on
Windows == IF Anchor = Null THEN {} ELSE {k \in DOMAIN stats : stats[k].on > Anchor}
Settled == FoldSet(LAMBDA k, n : n + stats[k].n, 0, Windows)

\* The aggregate reads its snapshot: what finished since the watermark, up to the lagged
\* end, and with throughput what finished in the window, and whether the recorded
\* windows have fallen short.  Counted passes are a monitor interval apart.
Aggregate(c) ==
    LET end == now - Lag
        counts == setup.persistQueueStats /\ c \notin Unlocked
    IN
    /\ c \in setup.counters /\ count[c].pc = "idle" /\ truncated = Null
    /\ IF c \in Unlocked THEN ~captured ELSE \A d \in Counters \ Unlocked : count[d].pc # "apply"
    /\ counts /\ delta.on # Null => delta.on < end
    /\ count' = [count EXCEPT ![c] =
          [pc |-> "apply", from |-> <<retained.on, retained.by>>, end |-> end,
           since |-> IF retained.on = Null THEN 0 ELSE Cardinality(UpTo(end) \ UpTo(retained.on)),
           n |-> IF counts /\ delta.on # Null THEN Cardinality(Between(delta.on, end)) ELSE 0,
           first |-> delta.on = Null,
           short |-> counts /\ Windows # {} /\ Cardinality(Between(Anchor, Top)) > Settled, seen |-> counts]]
    /\ UNCHANGED <<setup, jobVars, retained, walk, remove, truncated, captured, delta, stats, faults, dirty, caught>>

Later(a, b) == IF a = Null \/ a < b THEN b ELSE a

\* Mutant: what was counted is added whatever the watermark is now.
StillCounted(c) == TRUE

\* The watermark is still the one that was counted from.
Counted(c) == <<retained.on, retained.by>> = count[c].from

\* retainedAssignments: the finished jobs are added and the watermark moves up to the end,
\* never back.
RetainedAssignments(c) ==
    IF Counted(c) /\ retained.on # Null
    THEN [count |-> retained.count + count[c].since, on |-> Later(retained.on, count[c].end),
          by |-> IF count[c].end > retained.on THEN c ELSE retained.by]
    ELSE retained

\* cacheQueueStats, the update of the queue row: the counts, and the window's end if the
\* history is kept.
CacheStats(c) ==
    /\ count[c].pc = "apply" /\ c \notin Unlocked
    /\ retained' = RetainedAssignments(c)
    /\ IF setup.persistQueueStats
       THEN /\ delta' = [on |-> Later(delta.on, count[c].end), n |-> count[c].n, first |-> count[c].first]
            /\ count' = [count EXCEPT ![c].pc = "insert"]
       ELSE UNCHANGED delta /\ count' = [count EXCEPT ![c] = NoCount]
    /\ captured' = TRUE
    /\ UNCHANGED <<setup, jobVars, walk, remove, truncated, stats, faults, dirty, caught>>

\* refreshQueueStats for a first capture: the counts alone.  Later refreshes take the
\* lock, and do what CacheStats does without a history.
RefreshStats(c) ==
    /\ count[c].pc = "apply" /\ c \in Unlocked
    /\ retained' = RetainedAssignments(c)
    /\ count' = [count EXCEPT ![c] = NoCount]
    /\ captured' = TRUE
    /\ UNCHANGED <<setup, jobVars, walk, remove, truncated, delta, stats, faults, dirty, caught>>

\* Ghost: the passes, up to two, that began and ended since the last disturbance.
PassesSince(c) == IF count[c].seen /\ caught < 2 THEN caught + 1 ELSE caught

\* insertQueueStats copies the queue row, in a statement of its own; its failure ends
\* the pass.
InsertStats(c, fails) ==
    /\ count[c].pc = "insert"
    /\ fails => faults < setup.maxFaults
    /\ faults' = IF fails THEN faults + 1 ELSE faults
    /\ stats' = IF fails THEN stats ELSE Append(stats, delta)
    /\ count' = IF fails THEN [Unseen EXCEPT ![c] = NoCount]
                ELSE [count EXCEPT ![c] = IF @.short THEN [@ EXCEPT !.pc = "trueUp"] ELSE NoCount]
    /\ caught' = IF fails THEN 0 ELSE IF count[c].short THEN caught ELSE PassesSince(c)
    /\ UNCHANGED <<setup, jobVars, retained, walk, remove, truncated, captured, delta, dirty>>

\* The window of a snapshot runs from the end of the one before it.
WindowStart(k) == IF k = 1 THEN 0 ELSE stats[k - 1].on

\* Counters only rise: retention removes rows a window already counted.
Raised(k) ==
    LET n == Cardinality(Between(WindowStart(k), stats[k].on)) IN IF n > stats[k].n THEN n ELSE stats[k].n

\* Mutant: the true-up puts what is missing on the newest snapshot alone.
TrueUpNewest(c) ==
    /\ count[c].pc = "trueUp"
    /\ stats' = [k \in DOMAIN stats |-> IF k = Len(stats) THEN [stats[k] EXCEPT !.n = Raised(k)] ELSE stats[k]]
    /\ count' = [count EXCEPT ![c] = NoCount]
    /\ caught' = PassesSince(c)
    /\ UNCHANGED <<setup, jobVars, retained, walk, remove, truncated, captured, delta, faults, dirty>>

\* trueUpQueueStats: a recount of the windows that may be revised.
TrueUp(c) ==
    /\ count[c].pc = "trueUp"
    /\ stats' = [k \in DOMAIN stats |-> IF k \in Windows THEN [stats[k] EXCEPT !.n = Raised(k)] ELSE stats[k]]
    /\ count' = [count EXCEPT ![c] = NoCount]
    /\ caught' = PassesSince(c)
    /\ UNCHANGED <<setup, jobVars, retained, walk, remove, truncated, captured, delta, faults, dirty>>

-----------------------------------------------------------------------------
(* deleteJob() and the bulk deletes, resume(), and the truncate *)

\* The statement: it tells how many of its jobs retained_count holds.
RemoveJob(j, op) ==
    /\ op \in setup.removers /\ remove.pc = "idle" /\ job[j].state = "done"
    /\ job' = [job EXCEPT ![j] = IF op = "delete" THEN [@ EXCEPT !.state = "gone"]
                                 ELSE [state |-> "live", stamp |-> -1]]
    /\ remove' = [pc |-> "reduce", held |-> Cardinality(Held({j}))]
    /\ dirty' = (dirty \/ walk.on \/ Counting) /\ walk' = [walk EXCEPT !.clean = FALSE]
    /\ UNCHANGED <<setup, now, retained, count, truncated, captured, delta, stats, faults, caught>>

\* reduceRetainedCount; a failure is only reported.
Reduce(fails) ==
    /\ remove.pc = "reduce" /\ (fails => faults < setup.maxFaults)
    /\ faults' = IF fails THEN faults + 1 ELSE faults
    /\ retained' = [retained EXCEPT !.count = IF fails THEN @ ELSE Less(remove.held)]
    /\ dirty' = (dirty \/ fails) /\ walk' = [walk EXCEPT !.clean = FALSE] /\ remove' = NoRemove
    /\ UNCHANGED <<setup, jobVars, count, truncated, captured, delta, stats, caught>>

\* deleteAllJobs on a table of its own: the truncate waits for what holds the table.
Truncate ==
    /\ "truncate" \in setup.removers /\ truncated = Null /\ ~Counting
    /\ \A j \in Jobs : job[j].state # "finishing"
    /\ job' = [j \in Jobs |-> IF job[j].state = "done" THEN [job[j] EXCEPT !.state = "gone"] ELSE job[j]]
    /\ truncated' = now
    /\ dirty' = (dirty \/ walk.on) /\ walk' = [walk EXCEPT !.clean = FALSE]
    /\ UNCHANGED <<setup, now, retained, count, remove, captured, delta, stats, faults, caught>>

\* zeroQueueStats: right away, or so late that a completion since is past the watermark.
Zero ==
    /\ truncated # Null
    /\ retained' = [count |-> 0, on |-> now - Lag, by |-> "zero"]
    /\ dirty' = (walk.on \/ remove.pc # "idle" \/ now - truncated >= Lag)
    /\ walk' = [walk EXCEPT !.clean = FALSE]
    /\ truncated' = Null /\ captured' = TRUE
    /\ UNCHANGED <<setup, jobVars, count, remove, delta, stats, faults, caught>>

Next ==
    \/ Tick \/ (\E j \in Jobs : Finish(j) \/ Commit(j) \/ WalkBatch(j))
    \/ WalkStart \/ SetRetained \/ (\E fails \in BOOLEAN : WalkCut(fails) \/ Reduce(fails))
    \/ \E c \in Counters : \/ Aggregate(c) \/ CacheStats(c) \/ RefreshStats(c) \/ TrueUp(c)
                           \/ \E fails \in BOOLEAN : InsertStats(c, fails)
    \/ \E j \in Jobs, op \in {"delete", "resume"} : RemoveJob(j, op)
    \/ Truncate \/ Zero

Spec == Init /\ [][Next]_vars

-----------------------------------------------------------------------------
(* Properties *)

\* retained_count holds every completed and cancelled job that finished by retained_on
\* exactly once, but for the removals whose second statement is on its way.  Walks,
\* monitor passes and refreshes overlap freely; what the code leaves to the next full
\* walk (a removal that overlaps one of them, a lost second statement, a transaction
\* longer than the lag) is in `dirty', and a walk on its own makes it right again.
RetainedExact ==
    ~dirty /\ truncated = Null /\ retained.count # Null =>
        retained.count = Cardinality(UpTo(retained.on)) + remove.held + walk.held

\* No snapshot of queue_stats says more than finished in its window: a window starts
\* where the last one ended, so a job falls in one window, whatever passes were skipped
\* or whose insert was lost.
NeverCountedTwice ==
    \A k \in DOMAIN stats :
        stats[k].n <= Cardinality({j \in Jobs : /\ job[j].state \in {"done", "gone"}
                                                /\ WindowStart(k) <= job[j].stamp
                                                /\ job[j].stamp < stats[k].on})

\* Two passes after a late commit or a lost insert, no job that finished inside the
\* recorded windows and is still there is missing from them: the check that rides on
\* the aggregate sees the shortfall and the true-up raises the right snapshot.
HistoryCaughtUp ==
    caught = 2 => \A k \in Windows : stats[k].n >= Cardinality(Between(WindowStart(k), stats[k].on))

\* The persisted history is right from both sides: never above what happened, and, when
\* nothing is on its way, not below what is still there.
HistoryExact == NeverCountedTwice /\ HistoryCaughtUp

\* The counts on the queue row and the persisted history are both exact.
CountsExact == RetainedExact /\ HistoryExact
===============================================================================
