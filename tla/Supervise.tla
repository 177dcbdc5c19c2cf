------------------------------- MODULE Supervise -------------------------------
(***************************************************************************)
(* The supervisor passes of boss.ts over the queues they share: the        *)
(* monitor claim and the stats lock, expiry in batches, the maintenance    *)
(* claim and its hand-back, the monitor backoff, and the index rebuild     *)
(* under the reindex claim.  Instances stop, start again, crash, and lose  *)
(* statements; the application calls supervise() beside the timer.         *)
(*                                                                         *)
(* A claim is a timestamp that is due again one interval later: the model  *)
(* keeps whose claim it is until the interval is over, and Due then.       *)
(* `unswept' and the owed and lapsed of inst[i] are ghosts that only the   *)
(* properties read.                                                        *)
(***************************************************************************)
EXTENDS Integers, FiniteSets, FiniteSetsExt

CONSTANTS
    Instances, Queues,
    Jobs,           \* jobs that outlive their expiry or their heartbeat
    QueueOf,        \* [Jobs -> Queues]
    SweepOf,        \* [Jobs -> Sweeps], the sweep that fails the job
    Rebuilders,     \* the instances configured to rebuild indexes
    Wrapped,        \* those whose adapter wraps every query in a transaction
    ExpiryBatch,    \* EXPIRY_BATCH_SIZE
    Setups,         \* configurations, see SuperviseAssumption
    Due, None       \* a claim that is due again; nobody

Sweeps == {"timeouts", "heartbeats"}

ASSUME SuperviseAssumption ==
    /\ IsFiniteSet(Instances) /\ IsFiniteSet(Queues) /\ IsFiniteSet(Jobs)
    /\ Instances \intersect {Due, None} = {} /\ Due # None
    /\ Rebuilders \subseteq Instances /\ Wrapped \subseteq Instances
    /\ QueueOf \in [Jobs -> Queues] /\ SweepOf \in [Jobs -> Sweeps]
    /\ ExpiryBatch \in Nat \ {0}
    /\ Setups \subseteq [queues : SUBSET Queues, intervals : SUBSET {"monitor", "maintain", "reindex"},
                          monitorVacuum : BOOLEAN, maxFaults : Nat, maxCalls : Nat,
                          calls : SUBSET [scope : SUBSET Queues, reindex : {"config", "off", "force"}]]

VARIABLES
    setup,      \* the queues there are; the intervals that end within the run; an option;
                \* the supervise() calls there may be; and two bounds: the faults (errors,
                \* crashes, stops, jobs that come to be late) and the calls
    monitorDue, \* the queues whose monitor_claim_on is an interval old
    maintain,   \* maintain_on per queue: the instance whose claim it is, or Due
    late,       \* the jobs past their expiry or without a heartbeat
    statsLock,  \* the holder of the queue-stats advisory lock
    backoff,    \* monitor_backoff_on is ahead of now
    reindexOn,  \* reindex_on: its claim is in force
    bloated,    \* some job index is bloated
    inst,       \* the instances, see Fresh
    faults, calls,
    unswept     \* ghost: queues that came due and have not been swept since

shared == <<setup, monitorDue, maintain, late, statsLock, backoff, reindexOn, bloated, unswept>>
vars == <<shared, inst, faults, calls>>

\* pc is "idle" unless #maintaining; scope and reindex are the pass's arguments; mine
\* the queues it claimed to monitor, todo those it claimed to maintain and has not
\* finished; elapsed: the aggregate took longer than the backoff's budget.
Fresh == [pc |-> "idle", life |-> "up", waiting |-> FALSE, scope |-> {}, reindex |-> "config",
          mine |-> {}, todo |-> {}, lapsed |-> {}, owed |-> {}, refresh |-> FALSE, elapsed |-> FALSE,
          unavailable |-> FALSE]

Init ==
    /\ setup \in Setups
    /\ monitorDue = IF "monitor" \in setup.intervals THEN setup.queues ELSE {}
    /\ maintain = [q \in Queues |-> IF "maintain" \in setup.intervals THEN Due ELSE None]
    /\ late = {j \in Jobs : QueueOf[j] \in monitorDue}
    /\ statsLock = None /\ backoff = FALSE /\ reindexOn = ("reindex" \notin setup.intervals)
    /\ bloated = ("reindex" \in setup.intervals)
    /\ inst = [i \in Instances |-> Fresh]
    /\ faults = 0 /\ calls = 0 /\ unswept = {q \in setup.queues : maintain[q] = Due}

-----------------------------------------------------------------------------
(* Time: each claim is due again one interval after its stamp *)

Elapse(q) ==
    \/ /\ "monitor" \in setup.intervals /\ q \notin monitorDue
       /\ monitorDue' = monitorDue \union {q}
       /\ UNCHANGED <<maintain, inst, unswept>>
    \/ /\ maintain[q] \in Instances
       /\ maintain' = [maintain EXCEPT ![q] = Due]
       /\ inst' = [i \in Instances |-> IF i = maintain[q] /\ q \in inst[i].todo
                                       THEN [inst[i] EXCEPT !.lapsed = @ \union {q}] ELSE inst[i]]
       /\ unswept' = unswept \union {q}
       /\ UNCHANGED monitorDue

\* The other two deadlines: monitor_backoff_on and the reindex claim.
Deadline ==
    \/ backoff /\ backoff' = FALSE /\ UNCHANGED reindexOn
    \/ "reindex" \in setup.intervals /\ reindexOn /\ reindexOn' = FALSE /\ UNCHANGED backoff

ClaimElapses(q) ==
    q \in setup.queues /\ Elapse(q) /\ UNCHANGED <<setup, late, statsLock, backoff, reindexOn, bloated, faults, calls>>
DeadlinePasses ==
    Deadline /\ UNCHANGED <<setup, monitorDue, maintain, late, statsLock, bloated, unswept, inst, faults, calls>>

-----------------------------------------------------------------------------
(* The steps of a pass *)

Become(i, r) == inst' = [inst EXCEPT ![i] = r]

\* The end of a pass: #maintaining is cleared and its locals are gone.
Over(r) == [r EXCEPT !.pc = "idle", !.scope = {}, !.reindex = "config", !.mine = {},
                     !.todo = {}, !.lapsed = {}, !.owed = {}, !.refresh = FALSE]

\* A pass is at step s, and #stopping is not set: the check before the statement.
At(i, s) == inst[i].pc = s /\ inst[i].life = "up"

\* #onSupervise: the timer's pass covers every queue, and is skipped beside another.
OnSupervise(i) ==
    /\ At(i, "idle")
    /\ Become(i, [inst[i] EXCEPT !.pc = "monitor", !.scope = setup.queues])
    /\ UNCHANGED <<shared, faults, calls>>

\* supervise() waits for the pass in flight, and looks at #stopping when it is over.
Supervise(i) ==
    /\ ~inst[i].waiting /\ calls < setup.maxCalls
    /\ calls' = calls + 1
    /\ Become(i, [inst[i] EXCEPT !.waiting = TRUE])
    /\ UNCHANGED <<shared, faults>>

SuperviseGoes(i) ==
    /\ inst[i].waiting /\ inst[i].pc = "idle"
    /\ \/ inst[i].life # "up" /\ Become(i, [inst[i] EXCEPT !.waiting = FALSE])
       \/ /\ inst[i].life = "up"
          /\ \E c \in setup.calls :
                Become(i, [inst[i] EXCEPT !.waiting = FALSE, !.pc = "monitor", !.scope = c.scope,
                                          !.reindex = c.reindex])
    /\ UNCHANGED <<shared, faults, calls>>

\* trySetQueueMonitorTime; refreshStats says whether a backoff is in force.
Monitor(i) ==
    LET due == inst[i].scope \intersect monitorDue IN
    /\ At(i, "monitor")
    /\ monitorDue' = monitorDue \ due
    /\ Become(i, [inst[i] EXCEPT !.mine = due, !.refresh = ~backoff,
                                 !.owed = {j \in late : QueueOf[j] \in due},
                                 !.pc = IF due = {} THEN "maintain" ELSE "stats"])
    /\ UNCHANGED <<setup, maintain, late, statsLock, backoff, reindexOn, bloated, unswept, faults, calls>>

\* Mutant: a backoff defers the whole pass, not the aggregate alone.
CacheStatsOrNothing(i) ==
    /\ At(i, "stats")
    /\ \/ /\ ~inst[i].refresh
          /\ Become(i, [inst[i] EXCEPT !.pc = "maintain"])
          /\ UNCHANGED <<monitorDue, statsLock>>
       \/ /\ inst[i].refresh /\ statsLock = None /\ statsLock' = i
          /\ Become(i, [inst[i] EXCEPT !.pc = "aggregate"])
          /\ UNCHANGED monitorDue
       \/ /\ inst[i].refresh /\ statsLock # None
          /\ monitorDue' = monitorDue \union inst[i].mine
          /\ Become(i, [inst[i] EXCEPT !.pc = "timeouts"])
          /\ UNCHANGED statsLock
    /\ UNCHANGED <<setup, maintain, late, backoff, reindexOn, bloated, unswept, faults, calls>>

\* cacheQueueStats: the aggregate runs under the try-lock; the loser clears the
\* claim, which is due again at once, and the pass goes on to expiry either way.
CacheStats(i) ==
    /\ At(i, "stats")
    /\ \/ /\ ~inst[i].refresh
          /\ Become(i, [inst[i] EXCEPT !.pc = "timeouts"])
          /\ UNCHANGED <<monitorDue, statsLock>>
       \/ /\ inst[i].refresh /\ statsLock = None /\ statsLock' = i
          /\ Become(i, [inst[i] EXCEPT !.pc = "aggregate"])
          /\ UNCHANGED monitorDue
       \/ /\ inst[i].refresh /\ statsLock # None
          /\ monitorDue' = monitorDue \union inst[i].mine
          /\ Become(i, [inst[i] EXCEPT !.pc = "timeouts"])
          /\ UNCHANGED statsLock
    /\ UNCHANGED <<setup, maintain, late, backoff, reindexOn, bloated, unswept, faults, calls>>

\* The aggregate ends, with the snapshots and their true-up; a stop does not cut it short.
AggregateEnds(i) ==
    /\ inst[i].pc = "aggregate"
    /\ statsLock' = None
    /\ \E slow \in BOOLEAN :
          Become(i, [inst[i] EXCEPT !.pc = "timeouts", !.elapsed = @ \/ slow])
    /\ UNCHANGED <<setup, monitorDue, maintain, late, backoff, reindexOn, bloated, unswept, faults, calls>>

\* One batch of failJobsByTimeout or failJobsByHeartbeat: repeated while it is full.
Expire(i, s) ==
    LET over == {j \in late : QueueOf[j] \in inst[i].mine /\ SweepOf[j] = s} IN
    /\ At(i, s)
    /\ \E S \in kSubset(IF Cardinality(over) < ExpiryBatch THEN Cardinality(over) ELSE ExpiryBatch, over) :
          /\ late' = late \ S
          /\ Become(i, [inst[i] EXCEPT !.pc = IF Cardinality(S) = ExpiryBatch THEN s
                                              ELSE IF s = "timeouts" THEN "heartbeats" ELSE "maintain"])
    /\ UNCHANGED <<setup, monitorDue, maintain, statsLock, backoff, reindexOn, bloated, unswept, faults, calls>>

\* trySetQueueDeletionTime: every queue that is due, in one statement.
Maintain(i) ==
    LET due == {q \in inst[i].scope : maintain[q] = Due} IN
    /\ At(i, "maintain")
    /\ maintain' = [q \in Queues |-> IF q \in due THEN i ELSE maintain[q]]
    /\ Become(i, [inst[i] EXCEPT !.todo = due, !.pc = IF due = {} THEN "tail" ELSE "walk"])
    /\ UNCHANGED <<setup, monitorDue, late, statsLock, backoff, reindexOn, bloated, unswept, faults, calls>>

\* #maintainQueue covered the whole queue.
MaintainQueue(i, q) ==
    /\ At(i, "walk") /\ q \in inst[i].todo
    /\ unswept' = unswept \ {q}
    /\ Become(i, [inst[i] EXCEPT !.todo = @ \ {q}, !.lapsed = @ \ {q},
                                 !.pc = IF inst[i].todo = {q} THEN "tail" ELSE "walk"])
    /\ UNCHANGED <<setup, monitorDue, maintain, late, statsLock, backoff, reindexOn, bloated, faults, calls>>

\* Mutant: the hand-back does not compare the stamp.
ReleaseAny(i) ==
    /\ inst[i].pc = "release"
    /\ maintain' = [q \in Queues |-> IF q \in inst[i].todo THEN Due ELSE maintain[q]]
    /\ Become(i, Over(inst[i]))
    /\ UNCHANGED <<setup, monitorDue, late, statsLock, backoff, reindexOn, bloated, unswept, faults, calls>>

\* Mutant: a null stamp is not due, the claim without its COALESCE.
ReleaseToNull(i) ==
    /\ inst[i].pc = "release"
    /\ maintain' = [q \in Queues |-> IF q \in inst[i].todo /\ maintain[q] = i THEN None ELSE maintain[q]]
    /\ Become(i, Over(inst[i]))
    /\ UNCHANGED <<setup, monitorDue, late, statsLock, backoff, reindexOn, bloated, unswept, faults, calls>>

\* releaseQueueDeletionTime: the claims the pass still has are due again, then the pass
\* is over, by the stop or by the error.
Release(i) ==
    /\ inst[i].pc = "release"
    /\ maintain' = [q \in Queues |-> IF q \in inst[i].todo /\ maintain[q] = i THEN Due ELSE maintain[q]]
    /\ Become(i, Over(inst[i]))
    /\ UNCHANGED <<setup, monitorDue, late, statsLock, backoff, reindexOn, bloated, unswept, faults, calls>>

\* #applyMonitorBackoff, the vacuum check and the retention of warnings, stats and
\* instances.
Tail(i) ==
    /\ At(i, "tail")
    /\ backoff' = (backoff \/ (inst[i].elapsed /\ setup.monitorVacuum))
    /\ Become(i, [inst[i] EXCEPT !.elapsed = FALSE, !.pc = "reindex"])
    /\ UNCHANGED <<setup, monitorDue, maintain, late, statsLock, reindexOn, bloated, unswept, faults, calls>>

\* Whether the pass is one that rebuilds: its options, and what the instance learned.
Rebuilding(i) ==
    /\ inst[i].reindex = "force" \/ (inst[i].reindex = "config" /\ i \in Rebuilders)
    /\ ~inst[i].unavailable

\* Mutant: a pass that can only report takes the shared claim too.
ReindexAlways(i) ==
    /\ At(i, "reindex")
    /\ \/ /\ inst[i].reindex # "force" /\ reindexOn
          /\ Become(i, Over(inst[i])) /\ UNCHANGED reindexOn
       \/ /\ inst[i].reindex = "force" \/ ~reindexOn
          /\ reindexOn' = (reindexOn \/ inst[i].reindex # "force")
          /\ Become(i, IF Rebuilding(i) /\ bloated THEN [inst[i] EXCEPT !.pc = "rebuild"] ELSE Over(inst[i]))
    /\ UNCHANGED <<setup, monitorDue, maintain, late, statsLock, backoff, bloated, unswept, faults, calls>>

\* #reindex: the shared claim is taken only by a pass that rebuilds, and not for a force;
\* then the detection.
Reindex(i) ==
    /\ At(i, "reindex")
    /\ \/ /\ ~Rebuilding(i) \/ (inst[i].reindex # "force" /\ reindexOn)
          /\ Become(i, Over(inst[i])) /\ UNCHANGED reindexOn
       \/ /\ Rebuilding(i) /\ (inst[i].reindex = "force" \/ ~reindexOn)
          /\ reindexOn' = (reindexOn \/ inst[i].reindex # "force")
          /\ Become(i, IF bloated THEN [inst[i] EXCEPT !.pc = "rebuild"] ELSE Over(inst[i]))
    /\ UNCHANGED <<setup, monitorDue, maintain, late, statsLock, backoff, bloated, unswept, faults, calls>>

\* REINDEX CONCURRENTLY; a 25001 tells the instance that it never can.
Rebuild(i) ==
    /\ At(i, "rebuild")
    /\ bloated' = (bloated /\ i \in Wrapped)
    /\ Become(i, [Over(inst[i]) EXCEPT !.unavailable = i \in Wrapped])
    /\ UNCHANGED <<setup, monitorDue, maintain, late, statsLock, backoff, reindexOn, unswept, faults, calls>>

\* A pass that finds #stopping set returns; from the walks it hands back its claims.
SeesStop(i) ==
    /\ inst[i].life # "up" /\ inst[i].pc \notin {"idle", "aggregate", "release"}
    /\ Become(i, IF inst[i].pc = "walk" THEN [inst[i] EXCEPT !.pc = "release"] ELSE Over(inst[i]))
    /\ UNCHANGED <<shared, faults, calls>>

\* A statement raises: from the walks the claims are handed back, and a failed
\* hand-back is only reported.
PassFails(i) ==
    /\ inst[i].pc # "idle" /\ faults < setup.maxFaults /\ faults' = faults + 1
    /\ statsLock' = IF statsLock = i THEN None ELSE statsLock
    /\ Become(i, IF inst[i].pc = "walk" THEN [inst[i] EXCEPT !.pc = "release"] ELSE Over(inst[i]))
    /\ UNCHANGED <<setup, monitorDue, maintain, late, backoff, reindexOn, bloated, unswept, calls>>

-----------------------------------------------------------------------------
(* The life of an instance, and its jobs *)

\* stop() sets #stopping and #stopped, then waits for #maintaining.
Stop(i) ==
    /\ inst[i].life = "up" /\ faults < setup.maxFaults /\ faults' = faults + 1
    /\ Become(i, [inst[i] EXCEPT !.life = "stopping"])
    /\ UNCHANGED <<shared, calls>>

StopReturns(i) ==
    /\ inst[i].life = "stopping" /\ inst[i].pc = "idle"
    /\ Become(i, [inst[i] EXCEPT !.life = "stopped"])
    /\ UNCHANGED <<shared, faults, calls>>

Start(i) ==
    /\ inst[i].life = "stopped"
    /\ Become(i, [inst[i] EXCEPT !.life = "up"])
    /\ UNCHANGED <<shared, faults, calls>>

\* The process dies and its session with it; a new one knows nothing.
Crash(i) ==
    /\ faults < setup.maxFaults /\ faults' = faults + 1
    /\ statsLock' = IF statsLock = i THEN None ELSE statsLock
    /\ Become(i, [Fresh EXCEPT !.life = "stopped"])
    /\ UNCHANGED <<setup, monitorDue, maintain, late, backoff, reindexOn, bloated, unswept, calls>>

\* Another job outlives its expiry.
Overdue(j) ==
    /\ "monitor" \in setup.intervals /\ j \notin late /\ faults < setup.maxFaults /\ faults' = faults + 1
    /\ late' = late \union {j}
    /\ inst' = [i \in Instances |-> [inst[i] EXCEPT !.owed = @ \ {j}]]
    /\ UNCHANGED <<setup, monitorDue, maintain, statsLock, backoff, reindexOn, bloated, unswept, calls>>

Step(i) ==
    \/ SuperviseGoes(i) \/ Monitor(i) \/ CacheStats(i) \/ AggregateEnds(i)
    \/ \E s \in Sweeps : Expire(i, s)
    \/ Maintain(i) \/ (\E q \in Queues : MaintainQueue(i, q)) \/ Release(i)
    \/ Tail(i) \/ Reindex(i) \/ Rebuild(i) \/ SeesStop(i)

\* What an instance does of its own accord: its timer, its pass, its stop; and a
\* deployment starts a process again that has stopped.
Run(i) == OnSupervise(i) \/ Step(i) \/ StopReturns(i) \/ Start(i)

Next ==
    \/ DeadlinePasses
    \/ \E q \in Queues : ClaimElapses(q)
    \/ \E i \in Instances : Run(i) \/ Supervise(i) \/ PassFails(i) \/ Stop(i) \/ Crash(i)
    \/ \E j \in Jobs : Overdue(j)

Spec == Init /\ [][Next]_vars

\* The timer fires again and again, the steps of a pass follow each other, and time
\* passes for every claim.
Fairness ==
    /\ \A i \in Instances : WF_vars(Run(i))
    /\ \A q \in Queues : WF_vars(ClaimElapses(q))
    /\ WF_vars(DeadlinePasses)

FairSpec == Spec /\ Fairness

-----------------------------------------------------------------------------
(* Properties *)

\* A pass between its steps, and what it carries.
Passes == [pc : {"idle", "monitor", "stats", "aggregate", "timeouts", "heartbeats", "maintain", "walk",
                 "release", "tail", "reindex", "rebuild"},
           life : {"up", "stopping", "stopped"}, waiting : BOOLEAN,
           scope : SUBSET Queues, reindex : {"config", "off", "force"},
           mine : SUBSET Queues, todo : SUBSET Queues, lapsed : SUBSET Queues, owed : SUBSET Jobs,
           refresh : BOOLEAN, elapsed : BOOLEAN, unavailable : BOOLEAN]

\* The type of the state: what the passes carry, and whose the claims can be.
TypeOK ==
    /\ setup \in Setups /\ monitorDue \subseteq Queues /\ unswept \subseteq Queues
    /\ maintain \in [Queues -> Instances \union {Due, None}]
    /\ late \subseteq Jobs /\ statsLock \in Instances \union {None}
    /\ backoff \in BOOLEAN /\ reindexOn \in BOOLEAN /\ bloated \in BOOLEAN
    /\ inst \in [Instances -> Passes]
    /\ faults \in 0 .. setup.maxFaults /\ calls \in 0 .. setup.maxCalls

\* A queue that comes due for retention is swept to its end, whatever passes stopped,
\* failed or died with a claim on it: the hand-back or the interval frees the claim.
EveryQueueSwept == \A q \in Queues : q \in unswept ~> q \notin unswept

\* A pass that gets past its sweeps has failed every job that was late when it claimed
\* the queue, in whatever batches, and whether a backoff deferred the stats aggregate,
\* the stats lock was lost, or neither.
ExpiryCompletes ==
    \A i \in Instances :
        inst[i].pc \in {"maintain", "walk", "release", "tail", "reindex", "rebuild"}
            => inst[i].owed \intersect late = {}

\* Two passes work on a queue's retention at once only when the claim of one has run
\* out: a pass that outlasted its interval never hands back the claim of another.
OneSweepPerClaim ==
    \A i, j \in Instances : i # j =>
        (inst[i].todo \ inst[i].lapsed) \intersect (inst[j].todo \ inst[j].lapsed) = {}

\* A bloated index is rebuilt as long as one instance can: those that only report
\* leave the claim of the rebuild window alone.
BloatRebuilt == bloated ~> ~bloated

\* A pass does all of its work, on claims it still has.
SweepsSound == ExpiryCompletes /\ OneSweepPerClaim

\* The work of the supervisor gets done in the end, whoever stops or fails on the way.
UpkeepDone == EveryQueueSwept /\ BloatRebuilt
===============================================================================
