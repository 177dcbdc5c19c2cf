# pg-boss: TLA+ models, checks and proofs

pg-boss is a job queue that keeps its jobs in Postgres tables. Any number of
instances (processes) work on the same tables; there is no coordinator. What one
instance does to a job is one SQL statement, and everything in between
(handlers, timers, decisions on rows already read) happens in processes that can
be slow, overlap or die. This directory models the parts of pg-boss in which
that matters, checks them with TLC on small instances, and proves the safety of
the central ones with TLAPS for every number of jobs, workers and instances.

All paths below are relative to `src/`, the root of the repository.
`PROJECT.json` holds the machine-readable side: components, runs, the lines each
definition models (`map`), a plausible bug for every property (`mutants`), the
hazards, and the theorems.

## 1. Inventory

### Components, their state and their operations

| component | state it keeps | operations | modules |
|---|---|---|---|
| Job claims and settles (`src/manager.ts`, `src/plans.ts`) | the job table: state, retry_count, retry_limit, started_on, completed_on, start_after, group_id | send, fetchNextJob, complete, fail, deadLetter, expiry, cancel, resume, retry, restore, delete, retention, give-back of excess claims | `JobClaims`, `Lease`, `JobClaimsLease` |
| Flows and Navigator (`src/navigator.ts`, `src/plans.ts`, `src/attorney.ts`) | blocked, blocking, pending_dependencies; job_dependency | flow and its check, resolveFlowJobs, cleanupDependencies, every job operation as it touches the flow columns | `Flow`, `FlowGraph` |
| Queue policies (`src/plans.ts`, `src/manager.ts`) | the partial unique indexes job_i1, i2, i3, i6, i8 | every statement that moves a row to another state and may be refused | `KeyPolicies` |
| Sends (`src/manager.ts`, `src/plans.ts`) | jobs before they start; the throttle slots of job_i4 | send, sendThrottled, sendDebounced, update, upsert | `Sends` |
| Worker loop (`src/worker.ts`, `#processJobs` in `src/manager.ts`), local group concurrency, Notifier (`src/notifier.ts`) | worker states, batches, slots in memory, the LISTEN connection | work, offWork, notify wake-ups, transactional batches, stop, failWip | `Worker` |
| Supervisor (`src/boss.ts`) | monitor_on, maintain_on, the reindex window; evidence about dead rows | supervise, monitor, expire, maintain, hand-back, reindex, vacuum check | `Supervise`, `Vacuum` |
| Statistics (`src/plans.ts`, `src/boss.ts`) | retained_count, retained_on, queue_stats | aggregate, refresh, deletes, truncate, snapshots, partitions, retention of the series | `QueueStats`, `History` |
| Queues, cache, dead letters (`src/manager.ts`, `src/plans.ts`) | queue table, one cache per instance, rows of two queues | createQueue, updateQueue, deleteQueue, heal, refresh, deadLetter, redrive | `Queues` |
| Background async migrations (`src/bam.ts`, `src/plans.ts`) | the bam table; indexes VALID, INVALID or absent; statements on the server | claim, probe, heal, run, verify, complete, fail, release, stop | `Bam` |
| Contractor, schema (`src/contractor.ts`, `src/migrationStore.ts`, `src/drifter.ts`, `src/cli.ts`) | version.version; tables, columns, functions, indexes | create, migrate, concurrent start, rollback, drift report | `Contractor`, `Schema` |
| Timekeeper (`src/timekeeper.ts`, `src/claimTimer.ts`, `src/rrule.ts`) | version.cron_on, the schedule table, a timer per instance, the send-it queue | claim a pass, read schedules, insert owed jobs, forward, last_job_id, read expressions | `Cron`, `SendIt`, `Recurrence` |
| Lifecycle (`src/index.ts`) | started, stopped, #startingPromise, #stoppingPromise | start, stop, attempts and back-off | `Lifecycle` (EXTENDS `Contractor`) |
| Instance registry (`src/registrar.ts`) | the instance table | register, beat, stop, count crashes, prune | `Registry` |
| Test clock (`src/clock.ts`) | #now, #timers, the clock row | tick, setTime, attach, release | `TestClock` |
| Lists (`src/manager.ts`, `packages/dashboard/app/lib/keyset.server.ts`) | cursors | findJobs, getInstances, getBamEntries, the dashboard's pages | `Lists` |
| Database access and adapters, reporting (nurse, warnings, telemetry, latency, activity), the proxy, most option checking | none that decides what happens to a job | - | not modelled |

### How they interact

Components share the database and almost nothing else. A worker claims a row and
settles it in a later statement; the supervisor expires rows it never claimed; a
Navigator reads what workers completed and changes what workers may fetch; the
Timekeeper files jobs on an internal queue that ordinary workers fetch; a
migration leaves index builds to the background runners. The interleavings of
these statements are the subject of the models. Inside one instance, callbacks
of timers and awaited queries interleave; where a decision is taken on something
read before an await (the group count, the give-back, the heal probe, the slot
of an occurrence, the cached table of a queue), the model makes the read and the
write two steps.

### What is hard, and what makes each part correct

`hazards` in `PROJECT.json` lists every such point at its line. In short:

* **Claims.** A claim is held across an unprotected gap. A settle must end the
  claim it belongs to and no other, group limits must hold although snapshots
  miss each other, retries must be counted exactly through every operation, and
  no crash may strand a job.
* **Flows.** A counter is maintained by several resolvers and by operations that
  replace rows: it must never be too low, and in the end zero.
* **Policies.** Fetch decides in a snapshot, an index decides at the update. The two
  must not leave a key stuck, out of order, or a job without a worker.
* **Sends.** Inserts and edits collide at commit, not when they are decided.
* **Workers.** Errors, timeouts, aborts and stops end a batch at any of its awaits;
  slots, wake-ups, transactions and active rows must be accounted for at each.
* **Upkeep.** Claims are timestamps; a pass that stops must neither keep nor lose
  them, and a sweep must have reached what was late when the claim was taken.
* **Statistics.** A completion is stamped when its transaction begins and seen when
  it commits; counts kept by deltas must come out as if they had been counted.
* **Queues.** Every statement names a table read from a cache that may be stale.
* **BAM.** DDL runs outside transactions and outlives its client. Completed must mean
  built, the old index must not go before the new one is there.
* **Schema.** Several releases install, migrate and roll back the same objects.
* **Cron.** Passes by whoever wins must not be further apart than the window they
  look back over, and must owe for an outage exactly what `missed` says.
* **Start and stop.** Calls come at any time, and each is answered truthfully.

## 2. Modules and how they correspond to the code

Every mapped definition, with its lines, is in `PROJECT.json` under `map`. In all
modules one action is one SQL statement, one stretch of code between two
awaits, or one fault. Variables that only properties read are called ghosts in
the modules' headers.

### JobClaims, Lease, JobClaimsLease

One queue; `row[j]` is what the job table stores for an id. A fetch is two steps:
`FetchSnapshot` (the candidate CTEs read their snapshot) and `FetchClaim` (FOR
UPDATE SKIP LOCKED and the UPDATE). The claim then goes through `CountGroup` (the
count after the commit, `#fetch`), and either runs or is given back (`GiveBack`,
with `restoreJobs`). A handler completes, fails, dead-letters, times out and may
overrun (`HandlerTimesOut`, `OverrunReturns`). Settles carry the fence of
`attemptFence`: id, state = active, retry_count = the attempt that was fetched.
`Expire` is expiry by time and by lost heartbeat. `Crash` drops what a worker knows
and leaves the row. Timestamps are reduced to what the SQL asks of them; expiry,
retention and delays are events that may happen at any moment. `token`, `claims`,
`resetAt` and `resumed` are ghosts that number claims.

`Lease` is the abstract specification: a job is open, leased or closed, a lease has
one holder, it is granted only on an open job, and a finish ends the worker's own
lease or nothing, except for workers made blind because attempts were renumbered
while they believed. `JobClaimsLease` gives the refinement mapping.

### Flow, FlowGraph

`flow()` inserts everything in one step. A resolve is two: `ResolveStart` locks
completed blocking parents (SKIP LOCKED passes over locked ones) and sees the
dependency rows and the children; `ResolveEnd` lowers the children it can still
lock and clears `blocking`. `ResolveAborts` is a lost connection. fail() deletes
and re-inserts a row: `version` tells a statement that saw the old row that it is
gone, as READ COMMITTED does. `FlowGraph` is `validateFlowJobs`: the topological
sort and, when that gets stuck, the depth-first search for the cycle to name.

### KeyPolicies

`IndexedStates` and `SameEntry` are the partial unique indexes; `Refused(j, s)` asks
whether moving row j to state s runs into one. send() and the retry half of fail()
fall back (ON CONFLICT DO NOTHING), the others raise 23505. The batch of a fetch
goes through `singleton_ranking` and is claimed or refused as a whole; `#giveBack`
retries refused ids one at a time. `created_on` is read when the sender's
transaction starts, so stamps need not appear in order. `Distributed` selects the
statements of backends without data-modifying CTEs. `keyOf` gives each job its
singleton_key, chosen at the start from `KeyChoices`; a job without a key and one with
the key '' are one to the indexes and two to the ranking (`IndexKey`).

### Sends

A call runs statement by statement; what its transaction wrote is its own until
`Commit`: a pending insert that others can only collide with, locked rows it
edited. `Debounce` computes the next slot from the caller's clock, `Matches` is the
choice of update() and upsert() among waiting jobs (oldest, newest, all), and
`UpsertInsert` is what upsert() does when nothing matched. `Fetch`, `Settle`
and `Sweep` are the worker and the retention beside it; a failed job waits again from
now plus its delay, with the keep_until it had (`Retried`). The caller's clock, corrected
by a skew read some time ago, may lag or run ahead (`ClockErrors`). Ghosts: `putOff`, how far
retries moved a row's start, and `timely`, whether the clock that computed a delay was within
what getDebounceStartAfter() allows for.

### Worker

`wk[w]` is a worker's place in the loop of `worker.ts` and in `#processJobs`, with its
batch. Handlers settle jobs one by one (`perJob`), as a batch, or inside a
transaction (`CompleteInTransaction`, `Commit`, `CommitAnswerLost`). `Enter` and
`Admits` are the in-memory slots of localGroupConcurrency, `RestoreExcess` their
give-back. `Stop`, `GraceEnds`, `FailWipFail`, `FailWipAbort` and `Close` are the
shutdown. Other instances claim, settle and expire the same rows
(`OtherClaims`, `OtherCompletes`, `Expire`). `FailWipErrors` makes fail() inside
failWip() fail, see section 6.

### Supervise, Vacuum

A claim on a queue's pass is whose claim it is until its interval is over
(`Elapse`). `Monitor`, `CacheStats`, `Expire` (in batches of `ExpiryBatch`), `Maintain`,
`Release` (the hand-back of claims a pass did not get to) and `Reindex` are the
statements of a pass; it looks for a stop between them. `late` are jobs past their
expiry, `owed` what of them a pass saw when it claimed. `Vacuum` is `#checkVacuum`:
dead rows, the horizon's holders and the evidence kept between two passes.

### QueueStats, History

`QueueStats` has one queue and every writer of its counts: the retention walk, the
aggregate with its DELTA_LAG, a forced refresh, deletes and resumes that take off
what they removed in a second statement, truncates. `Finish` stamps a completion,
`Commit` makes it visible. `History` is the persisted series: daily partitions made
ahead of midnight, snapshots, retention by partitions or in batches behind a
cursor, the buckets of getQueueStats() and the cached count that stands in for it.

### Queues

`table[n]` is the queue row's job table, `cache[i][n]` what an instance believes. Every
statement reads the cache first; an answer of the database is applied one step
after it was read. `InsertMissing`, `InsertWrongTable` and `Heal` are the write that
finds its table gone. deleteQueue() is its three statements (`CheckReferrer`,
`EmptyShared`, `Drop`). `Fail` copies to the dead letter queue, `Redrive` moves back
what the policy of the target admits. `Retry` takes any failed row, an original whose
copy was already made as well; the ghost `again` counts those. `Refreshes` are the
refreshes of one instance that may be under way at once: the interval waits for none.
Instances not followed are `Elsewhere`: their statements, at any moment.

### Bam

A runner's steps are its round trips. `queue[t]` holds the statements that have or
await table t's lock, in order; a statement whose client has gone stays there
(`Orphan`), because the server finishes it. `Begin`, `Succeed` and `Break` are
Postgres, modelled as external: CREATE INDEX CONCURRENTLY leaves an INVALID index
when it fails, and IF NOT EXISTS returns at once when the name exists. `Stale` is
the reclaim rule: past the grace window and no lock on the table. The ghost
`outrun` records that a live runner lost its claim or its connection; what may then
go wrong is in section 6, and the promises that need it are stated without it.

### Contractor, Schema

`Contractor` is `start()`'s schema step: probe, read the version, create or migrate
under the advisory lock, retry the check. `Schema` follows the objects: each
migration and each rollback is one step over sets of tables, columns, functions
and indexes, the async commands become `bam` rows or statements of the command
line, and the drift report (`Missing`, `Invalid`, `ExtraIndexes`, `FunctionDrift`,
`ColumnDrift`) judges the outcome.

### Cron, SendIt, Recurrence

`Cron`: discrete time with urgent timers. A pass is `OnCron` (with `trySetTimestamp` and
`ClaimRetryDelay`), `ReadSchedules` (due window, `MissedOccurrence`, the slot of each
occurrence) and `InsertOwed`, at most `Delay` later; `PassFails` and `ClaimFails` are
failed statements and stops. A schedule is a set of instants there. `SendIt` takes the
jobs filed from there: the kind label of schedules during a rolling upgrade, the
forwarding with send(), its retries and last_job_id. A batch's claim is lost when it
expires, when complete() raises and the batch is failed instead (`CompleteFails`), and when
it is failed under its running handler, by failWip() or the handler's time limit
(`FailRunning`); the ghost `losses` counts them. `Recurrence` reads an
expression: which lines toIcs() accepts, and that the backward search finds what
the forward walk lists.

### Lifecycle

EXTENDS `Contractor`: the schema step of a start is the Contractor's, beside peers
that start at the same time. `call[c]` is one call of start() or stop(); calls
share a start or a stop in flight and wait for the other kind. `StartOrder` and
`StopOrder` are the components in the order of `index.ts`. A stop is two steps
where a pass is in flight, `ComponentStop` and `PassWaitedFor`. Three ghosts record what the
code does not guard against (section 6): `halfway`, a start that failed in the
timekeeper and was not stopped; `over`, how often the manager was started over it;
`early`, a call made before one that waited had woken.

### Registry, TestClock, Lists

`Registry`: one process after another on a name and host, beside a sibling;
registration with its counts and their recounts, beats, pruning. A count is two
statements (`Recount` and `RecountAtAgain`, `CountAtStart` and `RecountAtStart`), of which either may fail; the
ghost `behind` holds the lives whose own count missed a row that went quiet between
the two, or whose recount failed. `TestClock`: tick()
and setTime() with what they await, timers, instances attaching and releasing.
`Lists`: one page read per step under changing rows, by value, by the row `after`
names, or by a row read ahead.

## 3. Runs

Several MC modules hold more than one specification. They run side by side without
touching each other: a variable `part` chooses at the start which one a behaviour
is about, and the others keep their initial values. `MCFlow` is Flow and FlowGraph,
`MCKeyPolicies` KeyPolicies, Lists, TestClock and Registry, `MCBam` Bam and Vacuum, `MCCron`
Cron, Recurrence and History, `MCLifecycle` Lifecycle and Schema, `MCSends` Sends and
SendIt. So the state space is the sum of the parts, not their product. In Worker,
Supervise and QueueStats a constant `Setups` lists several small configurations,
and Init picks one: each has the options and faults that one question needs.

| run | instance | checks |
|---|---|---|
| `claims` | 2 jobs of one group with limit 1, 2 workers, retry limit 1, 2 claims per job, cancel, resume, fail and restore | `FenceNamesOwnClaim`, `SettlesOwnClaimOnly`, `GroupLimitHolds`, `ImplementsLease` |
| `claim_liveness` | 2 jobs, one in a group of limit 2, 3 claims per job, retry, complete and delete; fair | `AttemptBudget`, `EveryJobSettles` |
| `flow` | c waits for a and b, 2 Navigators, batches of 1, every operation, one re-insert per row; every flow of up to 3 jobs for the check | `PendingCoversUnresolved`, `NoEarlyStart`, `ReadyChildReleased`, `FlowsSortable` |
| `keys` | 2 jobs of one key, or one without a key and one with the key '', 2 workers, batches of 2, all six policies; lists of 3 rows; 2 instances on a clock with 3 timers; 5 lives of a process | `KeysServed`, `FifoStart`, `ClaimsJustified`, `WalkComplete`, `ClockSound`, `CrashRestartsExact` |
| `upkeep` | 3 commands on 2 tables, 2 runners, 2 faults; vacuum over 2 tables, 1 holder, 1 stop; fair | `IndexesSound`, `ClaimsRespected`, `EveryCommandCompletes`, `HoldersReported` |
| `schedules` | 2 instances, cron expressions and rules under both `missed` policies, 12 units of time, 1 fault; expressions of 3 lines over 12 instants; 5 moments of statistics | `FilesWhatIsDue`, `ReadingsAgree`, `HistorySound` |
| `workers` | 2 jobs of one group, local limit 1, batches of 2, up to 2 workers; six setups over batches, per-job results, transactions, notifications and up to 2 faults; fair | `LocalGroupSlots`, `NoSleepOnNotice`, `WritesSettled`, `StopEnds` |
| `supervise` | 2 instances; three setups: the claims of 2 queues, the expiry of 3 jobs under backoff, the rebuild window; fair | `SweepsSound`, `UpkeepDone` |
| `stats` | 2 jobs, a monitor pass and a refresh without the lock; five setups over removals, failures, truncates, overlaps and the history | `CountsExact` |
| `lifecycle` | 3 calls, 2 attempts, 1 failure, a peer; the schema not installed or at one of eight versions from 25 to 45, 3 rollbacks, 1 failed statement; fair | `SaysWhatItIs`, `AppliedOnce`, `SchemaSound`, `EveryCallAnswered` |
| `queues` | an instance and the statements of others, a queue and its dead letter queue, 3 jobs, 2 changes of queues, 4 of the two together, 2 overlapping refreshes; fair | `OnePlacePerJob`, `SendLands`, `CacheConverges` |
| `sends` | 2 callers, 8 kinds of request, 3 backends, 2 jobs, slots of 3 seconds, the last second of one and the first of the next, clocks from 1 behind to 2 ahead, retries after 1; one schedule, 2 instances and slots up to 2 | `SendsAgree`, `ForwardingSound`, `EditsSafe` |

Several of these are conjunctions of named parts, each with its own comment in its
module: `FilesWhatIsDue` is `NoOccurrenceLost`, `CaughtUp` and `OneJobPerGap`, and so on.

### Bounds, and why they are enough

* *JobClaims.* A fence violation needs one worker with a lapsed claim and one with
  the newer claim, hence 2 workers and 2 claims. A group overrun needs two claims
  in one group that miss each other. The budget needs one claim more than the limit
  allows, hence 3 claims at retry limit 1 (`MaxClaims` would otherwise hide it).
* *Flow.* Two parents and one child are the least in which a double decrement
  releases a child early; batches of 1 make resolvers interleave between the
  parents. `MaxVersion` 2 allows the re-insert that a resolve can miss. Three jobs
  are the least with a cycle that some job outside it depends on.
* *KeyPolicies.* Two jobs of one key meet in every index; two workers race for them
  and a batch of 2 collides in itself. `KeyChoices` holds the two ways of being one key to
  an index: the same key, and none beside the empty one.
* *Lists, TestClock, Registry.* Three rows make a page boundary with a row on each side,
  two of them sharing an id. Three timers are one due, one due after it and one
  armed while they fire. Five lives, so that two dead rows are pruned with two kept.
* *Bam, Vacuum.* Two faults suffice for a break after a crash, and for a claim that is
  outrun and then released; the third command tests the gate across tables. A
  second table tells evidence of one from that of the other.
* *Cron.* A unit is about twelve seconds: window 5, interval 3, beat 1 and delay 1
  satisfy the inequality the code relies on (`Interval + Beat + Delay <= Window`,
  an ASSUME). 12 units hold an outage longer than the window and the passes after it.
* *Recurrence, History.* Twelve instants hold a zone change and a search in three widths
  of step; five moments of days of length 2 hold two midnights.
* *Worker.* Two jobs of a group with local limit 1 are one slot contended; two faults are
  a lost answer and then a failed statement.
* *Supervise, QueueStats.* Two holders of each claim; a late job of each sweep and one more
  than a batch; the horizon of `QueueStats` is the lag on both sides of one window.
* *Lifecycle, Schema.* Three calls are the least in which one waits for a stop that waits for a
  start; they are numbered in the order they are made, which names them and excludes nothing.
  Schema steps over versions three at a time, so each migration and each rollback
  is taken from some start; three rollbacks go back through a build left to `bam`.
* *Queues.* A job, its copy and one more that collides with either; two changes are a delete and a
  re-creation with another table. `MaxTogether` bounds jobs and changes together, so that 3 jobs
  come with one change and 2 changes with 2 jobs. Two refreshes are enough to be applied out of order.
* *Sends.* Two calls race; the two jobs are what they insert, or one sent long ago, which the sweep
  may take, and one they add. Slots of 3 seconds are the shortest in which a clock that lags by one
  second reckons from the slot before and starts the job two seconds too soon, and a clock ahead by
  two falls short as well; `FirstTime` and `MaxTime` lie on the two sides of a turn of the slot.

TLAPS removes the bounds for the properties of section 4.

Symmetry is used only in runs without liveness (`claims`, `keys`, `schedules`, `stats`,
`sends`), over workers, instances, callers and jobs no other constant tells apart.
Deadlock is checked in `queues`, where refreshes never end. Elsewhere behaviours end
legitimately when all jobs have settled, all commands completed, the pool is
closed, or a bound on claims, faults or time is reached.

### Fairness

* `JobClaims`: weak fairness of each worker's steps (the poll loop fetches again,
  statements return, and `resolveWithinSeconds` ends every handler's attempt), of a
  start_after that passes, and of expiry (the supervisor runs on an interval on
  some instance). Nothing is assumed of senders, operators and crashes.
* `Flow`: weak fairness of starting a resolve (the Navigator's poll timer) and
  strong fairness of ending one: connections may break any number of times, but
  not for ever at the same point. Nothing is assumed of workers.
* `Bam`, `Vacuum`: weak fairness of each runner, of the server's statements, of time,
  of the supervisor's timer and of autovacuum. Faults are bounded, so the result reads
  "once faults stop".
* `Worker`: weak fairness of each worker's own steps and of the shutdown's, none of
  handlers (`StopEnds` holds whatever handlers do, because the grace ends).
* `Supervise`: weak fairness of each instance's passes and of the intervals running out.
* `Lifecycle`: weak fairness of the start, the stop, the answers to callers, the passes
  and this process's contractor; none of peers.
* `Queues`: weak fairness of a call's own statements. `CacheConverges` has as its premise
  that refreshes are read and, when tried for ever, applied (the timer runs on, and not
  every refresh fails).
* The others have no liveness property. `Cron`'s promises have deadlines and are
  invariants over discrete time.

## 4. Proofs

Eight modules hold the proofs. Each EXTENDS the module it is about, and each theorem
holds for all values of its constants: the bounds (`MaxClaims`, `MaxVersion`, `MaxJobs`,
`MaxFaults`, ...) are arbitrary numbers there, so behaviours of any length are covered.
What is assumed of constants is the ASSUME of the module (finite sets, positive sizes,
model values apart), which TLC evaluates in the runs. `Sends_proofs` and `KeyPolicies_proofs`
EXTEND the MC modules, because they also prove about the specifications these instantiate:
SendIt, and TestClock and Registry. `Instance_proofs` EXTENDS Worker and Contractor, and takes
Lifecycle by instance, with Lifecycle's ASSUME (`Assumed`) as a hypothesis.

One further hypothesis is stated in theorems: `~Overlap` in the clock's. attach and release wait
for each other and for a tick(), which is how the repository's tests call them. Where the code
breaks a promise on some schedule, no hypothesis excludes it: the schedule is in the model, and the
property itself names the exception (section 6), in terms of what happened and not of what
may happen.

The pattern is the same throughout: an inductive invariant, a lemma for each group of
actions, a lemma that puts them together, and a last step by PTL.

| module | theorems about checked properties | inductive invariant |
|---|---|---|
| `JobClaims_proofs` | `FenceTheorem`, `SettlesOwnClaimTheorem`, `AttemptBudgetTheorem`, `GroupLimitTheorem`, `LeaseTheorem` | `TypeOK`, `AttemptOrder`, `RetryAccounting`, `TokensDiffer`, `ActiveIsClaimed` |
| `Flow_proofs` | `PendingTheorem`, `NoEarlyStartTheorem` | `FlowInv` |
| `KeyPolicies_proofs` | `FifoTheorem`, `KeysServedTheorem`, `ClaimsJustifiedTheorem`, `CrashRestartsTheorem`; under `~Overlap`: `ClockTheorem` | `TypeOK`, `UniqueIndex`, `OrderInv`, `NoClaimLeftBehind`, `SnapshotSound`; `ClockInv`; `LivesInv` |
| `Bam_proofs` | `IndexesTheorem`, `ClaimsTheorem` | `IInv` |
| `Supervise_proofs` | `SweepsTheorem` | `IInv` (`Owing`, `Holding`) |
| `Sends_proofs` | `EditsTheorem`; `UpsertsAgreeTheorem`; `SendsAgreeTheorem`; `ForwardingTheorem` | `IInv` (`Kept`, `Pending`, `PendingApart`), `AInv` (`OneMark`, `InsertSound`, `FindsJob`), `PastRefusal`; `ForwardingInv` |
| `Queues_proofs` | `OnePlaceTheorem` | `PlacesInv` |
| `Instance_proofs` | `LocalGroupSlotsTheorem`, `NoSleepOnNoticeTheorem`, `WritesSettledTheorem`; `AppliedOnceTheorem` | `Shaped`, `Data`, `Counted`, `Closed`; `Contracted`, `StartIsContracted` |

### JobClaims

*The fence.* `FenceNamesOwnClaim` alone is not inductive: it says nothing of a worker
whose fence does not match now, and a later claim might raise retry_count to just
the number that worker carries. `AttemptOrder` closes this: among the claims taken
since numbering last restarted, the last one carries the row's retry_count and every
earlier one a smaller number. It is preserved because only a claim raises
retry_count, and it does so exactly when started_on is set, which `AttemptOrder`
also records: an earlier claim set it and nothing but restore() and a new insert,
which restart the numbering, clears it.

*The budget.* `RetryAccounting` relates the number of claims, retry_count,
retry_limit and started_on. It is needed because `retry_count < retry_limit` is tested
when a job fails and retry_count is raised only at the next claim: the invariant says
that a row in retry that has been claimed still has one to spend.

*The group limit.* `TokensDiffer`: two workers that hold one job took it in different
claims, so a job has at most one live holder (`OneLiveHolder`), and live claims of a
group inject into its active rows, which is what the count after the commit counts
(`LiveClaimsAreCounted`). Two fetches may still miss each other; but only the count
lets a handler start (`OnlyCountGroupStarts`), it comes after the claim is committed,
and so the second of two counts sees both.

*The refinement.* `LeaseTheorem` is step simulation: initial states map to
`LeaseInit`, a claim to `Grant` (`ClaimGrants`), a settle whose fence fits to `Finish` of the
worker's own lease (`FenceFits`, `SettleFinishes`), renumbering statements to `Offer`
or to the step that blinds (`RenumberingBlinds`), a worker that lets go of its job to
the end of its belief (`ReleaseMaps`), and the rest to stutters (`Stutters`). It rests on
`AttemptOrder` (a fitting fence is the worker's own or a blind one's) and on
`ActiveIsClaimed` (the claim that made a row active is later than its last
renumbering).

### Flow

`PendingCoversUnresolved` needs to know that a resolve lowers a child once per parent.
`LocksSound` says that the parents in a Navigator's hands are blocking, completed and in
no other's hands, because their rows are locked; `RowsSound` ties states to the ghost
`done`; `ChildrenSound` says that a stored child that was never completed is blocked exactly
while it counts a parent, and that a parent that is not blocking has completed. The
arithmetic is in `DecrementBound`: at `ResolveEnd`, pending falls by the number of pairs
of the batch, and the unresolved parents fall by at least as many. `NoEarlyStart` then
follows: fetch takes unblocked rows, unblocked means nothing pending, pending covers the
unresolved parents, and the resolved ones have completed.

### KeyPolicies

`UniqueIndex` is what Postgres would enforce, and so what the model has to show of every
statement: no two rows of one key under a partial unique index. It makes
`StartedHoldsBack` an action property without an invariant of its own. FIFO needs
`OrderInv`: stamps are distinct, a row that never started is waiting and due unless an
operator touched it (`odd`), and whatever a fetch has seen of a key comes after
everything that must start before it has started. `KeysServedTheorem` takes the oldest
waiting job of the key and shows it fetchable. `ClaimsJustifiedTheorem` uses `SnapshotSound`
(what was seen is still ready, or something else was committed since).
Both hold whatever keys the jobs have. A job without a key and one with the key '' are one
to the indexes (over COALESCE(singleton_key, '')) and two to the ranking, so they count as
siblings in `KeyNeverStuck`, and a batch that holds both may be refused with no race:
`KeylessMeetsEmpty`, under singleton and stately, the two policies with that ranking. The proof
shows that this is the only such batch (section 6).

### Bam

`Working`: a runner that is not idle works on a command that had not completed when it
claimed. As long as no live runner was outrun, `HasClaim` (its row is in progress and
in its name), `OneStatement` (a statement on the server is of a command in progress, the
only one of it, and of the runner that claims it, which waits for the answer; a dead
client's may be left) and `InOrder` (whoever has begun has completed predecessors, and
what completed is valid). `OneStatement` is what makes a reclaim safe: the claim's condition
that nothing holds a lock on the table is that no statement of the command runs.
`ClaimsTheorem` and `IndexesTheorem` follow with `outrun` excluded as in the properties.

### Supervise

`SweepsSound` is about a pass at its end; inductively, `Owing` follows the debt: a job the
pass saw late when it claimed is still late only before the sweep that fails it. A
sweep works in batches and ends when one comes back short, so `BatchCovers` shows that a
short batch has taken all there was. `Holding` says that the queues a pass still
has to sweep carry its claim, unless the interval ran out (`lapsed`).

### Sends, Queues, Worker, Lifecycle, clock

*Sends.* `Pending` says what an open transaction may hold: edited rows wait and are locked,
the inserted row is nobody's yet. `PendingApart`: two pending inserts have different
ids, so that two commits do not overwrite each other. `Kept`: keep_until is the
retention from start_after on every row, less what its retries put start_after off, which
edits must move along.
Upserts agree because of `OneMark`: of one key there is one row that an upsert inserted and
nobody started, pending rows counted with the table, so a commit moves a mark and makes
none. `FindsJob` is the second round: a refused insert has met a waiting job of the key, and
unless one is claimed or swept the second update finds it. `PastRefusal` follows a debounce from
the refused slot through its delay to the second insert: whatever the clock, the delay is at least
a second, so the job is filed in no earlier slot than one after the refused one (`AfterRefusal`).
That it also starts after the refused slot needs the clock the delay was read off to be in that
slot or later and no more than a second ahead (`timely`); this is a premise of the property about
what that call did, not an assumption on clocks. `DelayReaches` is the arithmetic.

*Queues.* `PlacesInv` counts: used ids are dense, calls that will insert have an id left
for them, a copy in a dead letter queue has none of its own, and of the rows of one
origin exactly one stands, and one more for each retry of an original that was copied. `OneStands` has to be restated for each statement that moves
several rows at once (a redrive of some of a batch, a delete of a queue with its rows).

*Forwarding.* `ForwardingInv` follows an occurrence from the pass that files it to
last_job_id. `Repeats` bounds what can still be forwarded: the forwards of an occurrence plus
the handlers that have yet to forward it are at most its lost claims, and one more once it has been
fetched. `Accounts` gives the other direction, that a completed occurrence was forwarded or
reported. `Filing` orders the slots: a pass files none earlier than what is on the queue. While no
two batches overlapped and none lost its claim (`crossed`), `Recording` has them fetched and recorded in that order, so the
record ends at the newest job.

*Worker.* `Shaped` says which places of the loop go with a batch, with running handlers and with
a notification that is owed a fetch. `Owing` says where a worker has each job it still holds a
claim on, with the retry count of its row, so that a worker at the end of its round, on every
error path, has left none. `Locked`, `Rows` and `Written` follow a transaction's rows to its
commit, whose answer may be lost. `Counted` is what slots need: the slots of a group are the
jobs of that group in batches plus the handlers that outlived their batch, as the cardinality of
a set, so that freeing a slot twice or never would change one side only. `Closed`: when the
pool has closed, every worker has left its loop.

*Clock.* `Quiescence` is why #settle stops at the right pass: if a statement runs during a pass,
somebody in that pass was or will be seen busy, so a pass that is the last met nobody and left
nobody; hence no statement runs in the steps between two settles, where time moves. A
statement that wakes another instance is the case that needs it: the busy one may have been
passed already. `OneMoves` (what `~Overlap` gives) keeps the override in place while anyone is up.
`Timers` bounds every timer from below by now, through the interval that is armed again before
its function runs.

*Crash counts.* A life counts from the rows alone, so `LivesInv` says which rows are left and
which of them can be trusted. `RowsLeft`: pruning takes the oldest, so of the streak since the last
stop the newest are there, and the last stop itself goes only after all that came before it.
`RowsNumbered`: the earliest row left in the streak shows its exact count, since the next count
starts from it. That is what pruning could break: it may take a row only when two newer ones are
dead, and a row that becomes the earliest so was quiet already when this life counted, so it was
numbered then. Here the second row kept is needed: a row that went quiet after the count is the
newest such. When no recount is pending every row of the streak was counted as crashed, and the
life's own count is exact, unless a row went quiet between its two statements, so that neither
saw it to come, or its recount failed: then the life is `behind`, and the next life's
count, which starts from the rows, has the row again. The invariant holds while no life missed
beats or lost its first count, and maintenance took no row, as the property does.

*Lifecycle.* `Contracted` says that what a contractor remembers of the schema is good enough
for its next statement: one about to create finds no schema or a finished one, one about
to migrate read the present version or comes too late. `StartIsContracted` carries it past the
schema step: `StartedIsMigrated`.

## 5. Only model-checked

*Out of the prover's reach.* Liveness and everything that needs ENABLED: `EveryJobSettles`,
`ReadyChildReleased`, `EveryCommandCompletes`, `HoldersReported`, `StopEnds`, `UpkeepDone`,
`EveryCallAnswered`, `SendLands`, `CacheConverges`. Properties of what an algorithm computes,
whose proofs are inductions over data: `FlowsSortable`, `ReadingsAgree`, `WalkComplete`, and
the buckets in `HistorySound`.

*Not proved yet.* `CountsExact`, `FilesWhatIsDue`, `HistorySound`, `SchemaSound` and `SaysWhatItIs`.

## 6. Where the code and its documents disagree

Met while modelling; for each, how the model shows it. A setting that is named is one that no
run uses. Elsewhere the runs contain the schedule, and the property they check states the
exception: drop it and TLC shows the schedule. The property, where one
is named, is defined in the module with the document it quotes.

* *Give-back by id.* `#giveBack` restores excess ids by id alone. A worker slow between its
  count and its give-back may restore a job that has expired and is running elsewhere
  (`NeverRestoresRunningJob`; `src/manager.ts:2363`, the comment of `attemptFence` at
  `src/plans.ts:2843`). `JobClaims` with GroupLimit 1 and MaxClaims 3.
* *A failed child misses its release.* fail() of a blocked child re-inserts its row. A
  resolve that saw the old row lowers nothing and still clears the parent's `blocking`; the
  child stays blocked (`ReadyAlwaysReleased`; `src/plans.ts:2902`, `docs/api/jobs.md:419`).
  Retention of a completed parent before any resolver came has the same effect.
  `ReadyChildReleased` is the promise without these two.
* *A refused re-insert.* On distributed backends fail() of a queued key_strict_fifo job
  can be refused in both retry and failed, after its row was deleted (`FailLosesNoJob` with
  `Distributed = TRUE`; `src/plans.ts:3769`, `src/manager.ts:2506`).
* *The empty key.* The ranking of a batch tells a missing key from '', the indexes do not:
  the batch is refused with no race, at every poll (`KeylessMeetsEmpty` in `RefusalMeansRace`;
  `src/plans.ts:2763`, `src/manager.ts:2304`).
* *A build that outlasts its connection.* A lost connection marks a row failed while the
  server still builds, and failed rows are claimable without the live-build condition
  (`RunningBuildNotReclaimed`; `src/plans.ts:5428` against the comment at 5241). Two
  runners can then be at work on one row and heal and fail each other's build for as
  long as their steps interleave badly: the reason for `outrun`.
* *Start and stop.* `timekeeper.start` sets stopped = false before its createQueue; if that fails
  and the start is tried again, the object says started and has no cron timer (the ghost
  `halfway`; `src/timekeeper.ts:358`, `src/index.ts:200`, `docs/api/ops.md:29`).
  `manager.start` is unguarded, so the same retry arms its intervals twice, and a stop
  clears one set (`over`; `src/manager.ts:1165`). A start() called in the catch of another call
  overtakes a stop() that waits, which does not look again when it wakes (`early`). Of stop,
  start, stop the second stop joins the first, and the object then starts.
* *Recounted crashes.* A row that goes quiet between the two statements of a count is counted
  by neither, and no recount is set for it; a recount that fails is not tried again (the ghost
  `behind`; `src/registrar.ts:150`, `src/plans.ts:637`). The life's own count stays one short.
* *Retried originals.* retry() takes every failed row of a queue, also one whose copy is in the
  dead letter queue: both run (the ghost `again` in `OnePlacePerJob`; `src/plans.ts:4151`,
  `docs/api/jobs.md`).
* *Lagging clocks.* The skew is reckoned with a local time read after the answer, so the corrected
  clock lags by the round trip, and nothing bounds it. A debounce refused just after a slot turned
  computes its delay in the slot before and starts inside the refused slot (`timely` in
  `AfterRefusal`; `src/timekeeper.ts:445`, `src/manager.ts:2233`).
* *Retention of retries.* A retry moves start_after and keeps keep_until, and update() slides
  keep_until along with start_after from there: the job may be swept while it has waited less than
  the retention from its start (`putOff` in `RetainedFromStart`; `src/plans.ts:3408`, 4231).
* *Completed and returned.* When fail() inside failWip() raises, the job of a handler that has not
  returned may end as completed (`CompletedMeansReturned` with `FailWipErrors = TRUE`;
  `src/manager.ts:1310`). stop() and offWork() with a fetch in flight drop the local group
  limit (`docs/api/workers.md:152`); a late restore of the excess is by id.
* *Statistics.* The comment at `src/plans.ts:4774` is false for a pass delayed past its interval.
  The snapshot copies the counts in a statement of its own.
* *Queues.* deleteQueue() looks for referrers before it deletes; a dead letter reference made
  in between is left dangling (`src/manager.ts:3043`). An old refresh answer applied after a
  heal makes the next write fail once more (`docs/api/queues.md:192`).
* *Schema.* A partition of key_strict_fifo when v28 is rolled back loses an index and a
  constraint for good (the ghost `unstrict`; "byte-identical", `test/migrationTest.ts:651`), and v40
  rolled back over an interrupted drop keeps an INVALID job_i5 (`broken`; the comment at
  `src/migrationStore.ts:2076`). A v33 fetch index that failed and is built after v40
  retired it is left over. `VersionShape`, `DriftExplained` and `FetchIndexKept` name the three.
* *Upserts.* An upsert whose insert is refused by a job that is then claimed returns
  `{ jobs: [], updated: 0, inserted: 0 }` (`docs/api/jobs.md:314`). A debounced send whose slot
  turns over between computation and insert files one slot further.
* *Forwarding.* A batch whose completion raises after its sends, or that failWip() fails under
  its handler, is retried and forwards its occurrences again (the ghost `losses`;
  `src/manager.ts:849`, 1298). Such a batch, one that expired or overlaps another, and a
  payload without a slot may move last_job_id to an older job (`src/timekeeper.ts:891`; `crossed`).
* *Lists.* The walk over instances skips rows when the instance `after` names restarted
  (`src/plans.ts:719`, `docs/api/ops.md:205`; the ghost `lost`).
* *Test clock.* attach and release beside tick() (`Overlap = TRUE`; `docs/api/testing.md:161`).
* *By reading, not in a model.* A rollback between a BAM claim and its execution;
  createQueue() begun before a migration commits; garbage reclaimed and refilled between
  two looks counts as stuck (`src/boss.ts:24`); the catalog_xmin of a healthy logical slot is
  always a candidate (`src/boss.ts:912`); a scoped supervise() resets the warned indexes
  (`src/boss.ts:1150`); spies at `src/manager.ts:461` against the comment at 433; in the
  dashboard a delete that reads the state first, and an instance got after
  stopAllInstances.

## 7. Not modelled

Components marked so in `PROJECT.json`: drivers and adapters, and the reporting (nurse,
warnings, activity gauges, latency, telemetry), decide nothing about a job. Within the
modelled ones:

* publish and subscribe; previewRedrive, the destination of a redrive, a send's own
  deadLetter option, the order of a key_strict_fifo redrive; a stale policy in the
  fetch statement.
* the distributed variant of the resolver, and BAM's path for CockroachDB and
  YugabyteDB, which knows only the timeout.
* the insides of cron-parser and rrule-temporal, local times skipped in spring, the
  budget of a preview, the reading of the clock skew (an error of the sender's clock stands for it).
* the heartbeat refresh and abort signals of handlers, test spies, handler-overrun tallies.
* the warnings about index bloat and queue sizes, and their deduplication.
* data updates inside migrations (the claim seed of v40, the labels of v41), DDL text.
* checks of single options, the rest of the command line, the proxy, the dashboard's pages.

## 8. Plan

Done: the modules of section 2, the runs of section 3, the proofs of section 4.

Next, in order:

1. `RetainedExact` of `QueueStats`: retained_count plus what is on its way equals the finished
   rows at the watermark.
2. `NoOccurrenceLost` of `Cron`: the distance of passes from `Interval + Beat + Delay <= Window`.
3. `SaysWhatItIs` of `Lifecycle`: which timers each step of a start or a stop leaves armed, with
   `halfway` and `over` as they are in the property.
