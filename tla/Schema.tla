--------------------------------- MODULE Schema ---------------------------------
(***************************************************************************)
(* The database schema through install, upgrade, rollback and uninstall:   *)
(* the migrations of migrationStore.ts and their rollbacks, the snapshots  *)
(* of create_queue() they install, the index builds they leave to bam or   *)
(* to the command line, the partitions that queues add and remove in the   *)
(* meantime, and the drift report that judges the outcome.                 *)
(*                                                                         *)
(* An object is a table, column, function or default that some migration   *)
(* adds.  Indexes are kept per job table: an index is its number, and the  *)
(* three forms job_i5 had are three indexes of one name.  A migration or a *)
(* rollback is one transaction and so one step; a concurrent build is a    *)
(* step of its own, and may fail.  What the columns hold is left out.      *)
(***************************************************************************)
EXTENDS Integers, Sequences, SequencesExt, TLC

CONSTANTS
    Starts,             \* versions a behaviour may begin at; 0: not installed
    Backends,           \* noTablePartitioning: subset of BOOLEAN
    Partitions,         \* tables that queues of their own may get
    Policies,           \* policies such queues may have
    Floor,              \* bound: the lowest version rolled back to
    MaxRollbacks,       \* bound: rollbacks and uninstalls
    MaxFaults,          \* bound: statements that fail
    MaxCreates          \* bound: queues created

VARIABLES
    noPartitioning, \* the backend's flag
    version,        \* version.version
    objects,        \* tables, columns, functions and defaults
    fn,             \* which snapshot of create_queue() is installed
    policy,         \* per job table: its queue's policy, or that it does not exist
    valid, invalid, \* per table: its indexes, by whether they are VALID
    bam,            \* the rows of bam that are not completed, by created_on
    statements,     \* concurrent statements the command line has still to run
    faults, rollbacks, creates,
    unstrict,       \* ghost: the tables that were key_strict_fifo when v28 was rolled back
    broken          \* ghost: those whose job_i5 was not VALID when v40 was rolled back

tableVars == <<policy, valid, invalid>>
bounds == <<faults, rollbacks, creates>>
ghosts == <<unstrict, broken>>
vars == <<noPartitioning, version, objects, fn, tableVars, bam, statements, bounds, ghosts>>

Common == "job_common"      \* the shared job table; job itself without partitioning
Stats == "queue_stats"
Tables == {Common, Stats} \cup Partitions

LatestVersion == 46
MinVersion == 25
Migrated == MinVersion + 1..LatestVersion

FetchForms == {"i5_covering", "i5_unblocked", "i5"}
SameName(x, y) == x = y \/ {x, y} \subseteq FetchForms
Named(S, x) == {y \in S : SameName(x, y)}

-----------------------------------------------------------------------------
(* create_queue(), as each version had it: the indexes every table gets, those
   of key_strict_fifo, and the objects the body names. *)

Helpers == {"job_table_format"}

CreateQueue26 == [base |-> {"i5_covering", "i4"}, strict |-> {}, names |-> {}]
CreateQueue27 == [base |-> {"i5_covering", "i4", "i7"}, strict |-> {}, names |-> Helpers]
CreateQueue28 == [CreateQueue27 EXCEPT !.strict = {"i8", "check"}]
CreateQueue30 == [CreateQueue28 EXCEPT !.names = Helpers \cup {"queue.heartbeat_seconds"}]
CreateQueue31 == [CreateQueue30 EXCEPT !.base = {"i5_unblocked", "i4", "i7"}]
CreateQueue32 == [CreateQueue31 EXCEPT !.names = @ \cup {"queue.notify"}]
CreateQueue33 == [CreateQueue32 EXCEPT !.base = {"i5", "i4", "i7", "i9"}]
CreateQueue38 == [CreateQueue33 EXCEPT !.strict = {"i8", "i10", "check"}]
CreateQueue40 == [CreateQueue38 EXCEPT !.base = {"i11", "i4", "i7", "i9"}]
CreateQueue42 == [CreateQueue40 EXCEPT !.names = @ \cup {"job_now"}]
CreateQueue43 == [CreateQueue42 EXCEPT !.base = @ \cup {"i12"}]
CreateQueue45 == [CreateQueue43 EXCEPT !.base = @ \cup {"i13"}]
CreateQueue46 == [CreateQueue45 EXCEPT !.base = @ \cup {"i14", "i15", "i16", "i17"}]

\* Without partitioning the body inserts the queue's row and makes no table.
CreateQueueNoPartition41 == [base |-> {}, strict |-> {}, names |-> {"queue.heartbeat_seconds"}]
CreateQueueNoPartition42 == [CreateQueueNoPartition41 EXCEPT !.names = @ \cup {"job_now"}]

CreateQueueFn ==
    26 :> CreateQueue26 @@ 27 :> CreateQueue27 @@ 28 :> CreateQueue28 @@ 30 :> CreateQueue30 @@
    31 :> CreateQueue31 @@ 32 :> CreateQueue32 @@ 33 :> CreateQueue33 @@ 38 :> CreateQueue38 @@
    40 :> CreateQueue40 @@ 42 :> CreateQueue42 @@ 43 :> CreateQueue43 @@ 45 :> CreateQueue45 @@
    46 :> CreateQueue46
CreateQueueNoPartitionFn == 41 :> CreateQueueNoPartition41 @@ 42 :> CreateQueueNoPartition42

Snapshot(n) == IF noPartitioning THEN CreateQueueNoPartitionFn[n] ELSE CreateQueueFn[n]

\* The ELSIF ladder on options->>'policy'; job_common serves every policy.
Ladder(snapshot, p) ==
    CASE p = "short" -> {"i1"}
      [] p = "singleton" -> {"i2"}
      [] p = "stately" -> {"i3"}
      [] p = "exclusive" -> {"i6"}
      [] p = "key_strict_fifo" -> snapshot.strict
      [] p = "every" -> {"i1", "i2", "i3", "i6"} \cup snapshot.strict
      [] OTHER -> {}

TableIndexes(snapshot, p) == snapshot.base \cup Ladder(snapshot, p)

-----------------------------------------------------------------------------
(* The migrations.  `add` fails on an object that is there, `ensure` says IF NOT
   EXISTS; `keep` stays on rollback.  `sync` are indexes built in the transaction
   on the shared table, `async` goes to bam, `undo` runs in the rollback. *)

Cmd(op, ix, at) == [op |-> op, ix |-> ix, at |-> at]
Build(ix) == Cmd("build", ix, "all")
Drop(ix) == Cmd("drop", ix, "all")
Ensure(ix) == Cmd("ensure", ix, "all")

M == [add |-> {}, ensure |-> {}, keep |-> {}, fn |-> 0, unfn |-> 0, sync |-> {},
      rename |-> {}, async |-> <<>>, undo |-> <<>>]

V26 == [M EXCEPT !.fn = 26, !.sync = {"i6"}, !.undo = <<Cmd("drop", "i6", Common)>>]

V27 == [M EXCEPT
    !.add = Helpers,
    !.ensure = {"version.bam_on", "bam", "job_table_run_async", "job_table_run",
                "job.group_id", "job.group_tier"},
    !.fn = 27, !.unfn = 26,
    !.rename = {"i1", "i2", "i3", "i4", "i5_covering", "i6"},
    !.async = <<Build("i7")>>, !.undo = <<Drop("i7")>>]

V28 == [M EXCEPT
    !.sync = {"check"}, !.fn = 28, !.unfn = 27,
    !.async = <<Cmd("build", "i8", Common)>>, !.undo = <<Drop("i8"), Drop("check")>>]

V29 == [M EXCEPT !.add = {"warning", "warning_i1"}]

V30 == [M EXCEPT
    !.add = {"job.heartbeat_on", "job.heartbeat_seconds", "queue.heartbeat_seconds"},
    !.fn = 30, !.unfn = 28]

V31 == [M EXCEPT
    !.add = {"job.blocked", "job.blocking", "job.pending_dependencies"},
    !.ensure = {"job_dependency", "job_dep_parent_idx"},
    !.fn = 31, !.unfn = 30,
    !.undo = <<Drop("i5"), Build("i5_covering")>>]

V32 == [M EXCEPT
    !.add = {"queue.notify", "queue.failed_count", "queue.ready_count"},
    !.fn = 32, !.unfn = 31]

V33 == [M EXCEPT
    !.ensure = {"version.flow_on", "bam.created_on default"}, !.keep = {"bam.created_on default"},
    !.fn = 33, !.unfn = 32,
    !.async = <<Build("i9"), Drop("i5"), Build("i5")>>,
    !.undo = <<Drop("i5"), Build("i5_unblocked"), Drop("i9")>>]

V34 == [M EXCEPT !.ensure = {"job.source_name", "job.source_id", "job.source_created_on",
                             "job.source_retry_count"}]

\* The queue_stats DDL as v35 had it.
CreateTableQueueStats35 == {"queue_stats", "queue_stats_i1"}

V35 == [M EXCEPT !.add = CreateTableQueueStats35 \cup {"queue.ready_history"}]

V36 == [M EXCEPT !.ensure = {"bam.created_on default"}, !.keep = {"bam.created_on default"}]

\* job_table_format() as v37 rewrote it; its rollback restores the one before.
JobTableFormat37 == {"job_table_format anchored"}

V37(np) == [M EXCEPT !.ensure = IF np THEN {} ELSE JobTableFormat37]

V38(np) == [M EXCEPT
    !.fn = IF np THEN 0 ELSE 38, !.unfn = IF np THEN 0 ELSE 33,
    !.async = <<Cmd("build", "i10", IF np THEN Common ELSE "key_strict_fifo")>>,
    !.undo = <<Drop("i10")>>]

V39 == [M EXCEPT !.ensure = {"version.reindex_on"}]

V40(np) == [M EXCEPT
    !.ensure = {"version.monitor_backoff_on", "queue.monitor_claim_on"},
    !.fn = IF np THEN 0 ELSE 40, !.unfn = IF np THEN 0 ELSE 38,
    !.async = <<Build("i11"), Drop("i5")>>,
    !.undo = <<Ensure("i5"), Drop("i11")>>]

V41 == [M EXCEPT
    !.ensure = {"schedule.kind", "schedule.last_job_id", "schedule.timezone default"},
    !.keep = {"schedule.timezone default"}]

\* Mutant: the rollback leaves create_queue() as it is.
V42KeepsFn(np) == [M EXCEPT !.ensure = {"job_now"}, !.fn = 42]

V42(np) == [M EXCEPT !.ensure = {"job_now"}, !.fn = 42, !.unfn = IF np THEN 41 ELSE 40]

V43(np) == [M EXCEPT
    !.add = {"queue.deltas", "queue_stats.deltas"},
    !.ensure = {"job.source_output", "job.source_root_id"},
    !.fn = IF np THEN 0 ELSE 43, !.unfn = IF np THEN 0 ELSE 42,
    !.async = <<Build("i12")>>, !.undo = <<Drop("i12")>>]

V44 == [M EXCEPT
    !.add = {"instance", "queue.blocked_count", "queue.bins", "queue_stats.bins"},
    !.ensure = {"job.trace_context"}]

V45(np) == [M EXCEPT
    !.ensure = {"job.upsert_by_key"},
    !.sync = IF np THEN {"i13"} ELSE {},
    !.fn = IF np THEN 0 ELSE 45, !.unfn = IF np THEN 0 ELSE 43,
    !.async = IF np THEN <<>> ELSE <<Build("i13")>>, !.undo = <<Drop("i13")>>]

V46(np) == [M EXCEPT
    !.ensure = {"queue.retained_count", "queue.retained_on"},
    !.fn = IF np THEN 0 ELSE 46, !.unfn = IF np THEN 0 ELSE 45,
    !.async = <<Build("i14"), Build("i15"), Build("i16"), Build("i17")>>
              \o (IF np THEN <<Cmd("build", "stats_i2", Stats)>> ELSE <<>>),
    !.undo = (IF np THEN <<Cmd("drop", "stats_i2", Stats)>> ELSE <<>>)
             \o <<Drop("i17"), Drop("i16"), Drop("i15"), Drop("i14")>>]

\* getAll.
GetAll ==
    [np \in BOOLEAN |->
        26 :> V26 @@ 27 :> V27 @@ 28 :> V28 @@ 29 :> V29 @@ 30 :> V30 @@ 31 :> V31 @@ 32 :> V32 @@
        33 :> V33 @@ 34 :> V34 @@ 35 :> V35 @@ 36 :> V36 @@ 37 :> V37(np) @@ 38 :> V38(np) @@
        39 :> V39 @@ 40 :> V40(np) @@ 41 :> V41 @@ 42 :> V42(np) @@ 43 :> V43(np) @@ 44 :> V44 @@
        45 :> V45(np) @@ 46 :> V46(np)]

Migration(w) == GetAll[noPartitioning][w]
Adds(m) == m.add \cup m.ensure

-----------------------------------------------------------------------------
(* What create() installs: the columns and tables that no version before v26 had. *)

TableVersion == {"version.bam_on", "version.flow_on", "version.reindex_on", "version.monitor_backoff_on"}
TableQueue == {"queue.blocked_count", "queue.ready_count", "queue.failed_count", "queue.retained_count",
               "queue.retained_on", "queue.deltas", "queue.bins", "queue.ready_history",
               "queue.heartbeat_seconds", "queue.notify", "queue.monitor_claim_on"}
TableSchedule == {"schedule.kind", "schedule.timezone default", "schedule.last_job_id"}
TableBam == {"bam", "bam.created_on default"}
TableJob == {"job.group_id", "job.group_tier", "job.heartbeat_on", "job.heartbeat_seconds", "job.blocked",
             "job.blocking", "job.pending_dependencies", "job.source_name", "job.source_id",
             "job.source_created_on", "job.source_retry_count", "job.source_output",
             "job.source_root_id", "job.trace_context", "job.upsert_by_key"}
TableWarning == {"warning", "warning_i1"}
TableQueueStats == {"queue_stats", "queue_stats_i1", "queue_stats.deltas", "queue_stats.bins"}
TableJobDependency == {"job_dependency", "job_dep_parent_idx"}
TableInstance == {"instance"}

PartitionFunctions == {"job_table_format", "job_table_run", "job_table_run_async"}
CreateFunctions ==
    {"job_now"} \cup (IF noPartitioning THEN {} ELSE PartitionFunctions \cup {"job_table_format anchored"})

CreateObjects ==
    UNION {TableVersion, TableQueue, TableSchedule, TableBam, TableJob, TableWarning, TableQueueStats,
           TableJobDependency, TableInstance, CreateFunctions}

\* createTableJobCommon, and createTableJobIndexes without partitioning.
TableJobIndexes == {"i1", "i2", "i3", "i6", "i8", "i10", "check", "i4", "i11", "i7", "i9", "i12", "i13",
                    "i14", "i15", "i16", "i17"}

CurrentFn == IF noPartitioning THEN 42 ELSE 46

-----------------------------------------------------------------------------
(* The schema as the release of a version left it. *)

SnapshotOf(v) == CreateQueueFn[Max({26} \cup {w \in DOMAIN CreateQueueFn : w <= v})]
FnOf(v) ==
    CASE v <= MinVersion -> 0
      [] noPartitioning -> IF v >= 42 THEN 42 ELSE 41
      [] OTHER -> Max({w \in DOMAIN CreateQueueFn : w <= v})

ReleasedObjects(v) ==
    UNION {Adds(Migration(w)) : w \in {x \in Migrated : x <= v}}
      \ (IF noPartitioning THEN PartitionFunctions ELSE {})

ReleasedIndexes(v, t, p) ==
    CASE p = "none" -> {}
      [] t = Stats -> IF v = LatestVersion THEN {"stats_i2"} ELSE {}
      [] OTHER -> TableIndexes(SnapshotOf(v), p) \ (IF v = MinVersion /\ t = Common THEN {"i6"} ELSE {})

SupportedPolicies(v) ==
    Policies \ ((IF v < 26 THEN {"exclusive"} ELSE {}) \cup (IF v < 28 THEN {"key_strict_fifo"} ELSE {}))

InitialPolicies(v) ==
    {p \in [Tables -> Policies \cup {"none", "every", "stats"}] :
        /\ p[Common] = (IF v = 0 THEN "none" ELSE "every")
        /\ p[Stats] = (IF v # 0 /\ noPartitioning THEN "stats" ELSE "none")
        /\ \A t \in Partitions : p[t] \in {"none"} \cup
             (IF v = 0 \/ noPartitioning THEN {} ELSE SupportedPolicies(v))}

Init ==
    /\ noPartitioning \in Backends
    /\ version \in {v \in Starts : noPartitioning => v \notin 1..33}
    /\ objects = ReleasedObjects(version)
    /\ fn = FnOf(version)
    /\ policy \in InitialPolicies(version)
    /\ \E keep \in BOOLEAN :
        valid = [t \in Tables |->
            LET S == ReleasedIndexes(version, t, policy[t])
            IN  IF keep /\ version \in {31, 32} /\ S # {}
                THEN (S \ {"i5_unblocked"}) \cup {"i5_covering"} ELSE S]
    /\ invalid = [t \in Tables |-> {}]
    /\ bam = <<>> /\ statements = <<>>
    /\ faults = 0 /\ rollbacks = 0 /\ creates = 0
    /\ unstrict = {} /\ broken = {}

JobTables == {t \in Tables : policy[t] \notin {"none", "stats"}}

-----------------------------------------------------------------------------
(* Install, upgrade, rollback, uninstall: one transaction each, under the schema's lock. *)

\* contractor.create and the command line's create.
Create ==
    /\ version = 0
    /\ version' = LatestVersion
    /\ objects' = CreateObjects
    /\ fn' = CurrentFn
    /\ policy' = [policy EXCEPT ![Common] = "every", ![Stats] = IF noPartitioning THEN "stats" ELSE "none"]
    /\ valid' = [valid EXCEPT ![Common] = TableJobIndexes,
                              ![Stats] = IF noPartitioning THEN {"stats_i2"} ELSE {}]
    /\ UNCHANGED <<noPartitioning, invalid, bam, statements, bounds, ghosts>>

Partitioned(P) == SetToSeq({t \in Partitions : policy[t] \in P})

\* Mutant: the shared table alone.
TargetsCommon(at) == IF at = Stats THEN <<at>> ELSE <<Common>>

\* The tables a command of job_table_run_async, or its inlined form, reaches.
Targets(at) ==
    CASE at \in {Common, Stats} -> <<at>>
      [] at = "all" -> <<Common>> \o Partitioned(Policies)
      [] OTHER -> <<Common>> \o Partitioned({at})

Row(w, c, t) == [ver |-> w, table |-> t, op |-> c.op, ix |-> c.ix, failed |-> FALSE]
Fan(w, c) == LET T == Targets(c.at) IN [j \in DOMAIN T |-> Row(w, c, T[j])]
Rows(w) ==
    LET async == Migration(w).async
    IN  FlattenSeq([i \in DOMAIN async |-> Fan(w, async[i])])

Pending == version + 1..LatestVersion
Owed == FlattenSeq([k \in 1..LatestVersion - version |-> Rows(version + k)])

\* Every statement of the chain applies to the schema it meets.
Installs ==
    \A w \in Pending :
        /\ Migration(w).add \cap objects = {}
        /\ \A x \in Migration(w).sync : Named(valid[Common] \cup invalid[Common], x) = {}

InstallChain ==
    /\ version \in MinVersion..LatestVersion - 1
    /\ Installs
    /\ version' = LatestVersion
    /\ objects' = objects \cup UNION {Adds(Migration(w)) : w \in Pending}
    /\ LET F == {w \in Pending : Migration(w).fn # 0}
       IN  fn' = IF F = {} THEN fn ELSE Migration(Max(F)).fn
    /\ valid' = [valid EXCEPT ![Common] = @ \cup UNION {Migration(w).sync : w \in Pending}]

\* contractor.migrate.
Migrate ==
    /\ InstallChain
    /\ bam' = bam \o Owed
    /\ UNCHANGED <<noPartitioning, policy, invalid, statements, bounds, ghosts>>

\* cmdMigrate: what bam would run is inlined, to run after the commit.
CmdMigrate ==
    /\ InstallChain
    /\ statements' = Owed
    /\ UNCHANGED <<noPartitioning, policy, invalid, bam, bounds, ghosts>>

\* The column an index cannot outlive.
Column(x) ==
    CASE x = "i7" -> "job.group_id"
      [] x \in {"i5", "i5_unblocked", "i10", "i11", "i14"} -> "job.blocked"
      [] x = "i9" -> "job.blocking"
      [] x = "i12" -> "job.source_root_id"
      [] x = "i13" -> "job.upsert_by_key"
      [] OTHER -> "id"

\* One statement of a rollback on one table.
Undo(s, c) ==
    LET present == Named(s.valid \cup s.invalid, c.ix)
    IN  CASE c.op = "drop" -> [s EXCEPT !.valid = @ \ present, !.invalid = @ \ present]
          [] c.op = "ensure" -> IF present = {} THEN [s EXCEPT !.valid = @ \cup {c.ix}] ELSE s
          [] OTHER -> [s EXCEPT !.valid = @ \cup {c.ix}, !.ok = s.ok /\ present = {}]

Dropped(m) ==
    LET D == Adds(m) \ m.keep
    IN  IF "bam" \in D THEN D \cup {"bam.created_on default"} ELSE D

Undone(m, t) ==
    LET mine == SelectSeq(m.undo, LAMBDA c : c.at = t \/ (c.at = "all" /\ t \in JobTables))
        s == FoldLeft(Undo, [valid |-> valid[t], invalid |-> invalid[t], ok |-> TRUE], mine)
        gone == {x \in s.valid \cup s.invalid : Column(x) \in Dropped(m)}
    IN  [s EXCEPT !.valid = @ \ gone, !.invalid = @ \ gone]

Uninstalls(m) ==
    /\ Dropped(m) \ {"bam.created_on default"} \subseteq objects
    /\ \A x \in m.rename : Named(valid[Common] \cup invalid[Common], x) # {}
    /\ \A t \in Tables : Undone(m, t).ok

\* Mutant: the rows are left.
KeepAsync(m, w) == bam

\* The unfinished rows of the version go with it.
ClearAsync(m, w) ==
    IF m.async = <<>> THEN bam ELSE SelectSeq(bam, LAMBDA r : r.ver # w)

\* The statements handed to the operator are run before a rollback is.
CanRollback ==
    /\ version > (IF noPartitioning THEN 34 ELSE Floor)
    /\ statements = <<>>

\* rollback, of one version.
Rollback ==
    LET m == Migration(version)
    IN  /\ CanRollback
        /\ rollbacks < MaxRollbacks
        /\ Uninstalls(m)
        /\ version' = version - 1
        /\ objects' = objects \ Dropped(m)
        /\ fn' = IF m.unfn = 0 THEN fn ELSE m.unfn
        /\ valid' = [t \in Tables |-> Undone(m, t).valid]
        /\ invalid' = [t \in Tables |-> Undone(m, t).invalid]
        /\ bam' = ClearAsync(m, version)
        /\ rollbacks' = rollbacks + 1
        /\ unstrict' = unstrict \cup
               {t \in Partitions : version = 28 /\ policy[t] = "key_strict_fifo"}
        /\ broken' = broken \cup {t \in Tables : version = 40 /\ "i5" \in invalid[t]}
        /\ UNCHANGED <<noPartitioning, policy, statements, faults, creates>>

\* uninstall: every table, and every partition with the job table.
Uninstall ==
    /\ version = LatestVersion
    /\ rollbacks < MaxRollbacks
    /\ version' = 0 /\ objects' = {} /\ fn' = 0
    /\ policy' = [t \in Tables |-> "none"]
    /\ valid' = [t \in Tables |-> {}] /\ invalid' = [t \in Tables |-> {}]
    /\ bam' = <<>> /\ statements' = <<>>
    /\ rollbacks' = rollbacks + 1
    /\ unstrict' = {} /\ broken' = {}
    /\ UNCHANGED <<noPartitioning, faults, creates>>

-----------------------------------------------------------------------------
(* Queues with a table of their own. *)

\* create_queue(), as installed.
CreateQueue(t, p) ==
    /\ ~noPartitioning /\ fn # 0
    /\ policy[t] = "none"
    /\ p = "key_strict_fifo" => Snapshot(fn).strict # {}
    /\ Snapshot(fn).names \subseteq objects
    /\ creates < MaxCreates
    /\ policy' = [policy EXCEPT ![t] = p]
    /\ valid' = [valid EXCEPT ![t] = TableIndexes(Snapshot(fn), p)]
    /\ creates' = creates + 1
    /\ UNCHANGED <<noPartitioning, version, objects, fn, invalid, bam, statements, faults, rollbacks, ghosts>>

\* deleteQueue: the table's unfinished commands go with it.
DeleteQueue(t) ==
    /\ policy[t] \notin {"none", "every", "stats"}
    /\ policy' = [policy EXCEPT ![t] = "none"]
    /\ valid' = [valid EXCEPT ![t] = {}]
    /\ invalid' = [invalid EXCEPT ![t] = {}]
    /\ bam' = SelectSeq(bam, LAMBDA r : r.table # t)
    /\ statements' = SelectSeq(statements, LAMBDA r : r.table # t)
    /\ unstrict' = unstrict \ {t} /\ broken' = broken \ {t}
    /\ UNCHANGED <<noPartitioning, version, objects, fn, bounds>>

-----------------------------------------------------------------------------
(* Concurrent builds and drops. *)

\* Mutant: no row is held.
UnheldAll == DOMAIN bam

\* getNextBamCommand: held by its version's earlier rows on the table; the rows
\* that have failed come after the others.
Unheld == {i \in DOMAIN bam : \A j \in 1..i - 1 : <<bam[j].ver, bam[j].table>> # <<bam[i].ver, bam[i].table>>}
NextRow ==
    LET first == {i \in Unheld : ~bam[i].failed}
    IN  Min(IF first # {} THEN first ELSE Unheld)

\* An INVALID index left by an earlier attempt is dropped before the build.
Succeeds(r) ==
    LET present == Named(valid[r.table] \cup invalid[r.table], r.ix)
        kept == valid[r.table] \cap present
    IN  /\ valid' = [valid EXCEPT ![r.table] =
                        IF r.op = "drop" THEN @ \ present
                        ELSE IF kept # {} THEN @ ELSE @ \cup {r.ix}]
        /\ invalid' = [invalid EXCEPT ![r.table] = @ \ present]

\* A statement cut short leaves nothing, or an index that is not VALID.
Fails(r) ==
    LET present == Named(valid[r.table] \cup invalid[r.table], r.ix)
        left == IF r.op = "drop" THEN present ELSE IF present = {} THEN {r.ix} ELSE {}
    IN  /\ faults < MaxFaults
        /\ faults' = faults + 1
        /\ \E cut \in {{}, left} :
            /\ valid' = [valid EXCEPT ![r.table] = @ \ cut]
            /\ invalid' = [invalid EXCEPT ![r.table] = @ \cup cut]

BamRuns ==
    /\ bam # <<>>
    /\ Succeeds(bam[NextRow])
    /\ bam' = RemoveAt(bam, NextRow)
    /\ UNCHANGED <<noPartitioning, version, objects, fn, policy, statements, bounds, ghosts>>

BamFails ==
    /\ bam # <<>>
    /\ Fails(bam[NextRow])
    /\ bam' = [bam EXCEPT ![NextRow].failed = TRUE]
    /\ UNCHANGED <<noPartitioning, version, objects, fn, policy, statements, rollbacks, creates, ghosts>>

\* One statement after the commit; after a failure the operator drops what it
\* left and runs the rest.
StatementRuns ==
    /\ statements # <<>>
    /\ Succeeds(Head(statements))
    /\ statements' = Tail(statements)
    /\ UNCHANGED <<noPartitioning, version, objects, fn, policy, bam, bounds, ghosts>>

StatementFails ==
    /\ statements # <<>>
    /\ Fails(Head(statements))
    /\ UNCHANGED <<noPartitioning, version, objects, fn, policy, bam, statements, rollbacks, creates, ghosts>>

Next ==
    \/ Create \/ Migrate \/ CmdMigrate \/ Rollback \/ Uninstall
    \/ \E t \in Partitions : DeleteQueue(t) \/ \E p \in Policies : CreateQueue(t, p)
    \/ BamRuns \/ BamFails \/ StatementRuns \/ StatementFails

Spec == Init /\ [][Next]_vars

-----------------------------------------------------------------------------
(* The drift report: detectDrift and computeSchemaDrift. *)

BaseJobIndexes == {"i4", "i7", "i9", "i11", "i12", "i13", "i14", "i15", "i16", "i17"}
PolicyJobIndexes ==
    "i1" :> "short" @@ "i2" :> "singleton" @@ "i3" :> "stately" @@ "i6" :> "exclusive" @@
    "i8" :> "key_strict_fifo" @@ "i10" :> "key_strict_fifo"

ExpectedManagedIndexes(t) ==
    CASE policy[t] = "every" -> BaseJobIndexes \cup DOMAIN PolicyJobIndexes
      [] policy[t] = "stats" -> {"stats_i2"}
      [] policy[t] = "none" -> {}
      [] OTHER -> BaseJobIndexes \cup {x \in DOMAIN PolicyJobIndexes : PolicyJobIndexes[x] = policy[t]}

BuildsOf(rows, t) == {rows[i].ix : i \in {k \in DOMAIN rows : rows[k].table = t /\ rows[k].op = "build"}}

Missing(t) == ExpectedManagedIndexes(t) \ (valid[t] \cup invalid[t] \cup BuildsOf(bam, t))
Invalid(t) == ExpectedManagedIndexes(t) \cap invalid[t]
\* A constraint is not an index, and those of the job tables are not compared.
ExtraIndexes(t) == ((valid[t] \cup invalid[t]) \ ExpectedManagedIndexes(t)) \ {"check"}

Functions == PartitionFunctions \cup {"job_now", "job_table_format anchored"}
\* A function is compared by its body; one that is not expected is let be.
FunctionDrift == (CreateFunctions \ objects) \cup (IF fn # CurrentFn THEN {"create_queue"} ELSE {})
\* Tables, columns and defaults, both ways.
ColumnDrift == ((CreateObjects \ objects) \cup (objects \ CreateObjects)) \ Functions

DriftOk ==
    /\ \A t \in Tables : Missing(t) = {} /\ Invalid(t) = {}
    /\ FunctionDrift = {}
    /\ ColumnDrift = {}

-----------------------------------------------------------------------------
(* Properties *)

TypeOK ==
    /\ noPartitioning \in BOOLEAN
    /\ version \in {0} \cup MinVersion..LatestVersion
    /\ policy \in [Tables -> Policies \cup {"none", "every", "stats"}]
    /\ \A t \in Tables : valid[t] \cap invalid[t] = {}
    /\ unstrict \subseteq Partitions /\ broken \subseteq Tables
    /\ faults \in 0..MaxFaults /\ rollbacks \in 0..MaxRollbacks /\ creates \in 0..MaxCreates

\* v28's command builds on the shared table alone: a partition of key_strict_fifo that
\* was there when v28 was rolled back never gets its index and constraint back.
LostStrict(t) == IF t \in unstrict THEN {"i8", "check"} ELSE {}

\* At the current version, however it was reached, the drift report names nothing
\* that is not still owed: the columns, functions and create_queue() are those of a
\* fresh install, an index is missing or INVALID only while a bam row or a statement
\* of the command line is to build it, and once nothing is owed the report is clean.
\* The job_i8 of a partition that went below v28 is the exception.
DriftExplained ==
    version = LatestVersion =>
        /\ FunctionDrift = {} /\ ColumnDrift = {}
        /\ \A t \in Tables :
            /\ Missing(t) \subseteq BuildsOf(statements, t) \cup LostStrict(t)
            /\ Invalid(t) \subseteq BuildsOf(bam, t) \cup BuildsOf(statements, t)
        /\ bam = <<>> /\ statements = <<>> /\ unstrict = {} => DriftOk

OwedOn(t) ==
    LET rows == bam \o statements
    IN  {rows[i].ix : i \in {k \in DOMAIN rows : rows[k].table = t}}

\* At every version, reached by upgrade or by rollback, a job table has the indexes
\* that create_queue() of that version gives a new one, in their form: what differs
\* is what an unfinished row or statement is still to build or drop.  Four known
\* exceptions: v31 leaves the tables it finds with the job_i5 they had; v33's build
\* of job_i5, when it fails and is retried after v40's drop, brings it back; v40's
\* rollback takes a job_i5 whose drop was interrupted for one that is there; and a
\* partition of key_strict_fifo that goes below v28 loses its index and constraint.
VersionShape ==
    version > MinVersion =>
        /\ fn = FnOf(version)
        /\ \A r \in {bam[i] : i \in DOMAIN bam} : r.ver <= version
        /\ \A t \in Tables :
            LET released == ReleasedIndexes(version, t, policy[t])
                differs == (released \ valid[t]) \cup (valid[t] \ released) \cup invalid[t]
            IN  \A x \in differs :
                    \/ \E y \in OwedOn(t) : SameName(x, y)
                    \/ version \in {31, 32} /\ x \in FetchForms
                    \/ version >= 40 /\ x = "i5"
                    \/ t \in broken /\ x = "i5" /\ x \in invalid[t]
                    \/ x \in LostStrict(t)

\* No statement of an upgrade or of a rollback meets an object it expects to be
\* absent, or misses one it expects, and create_queue() names nothing that is gone.
NeverRefused ==
    /\ version \in MinVersion..LatestVersion - 1 => Installs
    /\ version > MinVersion /\ CanRollback => Uninstalls(Migration(version))
    /\ fn # 0 => Snapshot(fn).names \subseteq objects

\* A job table is never without a VALID fetch index, but between v33's drop of the
\* covering job_i5 and its rebuild, and where v40 was rolled back over a job_i5 that
\* was not VALID.
FetchIndexKept ==
    \A t \in JobTables :
        \/ t \in broken /\ "i5" \in invalid[t]
        \/ \E x \in valid[t] : x \in FetchForms \cup {"i11"}
        \/ \E i \in DOMAIN bam : bam[i].ver = 33 /\ bam[i].table = t /\ bam[i].ix = "i5"
        \/ \E i \in DOMAIN statements : statements[i].ver = 33 /\ statements[i].table = t /\ statements[i].ix = "i5"

\* However the schema got to a version, by install, upgrade, rollback or the command
\* line, it is that version's: its objects and indexes, what is owed accounted for, no
\* statement refused, and a drift report that says so.
SchemaSound == VersionShape /\ NeverRefused /\ FetchIndexKept /\ DriftExplained
================================================================================
