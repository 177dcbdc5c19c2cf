---------------------------------- MODULE Flow ----------------------------------
(***************************************************************************)
(* Flows: jobs with dependencies, and the Navigator that releases them.    *)
(*                                                                         *)
(* flow() inserts jobs and job_dependency rows in one transaction: a child *)
(* is blocked with pending_dependencies = the number of its parents, and a *)
(* parent carries blocking.  Completing a parent touches no child.  Any    *)
(* number of Navigators (one per instance, plus resolveFlow() calls) audit *)
(* the completed blocking parents, decrement their children and clear      *)
(* blocking, each batch in one statement.                                  *)
(*                                                                         *)
(* A statement takes its snapshot when it starts and locks rows as it goes,*)
(* so a resolve is two steps here: the start, which locks parents and sees *)
(* the children, and the end, which updates what it can still lock.  fail()*)
(* deletes a row and inserts it again, and a statement that saw the old    *)
(* row finds it deleted; `version' counts these re-inserts.                *)
(***************************************************************************)
EXTENDS Integers, FiniteSets

CONSTANTS
    Jobs,           \* jobs of the flow
    ParentsOf,      \* dependsOn, as a function from a job to its parents
    Navigators,     \* resolvers that may run at the same time
    BatchSize,      \* FLOW_BATCH_SIZE
    Ops,            \* what operators and maintenance do, a subset of Operations
    MaxVersion      \* bound: re-inserts of one row

Operations == {"cancel", "resume", "failQueued", "completeQueued", "retry", "restore",
               "delete", "sweep"}

ASSUME FlowAssumption ==
    /\ IsFiniteSet(Jobs)
    /\ ParentsOf \in [Jobs -> SUBSET Jobs]
    /\ BatchSize \in Nat \ {0}
    /\ MaxVersion \in Nat
    /\ Ops \subseteq Operations

VARIABLES
    state,          \* "queued" is created or retry
    blocked,        \* job.blocked
    blocking,       \* job.blocking
    pending,        \* job.pending_dependencies
    version,        \* which insert of the row this is
    deps,           \* job_dependency, as <<child, parent>> pairs
    nav,            \* what each Navigator is doing
    done            \* ghost: the job has completed at least once

vars == <<state, blocked, blocking, pending, version, deps, nav, done>>
rowVars == <<state, blocked, blocking, pending, version>>

States == {"absent", "queued", "active", "completed", "cancelled", "failed"}

\* What a Navigator has locked and seen, <<>> between two resolves.
Resolves == [phase : {"idle", "resolving"}, parents : SUBSET Jobs,
             saw : {<<>>} \cup [Jobs -> Nat], pairs : SUBSET (Jobs \X Jobs)]

Idle == [phase |-> "idle", parents |-> {}, saw |-> <<>>, pairs |-> {}]

Children(p) == {c \in Jobs : p \in ParentsOf[c]}

\* Rows a running resolve holds locked.  Every other statement that wants one
\* of them waits for the resolve to commit.
Locked(j) == \E n \in Navigators : j \in nav[n].parents

TypeOK ==
    /\ state \in [Jobs -> States]
    /\ blocked \in [Jobs -> BOOLEAN]
    /\ blocking \in [Jobs -> BOOLEAN]
    /\ pending \in [Jobs -> Nat]
    /\ version \in [Jobs -> Nat]
    /\ deps \subseteq Jobs \X Jobs
    /\ nav \in [Navigators -> Resolves]
    /\ done \in [Jobs -> BOOLEAN]

Init ==
    /\ state = [j \in Jobs |-> "absent"]
    /\ blocked = [j \in Jobs |-> FALSE]
    /\ blocking = [j \in Jobs |-> FALSE]
    /\ pending = [j \in Jobs |-> 0]
    /\ version = [j \in Jobs |-> 0]
    /\ deps = {}
    /\ nav = [n \in Navigators |-> Idle]
    /\ done = [j \in Jobs |-> FALSE]

\* flow(): every row and every dependency, or nothing.
SendFlow ==
    /\ \A j \in Jobs : state[j] = "absent" /\ ~done[j] /\ version[j] = 0
    /\ state' = [j \in Jobs |-> "queued"]
    /\ blocked' = [j \in Jobs |-> ParentsOf[j] # {}]
    /\ blocking' = [j \in Jobs |-> Children(j) # {}]
    /\ pending' = [j \in Jobs |-> Cardinality(ParentsOf[j])]
    /\ version' = [j \in Jobs |-> 1]
    /\ deps' = {d \in Jobs \X Jobs : d[2] \in ParentsOf[d[1]]}
    /\ UNCHANGED <<nav, done>>

-----------------------------------------------------------------------------
(* Workers and operators. *)

SetState(j, s) ==
    /\ ~Locked(j)
    /\ state' = [state EXCEPT ![j] = s]

Keep == UNCHANGED <<blocked, blocking, pending, version, deps, nav, done>>

\* fetchNextJob: state < 'active' AND NOT blocked.
Fetch(j) ==
    /\ state[j] = "queued" /\ ~blocked[j]
    /\ SetState(j, "active")
    /\ Keep

\* completeJobs: no dependency work.
Complete(j) ==
    /\ state[j] = "active"
    /\ SetState(j, "completed")
    /\ done' = [done EXCEPT ![j] = TRUE]
    /\ UNCHANGED <<blocked, blocking, pending, version, deps, nav>>

\* Mutant: the insert leaves blocking out of its columns.
ReinsertNotBlocking(j) ==
    /\ version[j] < MaxVersion
    /\ \E s \in {"queued", "failed"} : SetState(j, s)
    /\ version' = [version EXCEPT ![j] = @ + 1]
    /\ blocking' = [blocking EXCEPT ![j] = FALSE]
    /\ UNCHANGED <<blocked, pending, deps, nav, done>>

\* failJobsBody: the row is deleted and inserted again with its flow columns,
\* as retry or as failed.
Reinsert(j) ==
    /\ version[j] < MaxVersion
    /\ \E s \in {"queued", "failed"} : SetState(j, s)
    /\ version' = [version EXCEPT ![j] = @ + 1]
    /\ UNCHANGED <<blocked, blocking, pending, deps, nav, done>>

\* A worker's fail, an expiry or a lost heartbeat.
Fail(j) == state[j] = "active" /\ Reinsert(j)

\* fail() by id reaches queued jobs too, blocked ones included.
FailQueued(j) == "failQueued" \in Ops /\ state[j] = "queued" /\ Reinsert(j)

\* complete() with includeQueued releases the job it completes.
CompleteQueued(j) ==
    /\ "completeQueued" \in Ops
    /\ state[j] \in {"queued", "active"}
    /\ SetState(j, "completed")
    /\ blocked' = [blocked EXCEPT ![j] = FALSE]
    /\ pending' = [pending EXCEPT ![j] = 0]
    /\ done' = [done EXCEPT ![j] = TRUE]
    /\ UNCHANGED <<blocking, version, deps, nav>>

Cancel(j) == "cancel" \in Ops /\ state[j] \in {"queued", "active"} /\ SetState(j, "cancelled") /\ Keep

Resume(j) == "resume" \in Ops /\ state[j] = "cancelled" /\ SetState(j, "queued") /\ Keep

Retry(j) == "retry" \in Ops /\ state[j] = "failed" /\ SetState(j, "queued") /\ Keep

\* restore() puts any row back to created and leaves its flow columns alone.
RestoreJob(j) == "restore" \in Ops /\ state[j] # "absent" /\ SetState(j, "queued") /\ Keep

\* deleteJob(), of a row in any state.
DeleteJob(j) == "delete" \in Ops /\ state[j] # "absent" /\ SetState(j, "absent") /\ Keep

\* deletion(): finished past deletion_seconds or queued past keep_until.
Sweep(j) ==
    /\ "sweep" \in Ops
    /\ state[j] \in {"queued", "completed", "cancelled", "failed"}
    /\ SetState(j, "absent")
    /\ Keep

\* cleanupDependencies: rows whose job on either side is gone.
CleanupDependencies ==
    LET orphans == {d \in deps : state[d[1]] = "absent" \/ state[d[2]] = "absent"}
    IN  /\ orphans # {}
        /\ deps' = deps \ orphans
        /\ UNCHANGED <<rowVars, nav, done>>

-----------------------------------------------------------------------------
(* The Navigator: one batch of resolveFlowJobs. *)

\* Mutant: no FOR UPDATE SKIP LOCKED, two Navigators resolve one parent.
UnlockedParents == {p \in Jobs : state[p] = "completed" /\ blocking[p]}

\* The parents a resolve may lock: SKIP LOCKED passes over another's.
ResolvableParents == {p \in Jobs : state[p] = "completed" /\ blocking[p] /\ ~Locked(p)}

Least(a, b) == IF a < b THEN a ELSE b

ResolveStart(n) ==
    /\ nav[n].phase = "idle"
    /\ ResolvableParents # {}
    /\ \E P \in SUBSET ResolvableParents :
        /\ Cardinality(P) = Least(BatchSize, Cardinality(ResolvableParents))
        /\ nav' = [nav EXCEPT ![n] =
                     [phase |-> "resolving", parents |-> P, saw |-> version,
                      pairs |-> {d \in deps : d[2] \in P}]]
    /\ UNCHANGED <<rowVars, deps, done>>

\* How many of the locked parents child c waited for, in the snapshot.
Decrement(n, c) == Cardinality({d \in nav[n].pairs : d[1] = c})

\* locked_children: the rows of the snapshot that still exist and are blocked.
Reaches(n, c) ==
    /\ Decrement(n, c) > 0
    /\ state[c] # "absent"
    /\ version[c] = nav[n].saw[c]
    /\ blocked[c]

Lowered(n, c) == LET left == pending[c] - Decrement(n, c) IN IF left > 0 THEN left ELSE 0

\* Mutant: the parents stay blocking and are resolved again.
ResolveEndAgain(n) ==
    /\ nav[n].phase = "resolving"
    /\ pending' = [c \in Jobs |-> IF Reaches(n, c) THEN Lowered(n, c) ELSE pending[c]]
    /\ blocked' = [c \in Jobs |-> IF Reaches(n, c) THEN Lowered(n, c) > 0 ELSE blocked[c]]
    /\ nav' = [nav EXCEPT ![n] = Idle]
    /\ UNCHANGED <<state, blocking, version, deps, done>>

\* unblockChildrenUpdate and clearing blocking, in one statement.
ResolveEnd(n) ==
    /\ nav[n].phase = "resolving"
    /\ pending' = [c \in Jobs |-> IF Reaches(n, c) THEN Lowered(n, c) ELSE pending[c]]
    /\ blocked' = [c \in Jobs |-> IF Reaches(n, c) THEN Lowered(n, c) > 0 ELSE blocked[c]]
    /\ blocking' = [p \in Jobs |-> blocking[p] /\ p \notin nav[n].parents]
    /\ nav' = [nav EXCEPT ![n] = Idle]
    /\ UNCHANGED <<state, version, deps, done>>

\* The connection is lost: the statement rolls back.
ResolveAborts(n) ==
    /\ nav[n].phase = "resolving"
    /\ nav' = [nav EXCEPT ![n] = Idle]
    /\ UNCHANGED <<rowVars, deps, done>>

-----------------------------------------------------------------------------
JobStep(j) ==
    \/ Fetch(j) \/ Complete(j) \/ Fail(j) \/ FailQueued(j) \/ CompleteQueued(j) \/ Cancel(j)
    \/ Resume(j) \/ Retry(j) \/ RestoreJob(j) \/ DeleteJob(j) \/ Sweep(j)

NavigatorStep(n) == ResolveStart(n) \/ ResolveEnd(n) \/ ResolveAborts(n)

Next ==
    \/ SendFlow
    \/ \E j \in Jobs : JobStep(j)
    \/ CleanupDependencies
    \/ \E n \in Navigators : NavigatorStep(n)

Spec == Init /\ [][Next]_vars

\* The poll timer starts a pass again and again on some instance, and a pass
\* whose connection holds reaches its end.
Fairness == \A n \in Navigators : WF_vars(ResolveStart(n)) /\ SF_vars(ResolveEnd(n))

FairSpec == Spec /\ Fairness

-----------------------------------------------------------------------------
(* Properties. *)

\* docs/api/jobs.md: a dependent job "won't be eligible for fetching until all
\* parent jobs have completed".  No worker ever claims a job one of whose
\* parents has not completed, whatever batches, retries, cancels, restores and
\* deletions happened on the way.  A job that an operator completed while it was
\* blocked is released by that, and is outside the promise.
NoEarlyStart ==
    [][\A c \in Jobs : state[c] = "queued" /\ state'[c] = "active" /\ ~done[c]
        => \A p \in ParentsOf[c] : done[p]]_vars

\* pending_dependencies never undercounts: however many resolvers run, a child
\* that has not completed still counts every parent whose blocking flag says it
\* was not resolved.
PendingCoversUnresolved ==
    \A c \in Jobs :
        ~done[c] => pending[c] >= Cardinality({p \in ParentsOf[c] : blocking[p]})

\* Every parent of the queued child c has completed.
ReadyToRelease(c) ==
    /\ ParentsOf[c] # {} /\ state[c] = "queued"
    /\ \A p \in ParentsOf[c] : done[p]

Released(c) == ~blocked[c] \/ state[c] # "queued"

\* docs/api/jobs.md: the resolver "unblocks any dependents that are now ready":
\* once every parent has completed, a queued child is released in the end, however
\* resolvers overlap, abort and batch.  A child that fail() stored anew while it
\* waited, or a parent that was run again or removed before a resolver came, is
\* outside this promise (see ReadyAlwaysReleased).
ReadyChildReleased ==
    \A c \in Jobs :
        ReadyToRelease(c) ~> \/ Released(c)
                             \/ version[c] > 1
                             \/ \E p \in ParentsOf[c] : state[p] # "completed"

\* The same without the exceptions, as docs/api/jobs.md puts it.
ReadyAlwaysReleased == \A c \in Jobs : ReadyToRelease(c) ~> Released(c)
================================================================================
