------------------------------- MODULE JobClaims -------------------------------
(***************************************************************************)
(* The life of a job row and of the claims workers take on it.             *)
(*                                                                         *)
(* A worker claims a job with fetchNextJob, runs its handler outside any   *)
(* transaction and settles it later.  Meanwhile the supervisor may expire  *)
(* the job, an operator may cancel, fail, complete, resume, retry, restore *)
(* or delete it, and another worker may claim it again.  The worker's      *)
(* settle is fenced on (id, retry_count), the attempt it fetched.          *)
(*                                                                         *)
(* A row is what the jobs table stores for one id.  Timestamps keep only   *)
(* what the code asks of them: started_on and completed_on whether they    *)
(* are set, start_after whether it has passed.  Expiry, heartbeat loss,    *)
(* retention and retry delays are events that may happen at any moment, so *)
(* every order of clocks, pauses and crashes is covered.                   *)
(***************************************************************************)
EXTENDS Integers, FiniteSets

CONSTANTS
    Jobs,           \* job ids of one queue
    Workers,        \* workers of all instances, one job per fetch
    NoJob,          \* what an idle worker holds
    NoGroup,        \* group_id IS NULL
    GroupOf,        \* the group_id of each job
    GroupLimit,     \* the groupConcurrency every worker fetches with
    RetryLimit,     \* retry_limit of the queue
    Ops,            \* the public operations clients call, a subset of Operations
    MaxClaims,      \* bound: claims taken of one job id
    MaxRetryLimit   \* bound: retry_limit after retry() calls

Operations == {"cancel", "resume", "retry", "fail", "complete", "delete", "restore"}

ASSUME ConstantsAssumption ==
    /\ NoJob \notin Jobs
    /\ IsFiniteSet(Jobs)
    /\ IsFiniteSet(Workers)
    /\ GroupLimit \in Nat \ {0}
    /\ RetryLimit \in Nat
    /\ MaxClaims \in Nat
    /\ MaxRetryLimit \in Nat
    /\ Ops \subseteq Operations
    /\ GroupOf \in [Jobs -> {GroupOf[j] : j \in Jobs}]

VARIABLES
    row,        \* the stored row of each id
    phase,      \* what each worker is doing
    held,       \* the job its claim is on
    attempt,    \* the retry_count it fetched, which its settles are fenced on
    token,      \* ghost: the number of its claim among the claims of that id
    seen,       \* candidates in the snapshot of its running fetch statement
    claims,     \* ghost: claims taken of each id so far
    resetAt,    \* ghost: claims taken when attempt numbering last restarted
    resumed     \* ghost: the row was resumed since it was sent

workerVars == <<phase, held, attempt, token, seen>>
ghostVars == <<claims, resetAt, resumed>>
vars == <<row, workerVars, ghostVars>>

\* JOB_STATES is an enum whose order the statements rely on: state < 'active'
\* is Queued, state < 'completed' is Unsettled.
Queued == {"created", "retry"}
Unsettled == Queued \cup {"active"}
JobStates == Unsettled \cup {"completed", "cancelled", "failed"}

\* "absent" stands for an id with no row.
Row == [state : JobStates \cup {"absent"}, retryCount : Nat, retryLimit : Nat,
        started : BOOLEAN, completedOn : BOOLEAN, due : BOOLEAN]

NoRow == [state |-> "absent", retryCount |-> 0, retryLimit |-> 0,
          started |-> FALSE, completedOn |-> FALSE, due |-> FALSE]

Phases == {"idle", "fetching", "claimed", "excess", "running", "overrun"}

\* The phases in which a worker believes it holds a claim.
Holding == {"claimed", "excess", "running", "overrun"}

TypeOK ==
    /\ row \in [Jobs -> Row]
    /\ phase \in [Workers -> Phases]
    /\ held \in [Workers -> Jobs \cup {NoJob}]
    /\ attempt \in [Workers -> Nat]
    /\ token \in [Workers -> Nat]
    /\ seen \in [Workers -> SUBSET Jobs]
    /\ claims \in [Jobs -> Nat]
    /\ resetAt \in [Jobs -> Nat]
    /\ resumed \in [Jobs -> BOOLEAN]
    /\ \A w \in Workers : (held[w] \in Jobs) <=> (phase[w] \in Holding)

Init ==
    /\ row = [j \in Jobs |-> NoRow]
    /\ phase = [w \in Workers |-> "idle"]
    /\ held = [w \in Workers |-> NoJob]
    /\ attempt = [w \in Workers |-> 0]
    /\ token = [w \in Workers |-> 0]
    /\ seen = [w \in Workers |-> {}]
    /\ claims = [j \in Jobs |-> 0]
    /\ resetAt = [j \in Jobs |-> 0]
    /\ resumed = [j \in Jobs |-> FALSE]

-----------------------------------------------------------------------------
(* What the statements do to a row. *)

\* insertJobs: a new row in created, due now or deferred by startAfter.
NewRow(due) ==
    [state |-> "created", retryCount |-> 0, retryLimit |-> RetryLimit,
     started |-> FALSE, completedOn |-> FALSE, due |-> due]

\* The SET clause of fetchNextJob: the first claim of a job leaves retry_count
\* alone and every later one increments it.
ClaimedRow(r) ==
    [r EXCEPT !.state = "active",
              !.started = TRUE,
              !.retryCount = IF r.started THEN r.retryCount + 1 ELSE r.retryCount]

\* completeJobsUpdate.
CompletedRow(r) == [r EXCEPT !.state = "completed", !.completedOn = TRUE]

\* Mutant: <= for < lets a job run once more than retry_limit allows.
FailedRowOneTooMany(r, forceTerminal, due) ==
    LET retries == r.retryCount <= r.retryLimit /\ ~forceTerminal
    IN  [r EXCEPT !.state = IF retries THEN "retry" ELSE "failed",
                  !.completedOn = ~retries,
                  !.due = due]

\* failJobsBody: the row is deleted and inserted again as retry while attempts
\* remain, else as failed.  The retry delay moves start_after, except that
\* retry_count = retry_limit keeps it.
FailedRow(r, forceTerminal, due) ==
    LET retries == r.retryCount < r.retryLimit /\ ~forceTerminal
    IN  [r EXCEPT !.state = IF retries THEN "retry" ELSE "failed",
                  !.completedOn = ~retries,
                  !.due = IF r.retryCount = r.retryLimit THEN r.due ELSE due]

\* restoreJobs has no state condition and leaves completed_on as it was.
RestoredRow(r) ==
    IF r.state = "absent" THEN r ELSE [r EXCEPT !.state = "created", !.started = FALSE]

-----------------------------------------------------------------------------
(* Producers, time and the fetch statement. *)

\* send() / insert().  An id may be used again once its row is gone, and its
\* attempts are numbered from 0 again.
Send(j) ==
    /\ row[j].state = "absent"
    /\ claims[j] + RetryLimit < MaxClaims   \* bound: room for every attempt
    /\ \E due \in BOOLEAN : row' = [row EXCEPT ![j] = NewRow(due)]
    /\ resetAt' = [resetAt EXCEPT ![j] = claims[j]]
    /\ resumed' = [resumed EXCEPT ![j] = FALSE]
    /\ UNCHANGED <<workerVars, claims>>

\* start_after <= job_now() becomes true.
StartAfterPasses(j) ==
    /\ row[j].state \in JobStates
    /\ ~row[j].due
    /\ row' = [row EXCEPT ![j].due = TRUE]
    /\ UNCHANGED <<workerVars, ghostVars>>

\* Mutant: a fetch that forgets retry.
FetchableOnce(j) ==
    /\ row[j].state = "created"
    /\ row[j].due
    /\ claims[j] < MaxClaims

\* The WHERE clause of fetchNextJob on one row.
Fetchable(j) ==
    /\ row[j].state \in Queued
    /\ row[j].due
    /\ claims[j] < MaxClaims

\* FOR UPDATE ... SKIP LOCKED evaluates the WHERE clause again on the row it
\* locked (without SKIP LOCKED the UPDATE repeats the state condition).
LockedRowPasses(j) == Fetchable(j)

ActiveIn(g) == {j \in Jobs : GroupOf[j] = g /\ row[j].state = "active"}

\* groupConcurrencyFilter: the active jobs of the group leave room for one more.
GroupHasRoom(j) ==
    GroupOf[j] = NoGroup \/ Cardinality(ActiveIn(GroupOf[j])) < GroupLimit

\* The statement starts: its snapshot decides the candidates and the group
\* counts.  A claim another statement commits after this is not in it.
FetchSnapshot(w) ==
    /\ phase[w] = "idle"
    /\ \E j \in Jobs : Fetchable(j) /\ GroupHasRoom(j)
    /\ phase' = [phase EXCEPT ![w] = "fetching"]
    /\ seen' = [seen EXCEPT ![w] = {j \in Jobs : Fetchable(j) /\ GroupHasRoom(j)}]
    /\ UNCHANGED <<row, held, attempt, token, ghostVars>>

\* The statement locks a candidate that is still fetchable (the locked row is
\* checked again), updates it and commits.  A job with a group is counted next.
FetchClaim(w) ==
    /\ phase[w] = "fetching"
    /\ \E j \in seen[w] :
        /\ LockedRowPasses(j)
        /\ row' = [row EXCEPT ![j] = ClaimedRow(row[j])]
        /\ phase' = [phase EXCEPT ![w] = IF GroupOf[j] = NoGroup THEN "running" ELSE "claimed"]
        /\ held' = [held EXCEPT ![w] = j]
        /\ attempt' = [attempt EXCEPT ![w] = ClaimedRow(row[j]).retryCount]
        /\ token' = [token EXCEPT ![w] = claims[j] + 1]
        /\ claims' = [claims EXCEPT ![j] = claims[j] + 1]
    /\ seen' = [seen EXCEPT ![w] = {}]
    /\ UNCHANGED <<resetAt, resumed>>

\* Every candidate went to another statement meanwhile: the fetch is empty.
FetchNothing(w) ==
    /\ phase[w] = "fetching"
    /\ \A j \in seen[w] : ~LockedRowPasses(j)
    /\ phase' = [phase EXCEPT ![w] = "idle"]
    /\ seen' = [seen EXCEPT ![w] = {}]
    /\ UNCHANGED <<row, held, attempt, token, ghostVars>>

\* The worker lets its job go: worker.jobs = [] at the end of a round.
Release(w, next) ==
    /\ phase' = [phase EXCEPT ![w] = next]
    /\ held' = [held EXCEPT ![w] = NoJob]
    /\ attempt' = [attempt EXCEPT ![w] = 0]
    /\ token' = [token EXCEPT ![w] = 0]
    /\ UNCHANGED seen

\* Mutant: no count after the claim.
CountNothing(w) ==
    /\ phase[w] = "claimed"
    /\ phase' = [phase EXCEPT ![w] = "running"]
    /\ UNCHANGED <<row, held, attempt, token, seen, ghostVars>>

\* Manager.#fetch counts the active jobs of the group after its own claim has
\* committed.  Above the limit the job is excess and will be given back.
CountGroup(w) ==
    /\ phase[w] = "claimed"
    /\ phase' = [phase EXCEPT ![w] =
                    IF Cardinality(ActiveIn(GroupOf[held[w]])) > GroupLimit
                    THEN "excess" ELSE "running"]
    /\ UNCHANGED <<row, held, attempt, token, seen, ghostVars>>

\* restore() of one id.
Restore(j) ==
    /\ row' = [row EXCEPT ![j] = RestoredRow(row[j])]
    /\ resetAt' = [resetAt EXCEPT ![j] = claims[j]]
    /\ UNCHANGED <<claims, resumed>>

\* Manager.#giveBack restores the excess job by its id alone.
GiveBack(w) ==
    /\ phase[w] = "excess"
    /\ Restore(held[w])
    /\ Release(w, "idle")

-----------------------------------------------------------------------------
(* The worker's settles, fenced to the attempt it fetched. *)

\* Mutant: id and state alone, as before the fence.
ActiveIsEnough(w) == row[held[w]].state = "active"

\* Mutant: the attempt alone.
AttemptIsEnough(w) == row[held[w]].retryCount = attempt[w]

\* attemptFence.
FenceHolds(w) ==
    /\ row[held[w]].state = "active"
    /\ row[held[w]].retryCount = attempt[w]

\* A settle statement by w: `settled' are the rows it may leave behind.  A job
\* the fence does not match is left alone.
SettleHeld(w, settled) ==
    IF FenceHolds(w)
    THEN \E r \in settled : row' = [row EXCEPT ![held[w]] = r]
    ELSE UNCHANGED row

FailOutcomes(j, forceTerminal) ==
    {FailedRow(row[j], forceTerminal, due) : due \in BOOLEAN}

\* The handler returned: complete(name, jobs).
HandlerCompletes(w) ==
    /\ phase[w] = "running"
    /\ SettleHeld(w, {CompletedRow(row[held[w]])})
    /\ Release(w, "idle")
    /\ UNCHANGED ghostVars

\* The handler threw: fail(name, jobs, err).
HandlerFails(w) ==
    /\ phase[w] = "running"
    /\ SettleHeld(w, FailOutcomes(held[w], FALSE))
    /\ Release(w, "idle")
    /\ UNCHANGED ghostVars

\* A perJobResults handler returned the deadletter disposition.
HandlerDeadLetters(w) ==
    /\ phase[w] = "running"
    /\ SettleHeld(w, FailOutcomes(held[w], TRUE))
    /\ Release(w, "idle")
    /\ UNCHANGED ghostVars

\* The handler outran expireInSeconds: its job is failed, and the worker waits
\* for the abandoned handler before it fetches again (#awaitHandlerOverrun).
HandlerTimesOut(w) ==
    /\ phase[w] = "running"
    /\ SettleHeld(w, FailOutcomes(held[w], FALSE))
    /\ phase' = [phase EXCEPT ![w] = "overrun"]
    /\ UNCHANGED <<held, attempt, token, seen, ghostVars>>

OverrunReturns(w) ==
    /\ phase[w] = "overrun"
    /\ Release(w, "idle")
    /\ UNCHANGED <<row, ghostVars>>

\* The process dies; its claim stays in the table as an active row.  A process
\* that dies inside the fetch statement leaves nothing behind.
Crash(w) ==
    /\ phase[w] \in Holding
    /\ Release(w, "idle")
    /\ UNCHANGED <<row, ghostVars>>

-----------------------------------------------------------------------------
(* The supervisor and the public operations, which go by id alone. *)

Update(j, r) ==
    /\ row' = [row EXCEPT ![j] = r]
    /\ UNCHANGED workerVars

\* failJobsByTimeout and failJobsByHeartbeat.
Expire(j) ==
    /\ row[j].state = "active"
    /\ \E r \in FailOutcomes(j, FALSE) : Update(j, r)
    /\ UNCHANGED ghostVars

\* deletion(): finished jobs past deletion_seconds, and queued jobs past
\* keep_until.  The first arm reads completed_on and not the state.
Sweep(j) ==
    /\ row[j].completedOn \/ row[j].state \in Queued
    /\ Update(j, NoRow)
    /\ UNCHANGED ghostVars

CancelJob(j) ==
    /\ "cancel" \in Ops
    /\ row[j].state \in Unsettled
    /\ Update(j, [row[j] EXCEPT !.state = "cancelled", !.completedOn = TRUE])
    /\ UNCHANGED ghostVars

\* started_on survives, so the next claim still increments retry_count.
ResumeJob(j) ==
    /\ "resume" \in Ops
    /\ row[j].state = "cancelled"
    /\ Update(j, [row[j] EXCEPT !.state = "created", !.completedOn = FALSE])
    /\ resumed' = [resumed EXCEPT ![j] = TRUE]
    /\ UNCHANGED <<claims, resetAt>>

RetryJob(j) ==
    /\ "retry" \in Ops
    /\ row[j].state = "failed"
    /\ row[j].retryLimit < MaxRetryLimit
    /\ claims[j] + row[j].retryLimit - row[j].retryCount < MaxClaims    \* bound
    /\ Update(j, [row[j] EXCEPT !.state = "retry", !.completedOn = FALSE,
                                !.retryLimit = row[j].retryLimit + 1])
    /\ UNCHANGED ghostVars

FailJob(j) ==
    /\ "fail" \in Ops
    /\ row[j].state \in Unsettled
    /\ \E r \in FailOutcomes(j, FALSE) : Update(j, r)
    /\ UNCHANGED ghostVars

\* complete() with ids; includeQueued widens it to the queued states.
CompleteJob(j) ==
    /\ "complete" \in Ops
    /\ row[j].state \in Unsettled
    /\ Update(j, CompletedRow(row[j]))
    /\ UNCHANGED ghostVars

DeleteJob(j) ==
    /\ "delete" \in Ops
    /\ row[j].state \in JobStates
    /\ Update(j, NoRow)
    /\ UNCHANGED ghostVars

RestoreJob(j) ==
    /\ "restore" \in Ops
    /\ row[j].state \in JobStates
    /\ Restore(j)
    /\ UNCHANGED workerVars

-----------------------------------------------------------------------------
WorkerStep(w) ==
    \/ FetchSnapshot(w) \/ FetchClaim(w) \/ FetchNothing(w) \/ CountGroup(w) \/ GiveBack(w)
    \/ HandlerCompletes(w) \/ HandlerFails(w) \/ HandlerDeadLetters(w) \/ HandlerTimesOut(w)
    \/ OverrunReturns(w) \/ Crash(w)

RowStep(j) ==
    \/ Send(j) \/ StartAfterPasses(j) \/ Expire(j) \/ Sweep(j)
    \/ CancelJob(j) \/ ResumeJob(j) \/ RetryJob(j) \/ FailJob(j) \/ CompleteJob(j)
    \/ DeleteJob(j) \/ RestoreJob(j)

Next == (\E w \in Workers : WorkerStep(w)) \/ (\E j \in Jobs : RowStep(j))

Spec == Init /\ [][Next]_vars

\* A running worker goes on: the poll loop fetches again, the fetch and settle
\* statements return, and a handler returns, throws or is timed out by
\* resolveWithinSeconds.
WorkerProgress(w) ==
    \/ FetchSnapshot(w) \/ FetchClaim(w) \/ FetchNothing(w) \/ CountGroup(w) \/ GiveBack(w)
    \/ HandlerCompletes(w) \/ HandlerFails(w) \/ HandlerTimesOut(w) \/ OverrunReturns(w)

FairSpec ==
    /\ Spec
    /\ \A w \in Workers : WF_vars(WorkerProgress(w))
    /\ \A j \in Jobs : WF_vars(StartAfterPasses(j)) /\ WF_vars(Expire(j))

-----------------------------------------------------------------------------
(* Properties. *)

\* The claim of w is still the one the table knows: the row is active and no
\* later claim has been taken.
Live(w) ==
    /\ phase[w] \in Holding
    /\ row[held[w]].state = "active"
    /\ token[w] = claims[held[w]]

\* The numbering of attempts has not restarted since w took its claim.
Numbered(w) == token[w] > resetAt[held[w]]

\* The attempt fence (plans.ts attemptFence): whenever the fence of a worker's
\* settle matches the row, the row is active under that worker's own claim.
\* A worker whose claim lapsed can therefore never complete, fail or dead
\* letter a newer attempt.  Only a restore() or an id sent again, which
\* restart the numbering, are outside the promise.
FenceNamesOwnClaim ==
    \A w \in Workers :
        phase[w] \in Holding /\ FenceHolds(w) /\ Numbered(w) => Live(w)

\* The same promise for the steps: when a worker leaves `running' and the row it
\* fetched changes, the change ends that worker's own live claim.
SettlesOwnClaimOnly ==
    [][\A w \in Workers :
        phase[w] = "running" /\ phase'[w] # "running" /\ Numbered(w)
            /\ row'[held[w]] # row[held[w]]
        => Live(w)]_vars

\* Retry accounting across claims, expiries, cancels and retries: a row that was
\* never resumed is claimed at most retry_limit + 1 times since its attempts
\* were numbered from the start.
AttemptBudget ==
    \A j \in Jobs :
        row[j].state \in JobStates /\ ~resumed[j]
        => claims[j] - resetAt[j] <= row[j].retryLimit + 1

\* The inductive strengthening of the two promises above.  A claim taken after
\* the numbering restarted pins started_on, its attempt is the row's while it is
\* the last claim, and below the row's once it is not.
AttemptOrder ==
    \A w \in Workers :
        phase[w] \in Holding =>
            /\ token[w] <= claims[held[w]]
            /\ Numbered(w) /\ row[held[w]].state \in JobStates =>
                /\ row[held[w]].started
                /\ token[w] = claims[held[w]] => attempt[w] = row[held[w]].retryCount
                /\ token[w] < claims[held[w]] => attempt[w] < row[held[w]].retryCount

\* How retry_count, retry_limit and started_on account for the claims taken.
RetryAccounting ==
    \A j \in Jobs :
        /\ resetAt[j] <= claims[j]
        /\ row[j].state \in JobStates =>
            /\ ~row[j].started => claims[j] = resetAt[j]
            /\ row[j].started => claims[j] - resetAt[j] <= row[j].retryCount + 1
            /\ ~resumed[j] =>
                /\ row[j].retryCount <= row[j].retryLimit
                /\ row[j].state = "created" => ~row[j].started
                /\ row[j].state = "retry" /\ row[j].started
                    => row[j].retryCount < row[j].retryLimit

\* groupConcurrency across instances: at most GroupLimit handlers run under a
\* live claim in one group, although two fetch statements may each miss the
\* claim of the other.
GroupLimitHolds ==
    \A g \in {GroupOf[j] : j \in Jobs} \ {NoGroup} :
        Cardinality({w \in Workers : phase[w] = "running" /\ Live(w) /\ GroupOf[held[w]] = g})
            <= GroupLimit

\* Every accepted job is settled in the end (completed, failed for good, or
\* removed), whatever crashes, expiries and timeouts happen: a claim whose worker
\* died is taken out of active by the supervisor's expiry, and a retry is fetched.
EveryJobSettles ==
    \A j \in Jobs : row[j].state \in Unsettled ~> row[j].state \notin Unsettled

\* plans.ts, attemptFence: "pg-boss itself never restores a job whose handler is
\* still running".  No give-back puts a row back to created under a handler
\* that runs with a live claim on it.
NeverRestoresRunningJob ==
    [][\A w, v \in Workers :
        phase[w] = "excess" /\ phase'[w] = "idle" /\ phase[v] = "running" /\ Live(v)
            /\ held[v] = held[w]
        => row'[held[v]].state = "active"]_vars
================================================================================
