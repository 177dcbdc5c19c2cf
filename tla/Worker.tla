-------------------------------- MODULE Worker --------------------------------
(***************************************************************************)
(* The workers of one instance on one queue: the loop of worker.ts, a      *)
(* batch's way through #processJobs (plain, with per-job results, or in a  *)
(* transaction), the slots of localGroupConcurrency, the wake-ups of the   *)
(* Notifier, and the shutdown of index.ts: manager.stop(), the grace, then *)
(* failWip() and the drain.  Other instances are the environment: they     *)
(* claim, settle and expire the same rows.                                 *)
(*                                                                         *)
(* A step is one statement on the database or one stretch of code between  *)
(* two awaits.  `holder', `writes', `unlimited', `reset' and wk[w].owed    *)
(* are ghosts that only the properties read.                               *)
(***************************************************************************)
EXTENDS Integers, FiniteSets, FiniteSetsExt

CONSTANTS
    Jobs, Workers,
    GroupOf,        \* [Jobs -> group], NoGroup for a job without one
    NoGroup,
    LocalLimit,     \* localGroupConcurrency
    BatchSize,
    Setups,         \* configurations, see WorkerAssumption
    Other, Nobody,  \* holders that are not workers of this instance
    FailWipErrors   \* whether fail() inside failWip() may raise

ASSUME WorkerAssumption ==
    /\ IsFiniteSet(Jobs) /\ IsFiniteSet(Workers)
    /\ Other \notin Workers /\ Nobody \notin Workers /\ Other # Nobody
    /\ LocalLimit \in Nat \ {0} /\ BatchSize \in Nat \ {0}
    /\ Setups \subseteq [mode : {"batch", "perJob", "transactional"},
                          useListenNotify : BOOLEAN, retryLimit : Nat,
                          workers : SUBSET Workers, maxStarts : Nat, maxFaults : Nat]
    /\ FailWipErrors \in BOOLEAN

VARIABLES
    setup,      \* how the workers settle a batch, whether there is a Notifier, the
                \* jobs' retry_limit, the workers used, and two bounds: the work()
                \* calls per worker, and the faults: errors, expiries, lost
                \* connections, claims by other instances
    row,        \* the job table: [state, retry, started] per job
    lock,       \* the worker whose open transaction has changed the row
    wk,         \* the workers, see Fresh
    slots,      \* #localGroupActive: slots taken per group
    limited,    \* whether #localGroupConfig holds the queue's limit
    loose,      \* how many abandoned handlers work on a set of jobs
    listening, notice,      \* the Notifier's connection, a NOTIFY on its way
    life,       \* the instance: up, stopped, failing, closed
    todo,       \* the workers failWip() has yet to reach: "fail", "abort", "none"
    faults,     \* how many faults there have been
    holder, writes, unlimited, reset   \* ghosts

db == <<row, lock, holder>>
groupVars == <<slots, limited, loose, unlimited>>
listenVars == <<listening, notice>>
lifeVars == <<life, todo>>
ghosts == <<writes, reset>>
vars == <<setup, db, wk, groupVars, listenVars, lifeVars, faults, ghosts>>

Groups == {GroupOf[j] : j \in Jobs} \ {NoGroup}
Grouped(S, g) == {j \in S : GroupOf[j] = g}
InGroup(S, g) == Cardinality(Grouped(S, g))
None == [j \in {} |-> 0]
Row(s, r, b) == [state |-> s, retry |-> r, started |-> b]

\* fetched, jobs (worker.jobs) and batch map jobs to the attempts fetched; rest is
\* what perJobResults has still to fail; running: the handler has not returned;
\* ignored: the ignoreGroups of a fetch in flight; ctl: there is an abortController.
Fresh == [pc |-> "loop", fetched |-> None, jobs |-> None, batch |-> None, rest |-> {},
          running |-> FALSE, ignored |-> {}, ctl |-> FALSE, aborted |-> FALSE,
          stopping |-> FALSE, graceExpired |-> FALSE, notified |-> FALSE, owed |-> FALSE,
          starts |-> 1]

Init ==
    /\ setup \in Setups
    /\ row = [j \in Jobs |-> Row(IF setup.useListenNotify THEN "absent" ELSE "queued", 0, FALSE)]
    /\ lock = [j \in Jobs |-> Nobody] /\ holder = [j \in Jobs |-> Nobody]
    /\ wk = [w \in Workers |-> IF w \in setup.workers THEN Fresh ELSE [Fresh EXCEPT !.pc = "stopped"]]
    /\ slots = [g \in Groups |-> 0] /\ limited = TRUE /\ unlimited = FALSE
    /\ loose = [S \in SUBSET Jobs |-> 0]
    /\ listening = FALSE /\ notice = FALSE /\ faults = 0
    /\ life = "up" /\ todo = [w \in Workers |-> "none"]
    /\ writes = [j \in Jobs |-> 0] /\ reset = {}

-----------------------------------------------------------------------------
(* The job table, and the other instances *)

\* The fence of a settle: the row is active at the attempt that was fetched.
Matches(claim, j) == row[j].state = "active" /\ row[j].retry = claim[j]

Completed(r) == [r EXCEPT !.state = "completed"]
Failed(r) == [r EXCEPT !.state = IF r.retry < setup.retryLimit THEN "queued" ELSE "failed"]
Claimed(r) == Row("active", IF r.started THEN r.retry + 1 ELSE r.retry, TRUE)

\* The rows of S become f of themselves and are nobody's claim any more.
Write(S, f(_)) ==
    /\ row' = [j \in Jobs |-> IF j \in S THEN f(row[j]) ELSE row[j]]
    /\ holder' = [j \in Jobs |-> IF j \in S THEN Nobody ELSE holder[j]]

\* One fenced UPDATE over S on a pooled connection: it waits for the row of an
\* open transaction, and leaves alone what the fence does not match.
Settle(claim, S, f(_)) ==
    LET hit == {j \in S : Matches(claim, j)} IN
    /\ \A j \in hit : lock[j] = Nobody
    /\ Write(hit, f)
    /\ UNCHANGED lock

\* The instance gives up its claims of w without a settle: expiry has them.
GivesUp(w) == holder' = [j \in Jobs |-> IF holder[j] = w THEN Nobody ELSE holder[j]]

\* A send, and the NOTIFY that commits with it.
Send(j) ==
    /\ row[j].state = "absent"
    /\ row' = [row EXCEPT ![j] = Row("queued", 0, FALSE)]
    /\ notice' = (notice \/ listening)
    /\ UNCHANGED <<setup, lock, holder, wk, ghosts, groupVars, listening, lifeVars>>

OtherStep(j, f(_), h) ==
    /\ lock[j] = Nobody
    /\ row' = [row EXCEPT ![j] = f(@)]
    /\ holder' = [holder EXCEPT ![j] = h]
    /\ UNCHANGED <<setup, lock, wk, ghosts, groupVars, listenVars, lifeVars>>

\* Another instance's worker claims a job, or completes the claim it has.
OtherClaims(j) == row[j].state = "queued" /\ OtherStep(j, Claimed, Other)
OtherCompletes(j) ==
    row[j].state = "active" /\ holder[j] = Other /\ OtherStep(j, Completed, Nobody)

\* A supervisor expires a claim, by time or by a lost heartbeat.
Expire(j) == row[j].state = "active" /\ OtherStep(j, Failed, Nobody)

-----------------------------------------------------------------------------
(* The loop of worker.ts, and the local groups *)

At(w, s) == wk[w].pc = s
Become(w, r) == wk' = [wk EXCEPT ![w] = r]

\* Mutant: a notification that came during the round is not looked at.
EndRoundDeaf(w, r) ==
    \/ Become(w, [r EXCEPT !.pc = "loop"])
    \/ ~r.stopping /\ Become(w, [r EXCEPT !.pc = "sleeping"])

\* The end of a round: sleep, unless stopping, notified, or the interval is over.
EndRound(w, r) ==
    \/ Become(w, [r EXCEPT !.pc = "loop"])
    \/ ~r.stopping /\ ~r.notified /\ Become(w, [r EXCEPT !.pc = "sleeping"])

Limit == IF limited THEN LocalLimit ELSE Cardinality(Jobs)

\* #getGroupsAtLocalCapacity, read when the fetch is built.
AtLocalCapacity == IF limited THEN {g \in Groups : slots[g] >= LocalLimit} ELSE {}

\* A round begins, at once or when the poll delay is over.
FetchStart(w) ==
    /\ wk[w].pc \in {"loop", "sleeping"} /\ ~wk[w].stopping
    /\ Become(w, [wk[w] EXCEPT !.pc = "fetching", !.notified = FALSE, !.owed = FALSE,
                               !.ignored = AtLocalCapacity])
    /\ UNCHANGED <<setup, db, ghosts, groupVars, listenVars, lifeVars>>

\* The statement claims as many rows as the batch takes.
FetchClaim(w) ==
    /\ At(w, "fetching")
    /\ LET free == {j \in Jobs : row[j].state = "queued" /\ GroupOf[j] \notin wk[w].ignored}
           size == IF Cardinality(free) < BatchSize THEN Cardinality(free) ELSE BatchSize
       IN  \E S \in kSubset(size, free) :
              /\ row' = [j \in Jobs |-> IF j \in S THEN Claimed(row[j]) ELSE row[j]]
              /\ holder' = [j \in Jobs |-> IF j \in S THEN w ELSE holder[j]]
              /\ Become(w, [wk[w] EXCEPT !.pc = "claimed", !.ignored = {},
                                         !.fetched = [j \in S |-> Claimed(row[j]).retry]])
    /\ UNCHANGED <<setup, lock, ghosts, groupVars, listenVars, lifeVars>>

\* #processJobs up to its first await: the abort controller, then BEGIN, or the
\* handler; a claim that lands after failWip() marked the worker is refused.
Enter(r) ==
    LET step == IF setup.mode = "transactional" THEN "begin"
                ELSE IF r.graceExpired THEN "failing" ELSE "running"
    IN  [r EXCEPT !.ctl = TRUE, !.aborted = FALSE, !.pc = step, !.running = (step = "running")]

\* #trackLocalGroupStart: jobs of a group past its limit are excess.
Admits(S, A) ==
    /\ \A j \in S \ A : GroupOf[j] # NoGroup
    /\ \A g \in Groups :
          LET room == IF slots[g] < Limit THEN Limit - slots[g] ELSE 0
          IN  InGroup(A, g) = IF InGroup(S, g) < room THEN InGroup(S, g) ELSE room

\* The answer lands: worker.jobs takes it, and the groups admit what fits.
FetchReturn(w) ==
    LET S == DOMAIN wk[w].fetched IN
    /\ At(w, "claimed")
    /\ \E A \in SUBSET S :
          LET r == [wk[w] EXCEPT !.fetched = None, !.jobs = wk[w].fetched,
                                 !.batch = [j \in A |-> wk[w].fetched[j]]]
          IN  /\ Admits(S, A)
              /\ slots' = [g \in Groups |-> slots[g] + InGroup(A, g)]
              /\ unlimited' = (unlimited \/ (~limited /\ \E g \in Groups : slots'[g] > LocalLimit))
              /\ \/ S = {} /\ EndRound(w, r)
                 \/ S # {} /\ A = S /\ Become(w, Enter(r))
                 \/ S # A /\ Become(w, [r EXCEPT !.pc = "restoring"])
    /\ UNCHANGED <<setup, db, ghosts, loose, limited, listenVars, lifeVars>>

\* A fetch raises, or its answer is lost after the rows were claimed.
FetchFails(w) ==
    /\ At(w, "fetching") \/ At(w, "claimed")
    /\ GivesUp(w)
    /\ EndRound(w, [wk[w] EXCEPT !.fetched = None, !.ignored = {}])
    /\ UNCHANGED <<setup, row, lock, ghosts, groupVars, listenVars, lifeVars>>

\* restore() of the excess: by id, with no fence and no condition on the state.
RestoreExcess(w) ==
    LET X == DOMAIN wk[w].jobs \ DOMAIN wk[w].batch IN
    /\ At(w, "restoring")
    /\ \A j \in X : lock[j] = Nobody
    /\ Write(X, LAMBDA r : Row("queued", r.retry, FALSE))
    /\ reset' = reset \cup {j \in X : holder[j] # w}
    /\ Become(w, [wk[w] EXCEPT !.pc = "restored"])
    /\ UNCHANGED <<setup, lock, writes, groupVars, listenVars, lifeVars>>

\* Its answer: worker.jobs becomes what was admitted, possibly nothing.
RestoreReturn(w) ==
    LET r == [wk[w] EXCEPT !.jobs = wk[w].batch] IN
    /\ At(w, "restored")
    /\ \/ r.batch = None /\ EndRound(w, r)
       \/ r.batch # None /\ Become(w, Enter(r))
    /\ UNCHANGED <<setup, db, ghosts, groupVars, listenVars, lifeVars>>

\* #trackLocalGroupEnd.
SlotsWithout(S) == [g \in Groups |-> slots[g] - InGroup(S, g)]

\* Mutant: no finally around restore().
RestoreFailsHolding(w) ==
    /\ At(w, "restoring")
    /\ GivesUp(w)
    /\ EndRound(w, [wk[w] EXCEPT !.batch = None])
    /\ UNCHANGED <<setup, row, lock, ghosts, groupVars, listenVars, lifeVars>>

\* restore() raises (23505): the slots go back, worker.jobs keeps the whole batch,
\* whose claims are left to expiry.
RestoreFails(w) ==
    /\ At(w, "restoring")
    /\ GivesUp(w)
    /\ slots' = SlotsWithout(DOMAIN wk[w].batch)
    /\ EndRound(w, [wk[w] EXCEPT !.batch = None])
    /\ UNCHANGED <<setup, row, lock, ghosts, loose, limited, unlimited, listenVars, lifeVars>>

-----------------------------------------------------------------------------
(* #processJobs *)

\* BEGIN returns; the handler starts unless the grace is over.
StartHandler(w) ==
    /\ At(w, "begin")
    /\ Become(w, IF wk[w].graceExpired THEN [wk[w] EXCEPT !.pc = "catch"]
                 ELSE [wk[w] EXCEPT !.pc = "running", !.running = TRUE])
    /\ UNCHANGED <<setup, db, ghosts, groupVars, listenVars, lifeVars>>

\* A transactional handler settles one of its jobs on { db: tx }.
HandlerSettles(w, j) ==
    /\ setup.mode = "transactional" /\ At(w, "running") /\ j \in DOMAIN wk[w].batch
    /\ Matches(wk[w].batch, j) /\ lock[j] = Nobody
    /\ lock' = [lock EXCEPT ![j] = w]
    /\ UNCHANGED <<setup, row, holder, wk, ghosts, groupVars, listenVars, lifeVars>>

\* Mutant: fail() before the rollback.
StraightToFail == "failing"

\* Where an error takes the batch: only a transaction has something to roll back.
OnError == IF setup.mode = "transactional" THEN "catch" ELSE "failing"

\* The handler returns or throws while its batch waits for it.
HandlerReturns(w) ==
    /\ At(w, "running")
    /\ \E s \in {"returned", OnError} : Become(w, [wk[w] EXCEPT !.pc = s, !.running = FALSE])
    /\ UNCHANGED <<setup, db, ghosts, groupVars, listenVars, lifeVars>>

\* resolveWithinSeconds: the timeout rejects the race and an abort resolves it;
\* the handler goes on either way.
RaceEnds(w) ==
    /\ At(w, "running")
    /\ \/ Become(w, [wk[w] EXCEPT !.pc = OnError])
       \/ wk[w].aborted /\ Become(w, [wk[w] EXCEPT !.pc = "returned"])
    /\ UNCHANGED <<setup, db, ghosts, groupVars, listenVars, lifeVars>>

\* The finally blocks, after a settle (keep: it raised, so worker.jobs stays).  A
\* handler that outran its timeout holds its worker, unless that is stopping: then
\* its slots are freed only when it returns.
AfterBatch(w, keep) ==
    LET r == [wk[w] EXCEPT !.ctl = FALSE, !.rest = {},
                           !.jobs = IF keep THEN wk[w].jobs ELSE None]
        S == DOMAIN r.batch
    IN
    \/ /\ r.running /\ ~r.stopping
       /\ Become(w, [r EXCEPT !.pc = "overrun", !.jobs = None])
       /\ UNCHANGED <<slots, loose>>
    \/ /\ r.running /\ r.stopping
       /\ EndRound(w, [r EXCEPT !.batch = None, !.running = FALSE])
       /\ loose' = [loose EXCEPT ![S] = @ + 1] /\ UNCHANGED slots
    \/ /\ ~r.running
       /\ EndRound(w, [r EXCEPT !.batch = None])
       /\ slots' = SlotsWithout(S) /\ UNCHANGED loose

\* complete() of a plain batch; with perJobResults, of the jobs the handler
\* reported completed, and the rest is failed by a statement of its own.
CompleteBatch(w) ==
    LET S == DOMAIN wk[w].batch IN
    /\ At(w, "returned") /\ setup.mode # "transactional"
    /\ \E C \in IF setup.mode = "perJob" /\ ~wk[w].running THEN SUBSET S
                ELSE IF setup.mode = "perJob" THEN {{}} ELSE {S} :
          /\ Settle(wk[w].batch, C, Completed)
          /\ \/ C = S /\ AfterBatch(w, FALSE)
             \/ /\ C # S
                /\ Become(w, [wk[w] EXCEPT !.pc = "rest", !.rest = S \ C])
                /\ UNCHANGED <<slots, loose>>
    /\ UNCHANGED <<setup, ghosts, limited, unlimited, listenVars, lifeVars>>

FailRest(w) ==
    /\ At(w, "rest")
    /\ Settle(wk[w].batch, wk[w].rest, Failed)
    /\ AfterBatch(w, FALSE)
    /\ UNCHANGED <<setup, ghosts, limited, unlimited, listenVars, lifeVars>>

\* Mutant: no #assertClaimHeld, what complete() found is enough.
CompleteWhatIsThere(w) ==
    LET hit == {j \in DOMAIN wk[w].batch : lock[j] # w /\ Matches(wk[w].batch, j)}
        held == ~wk[w].aborted
    IN
    /\ At(w, "returned") /\ setup.mode = "transactional"
    /\ wk[w].aborted \/ \A j \in hit : lock[j] = Nobody
    /\ lock' = [j \in Jobs |-> IF held /\ j \in hit THEN w ELSE lock[j]]
    /\ Become(w, [wk[w] EXCEPT !.pc = IF held THEN "committing" ELSE "catch"])
    /\ UNCHANGED <<setup, row, holder, ghosts, groupVars, listenVars, lifeVars>>

\* Inside the transaction: refused after an abort; the jobs complete() finds
\* and those the handler settled must account for the batch (#assertClaimHeld).
CompleteInTransaction(w) ==
    LET S == DOMAIN wk[w].batch
        own == {j \in S : lock[j] = w}
        hit == {j \in S \ own : Matches(wk[w].batch, j)}
        held == ~wk[w].aborted /\ hit \cup own = S
    IN
    /\ At(w, "returned") /\ setup.mode = "transactional"
    /\ wk[w].aborted \/ \A j \in hit : lock[j] = Nobody
    /\ lock' = [j \in Jobs |-> IF held /\ j \in hit THEN w ELSE lock[j]]
    /\ Become(w, [wk[w] EXCEPT !.pc = IF held THEN "committing" ELSE "catch"])
    /\ UNCHANGED <<setup, row, holder, ghosts, groupVars, listenVars, lifeVars>>

Unlock(w) == lock' = [j \in Jobs |-> IF lock[j] = w THEN Nobody ELSE lock[j]]

\* COMMIT takes effect.
Commits(w) ==
    /\ At(w, "committing")
    /\ Write({j \in Jobs : lock[j] = w}, Completed)
    /\ Unlock(w)
    /\ writes' = [j \in Jobs |-> IF j \in DOMAIN wk[w].batch /\ writes[j] < 2
                                 THEN writes[j] + 1 ELSE writes[j]]
    /\ UNCHANGED <<setup, reset, limited, unlimited, listenVars, lifeVars>>

Commit(w) == Commits(w) /\ AfterBatch(w, FALSE)
CommitAnswerLost(w) ==
    Commits(w) /\ Become(w, [wk[w] EXCEPT !.pc = "catch"]) /\ UNCHANGED <<slots, loose>>

\* A settle or a COMMIT raises before it took effect.
SettleRaises(w) ==
    /\ wk[w].pc \in {"returned", "rest", "committing"}
    /\ Become(w, [wk[w] EXCEPT !.pc = OnError, !.rest = {}])
    /\ UNCHANGED <<setup, db, ghosts, groupVars, listenVars, lifeVars>>

\* The catch: roll back first, so that fail() does not wait for its own rows.
Rollback(w) ==
    /\ At(w, "catch")
    /\ Unlock(w)
    /\ Become(w, [wk[w] EXCEPT !.pc = "failing"])
    /\ UNCHANGED <<setup, row, holder, ghosts, groupVars, listenVars, lifeVars>>

\* fail() of the batch.
FailBatch(w) ==
    /\ At(w, "failing")
    /\ Settle(wk[w].batch, DOMAIN wk[w].batch, Failed)
    /\ AfterBatch(w, FALSE)
    /\ UNCHANGED <<setup, ghosts, limited, unlimited, listenVars, lifeVars>>

\* It raises: the error leaves #processJobs, and the claims are left to expiry.
FailRaises(w) ==
    /\ At(w, "failing")
    /\ GivesUp(w)
    /\ AfterBatch(w, TRUE)
    /\ UNCHANGED <<setup, row, lock, ghosts, limited, unlimited, listenVars, lifeVars>>

\* #awaitHandlerOverrun ends: the handler returns, or the worker is stopped.
OverrunReturns(w) ==
    /\ At(w, "overrun")
    /\ slots' = SlotsWithout(DOMAIN wk[w].batch)
    /\ EndRound(w, [wk[w] EXCEPT !.batch = None, !.running = FALSE])
    /\ UNCHANGED <<setup, db, ghosts, loose, limited, unlimited, listenVars, lifeVars>>

OverrunAbandoned(w) ==
    /\ At(w, "overrun") /\ wk[w].stopping
    /\ AfterBatch(w, TRUE)
    /\ UNCHANGED <<setup, db, ghosts, limited, unlimited, listenVars, lifeVars>>

LooseReturns(S) ==
    /\ loose[S] > 0
    /\ loose' = [loose EXCEPT ![S] = @ - 1]
    /\ slots' = SlotsWithout(S)
    /\ UNCHANGED <<setup, db, wk, ghosts, limited, unlimited, listenVars, lifeVars>>

\* The loop is left; offWork() then drops the queue's limit if no worker is left.
Exit(w) ==
    /\ At(w, "loop") /\ wk[w].stopping
    /\ Become(w, [wk[w] EXCEPT !.pc = "stopped"])
    /\ limited' = (limited /\ \E v \in Workers \ {w} : wk[v].pc # "stopped" /\ ~wk[v].stopping)
    /\ UNCHANGED <<setup, db, ghosts, slots, loose, unlimited, listenVars, lifeVars>>

-----------------------------------------------------------------------------
(* work() and offWork(), the Notifier, and the shutdown *)

\* A worker's delay is cut short.
Woken(r) == IF r.pc = "sleeping" THEN [r EXCEPT !.pc = "loop"] ELSE r

\* worker.stop(): a sleeping worker wakes up to leave.
StopWorkers(S) ==
    wk' = [w \in Workers |-> IF w \in S /\ wk[w].pc # "stopped"
                             THEN [Woken(wk[w]) EXCEPT !.stopping = TRUE] ELSE wk[w]]

OffWork(w) ==
    /\ life = "up" /\ wk[w].pc # "stopped" /\ ~wk[w].stopping
    /\ StopWorkers({w})
    /\ UNCHANGED <<setup, db, ghosts, groupVars, listenVars, lifeVars>>

\* work() after offWork(): a new worker; the slots of abandoned handlers stay taken.
Work(w) ==
    /\ life = "up" /\ At(w, "stopped") /\ w \in setup.workers /\ wk[w].starts < setup.maxStarts
    /\ Become(w, [Fresh EXCEPT !.starts = wk[w].starts + 1])
    /\ limited' = TRUE
    /\ UNCHANGED <<setup, db, ghosts, slots, loose, unlimited, listenVars, lifeVars>>

\* worker.notify() of every worker of the queue.
NotifyWorkers ==
    wk' = [w \in Workers |-> IF wk[w].pc = "stopped" THEN wk[w]
                             ELSE [Woken(wk[w]) EXCEPT !.notified = TRUE, !.owed = TRUE]]

\* LISTEN is (re)established: what was missed is recovered by a forced fetch.
Listen ==
    /\ life = "up" /\ setup.useListenNotify /\ ~listening
    /\ listening' = TRUE
    /\ NotifyWorkers
    /\ UNCHANGED <<setup, db, ghosts, groupVars, notice, lifeVars>>

ListenerDrops ==
    /\ listening
    /\ listening' = FALSE /\ notice' = FALSE
    /\ UNCHANGED <<setup, db, wk, ghosts, groupVars, lifeVars>>

Notified ==
    /\ notice
    /\ notice' = FALSE
    /\ NotifyWorkers
    /\ UNCHANGED <<setup, db, ghosts, groupVars, listening, lifeVars>>

\* stop(): the Notifier closes, manager.stop() stops every worker and clears the
\* local limits.
Stop ==
    /\ life = "up"
    /\ life' = "stopped"
    /\ listening' = FALSE /\ notice' = FALSE
    /\ StopWorkers(Workers)
    /\ limited' = FALSE
    /\ UNCHANGED <<setup, db, ghosts, slots, loose, unlimited, todo>>

\* All workers have stopped, or the grace is over: failWip() marks them all first.
GraceEnds ==
    /\ life = "stopped"
    /\ life' = "failing"
    /\ wk' = [w \in Workers |-> [wk[w] EXCEPT !.graceExpired = TRUE]]
    /\ todo' = [w \in Workers |-> IF wk[w].pc = "stopped" THEN "none" ELSE "fail"]
    /\ UNCHANGED <<setup, db, ghosts, groupVars, listenVars>>

\* One worker after another: fail worker.jobs, then abort its handler.
FailWipFail(w) ==
    /\ life = "failing" /\ todo[w] = "fail" /\ \A v \in Workers : todo[v] # "abort"
    /\ \/ Settle(wk[w].jobs, DOMAIN wk[w].jobs, Failed)
       \/ FailWipErrors /\ UNCHANGED db
    /\ todo' = [todo EXCEPT ![w] = "abort"]
    /\ UNCHANGED <<setup, wk, ghosts, groupVars, listenVars, life>>

FailWipAbort(w) ==
    /\ life = "failing" /\ todo[w] = "abort"
    /\ wk' = [wk EXCEPT ![w].aborted = @ \/ wk[w].ctl]
    /\ todo' = [todo EXCEPT ![w] = "none"]
    /\ UNCHANGED <<setup, db, ghosts, groupVars, listenVars, life>>

\* Mutant: the pool is closed after failWip() without the drain.
CloseAtOnce ==
    /\ life = "failing" /\ \A w \in Workers : todo[w] = "none"
    /\ life' = "closed"
    /\ UNCHANGED <<setup, db, wk, ghosts, groupVars, listenVars, todo>>

\* settleCleanups(), then the pool is closed.
Close ==
    /\ life = "failing" /\ \A w \in Workers : todo[w] = "none" /\ At(w, "stopped")
    /\ life' = "closed"
    /\ UNCHANGED <<setup, db, wk, ghosts, groupVars, listenVars, todo>>

-----------------------------------------------------------------------------
\* What the worker's own code does next; handlers return when they like.
WorkerStep(w) ==
    \/ FetchStart(w) \/ FetchClaim(w) \/ FetchReturn(w)
    \/ RestoreExcess(w) \/ RestoreReturn(w)
    \/ StartHandler(w) \/ RaceEnds(w)
    \/ CompleteBatch(w) \/ FailRest(w) \/ CompleteInTransaction(w) \/ Commit(w)
    \/ Rollback(w) \/ FailBatch(w) \/ OverrunAbandoned(w) \/ Exit(w)

HandlerStep(w) ==
    \/ HandlerReturns(w) \/ OverrunReturns(w)
    \/ \E j \in Jobs : HandlerSettles(w, j)

ShutdownStep ==
    \/ GraceEnds \/ Close
    \/ \E w \in Workers : FailWipFail(w) \/ FailWipAbort(w)

\* What goes wrong: a statement raises or its answer is lost, a claim expires or
\* is made elsewhere, the listener's connection drops.
Fault ==
    \/ \E w \in Workers : \/ FetchFails(w) \/ RestoreFails(w) \/ SettleRaises(w)
                          \/ FailRaises(w) \/ CommitAnswerLost(w)
    \/ \E j \in Jobs : Expire(j) \/ OtherClaims(j)
    \/ ListenerDrops

Step ==
    \/ \E w \in Workers : WorkerStep(w) \/ HandlerStep(w) \/ OffWork(w) \/ Work(w)
    \/ \E j \in Jobs : Send(j) \/ OtherCompletes(j)
    \/ \E S \in SUBSET Jobs : LooseReturns(S)
    \/ Listen \/ Notified \/ Stop \/ ShutdownStep

Next ==
    \/ Step /\ UNCHANGED faults
    \/ faults < setup.maxFaults /\ faults' = faults + 1 /\ Fault

Spec == Init /\ [][Next]_vars

\* Statements return, timers fire, timeouts end the wait for a handler; nothing is
\* assumed of handlers, senders, other instances and errors.
FairSpec ==
    /\ Spec
    /\ \A w \in Workers : WF_vars(WorkerStep(w) /\ UNCHANGED faults)
    /\ WF_vars(ShutdownStep /\ UNCHANGED faults)

-----------------------------------------------------------------------------
(* Properties *)

States == {"absent", "queued", "active", "completed", "failed"}
Pcs == {"loop", "sleeping", "fetching", "claimed", "restoring", "restored", "begin", "running", "returned",
        "rest", "committing", "catch", "failing", "overrun", "stopped"}

\* Jobs at the attempts of at most n retries at which they were claimed; a worker.
Attempts(n) == UNION {[S -> 0 .. n] : S \in SUBSET Jobs}
Record(n) ==
    [pc : Pcs, fetched : Attempts(n), jobs : Attempts(n), batch : Attempts(n), rest : SUBSET Jobs,
     running : BOOLEAN, ignored : SUBSET Groups, ctl : BOOLEAN, aborted : BOOLEAN, stopping : BOOLEAN,
     graceExpired : BOOLEAN, notified : BOOLEAN, owed : BOOLEAN, starts : Nat]

\* The values each variable takes; retry_limit is never exceeded, and a handler runs
\* on a batch that is not empty.
TypeOK ==
    /\ setup \in Setups
    /\ row \in [Jobs -> [state : States, retry : 0 .. setup.retryLimit, started : BOOLEAN]]
    /\ holder \in [Jobs -> Workers \cup {Other, Nobody}] /\ lock \in [Jobs -> Workers \cup {Nobody}]
    /\ wk \in [Workers -> Record(setup.retryLimit)]
    /\ \A w \in Workers : wk[w].running => wk[w].batch # None
    /\ slots \in [Groups -> Nat] /\ loose \in [SUBSET Jobs -> Nat]
    /\ {limited, unlimited, listening, notice} \subseteq BOOLEAN
    /\ life \in {"up", "stopped", "failing", "closed"}
    /\ todo \in [Workers -> {"none", "fail", "abort"}]
    /\ faults \in Nat /\ writes \in [Jobs -> 0 .. 2] /\ reset \subseteq Jobs

\* The jobs of a group that handlers work on, those of abandoned handlers included.
RunningIn(g) ==
    UNION {{w} \X Grouped(DOMAIN wk[w].batch, g) : w \in {v \in Workers : wk[v].running}}
LooseIn(g) == UNION {({S} \X (1 .. loose[S])) \X Grouped(S, g) : S \in SUBSET Jobs}
Handlers(g) == Cardinality(RunningIn(g)) + Cardinality(LooseIn(g))

\* localGroupConcurrency bounds the handlers that run, those included that outran
\* their timeout or were abandoned by a stop, unless a batch was admitted after
\* offWork() or stop() had dropped the limit.
LocalGroupBound == unlimited \/ \A g \in Groups : Handlers(g) <= LocalLimit

\* A group's slots are all free again once no batch and no handler is left,
\* whatever error, timeout or stop ended each batch.
NoSlotLeak ==
    (\A w \in Workers : wk[w].batch = None) /\ (\A S \in SUBSET Jobs : loose[S] = 0)
        => \A g \in Groups : slots[g] = 0

\* The in-memory slots of localGroupConcurrency neither admit too much nor run dry.
LocalGroupSlots == LocalGroupBound /\ NoSlotLeak

\* A worker does not sleep on a notification: each one it got was followed by
\* the start of a fetch, also when it came while a fetch or a handler ran.
NoSleepOnNotice == \A w \in Workers : At(w, "sleeping") => ~wk[w].owed

\* The writes of a transactional handler are committed at most once per job, and
\* only with the job's completion, unless a late restore() put the job back.
WritesCommitOnce ==
    \A j \in Jobs \ reset : writes[j] > 0 => writes[j] = 1 /\ row[j].state = "completed"

\* When the pool is closed no job is left active under a claim of this instance.
NothingLeftAtClose ==
    life = "closed" => \A j \in Jobs : row[j].state = "active" => holder[j] \notin Workers

\* The holder's handler has returned when its job is completed: the abort of a
\* shutdown does not pass for a return.  (A late restore() gives one attempt to two
\* workers, and either of them may complete it.)
CompletedMeansReturned ==
    [][\A j \in Jobs \ reset, w \in Workers :
          row[j].state = "active" /\ row'[j].state = "completed" /\ holder[j] = w
              => ~(wk[w].running /\ j \in DOMAIN wk[w].batch)]_vars

\* A stop ends, whatever the handlers do.
StopEnds == (life = "stopped") ~> (life = "closed")

\* What an instance writes about its jobs: each transaction commits once, and a stop
\* leaves no job active behind it.
WritesSettled == WritesCommitOnce /\ NothingLeftAtClose
=============================================================================
