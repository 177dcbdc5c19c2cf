------------------------------ MODULE KeyPolicies ------------------------------
(***************************************************************************)
(* Queue policies: what the partial unique indexes on the jobs table allow,*)
(* and how the statements behave when an index refuses them.               *)
(*                                                                         *)
(* A row enters an index only in some states, so moving a row to another   *)
(* state may collide with another row.  send() and the retry half of fail()*)
(* say ON CONFLICT DO NOTHING; a fetch, a give-back and the operators'     *)
(* statements raise SQLSTATE 23505 and change nothing.  A fetch chooses its*)
(* candidates in a snapshot, and the index decides when it updates them.   *)
(*                                                                         *)
(* Which attempt a settle is fenced on is the subject of JobClaims; here a *)
(* row remembers the worker whose claim is the current one.  Whether a     *)
(* failing job has retries left is a free choice.                          *)
(***************************************************************************)
EXTENDS Integers, FiniteSets

CONSTANTS
    Jobs,           \* job ids of the queue
    Workers,        \* workers of all instances
    NoWorker,       \* owner of a row nobody claims
    NoKey,          \* singleton_key IS NULL
    EmptyKey,       \* singleton_key = ''
    KeyChoices,     \* the ways of giving the jobs keys, each [Jobs -> keys]
    Policies,       \* the policies to consider, a subset of QueuePolicies
    BatchSize,      \* batchSize of every fetch
    Distributed,    \* the backend runs fail() as several statements
    Ops             \* what operators call, a subset of Operations

QueuePolicies == {"standard", "short", "singleton", "stately", "exclusive", "key_strict_fifo"}

Operations == {"cancel", "resume", "retry", "restore", "failQueued", "delete"}

ASSUME PoliciesAssumption ==
    /\ IsFiniteSet(Jobs)
    /\ NoWorker \notin Workers
    /\ NoKey # EmptyKey
    /\ Policies \subseteq QueuePolicies
    /\ BatchSize \in Nat \ {0}
    /\ Distributed \in BOOLEAN
    /\ Ops \subseteq Operations

VARIABLES
    policy,     \* the policy of the queue
    keyOf,      \* the singleton_key each job is sent with
    state,      \* state of each row
    due,        \* start_after has passed
    stamp,      \* (created_on, id), the order of the rows
    owner,      \* the worker whose claim is current
    phase,      \* what each worker is doing
    seen,       \* candidates in the snapshot of its running fetch
    started,    \* ghost: the job was claimed since it was sent
    odd,        \* ghost: the job was deferred or an operator moved it
    before,     \* ghost: rows already stored when the job was sent
    raced       \* ghost: another statement committed since w's snapshot

rowVars == <<state, due, stamp, owner>>
workerVars == <<phase, seen>>
ghostVars == <<started, odd, before>>
vars == <<policy, keyOf, rowVars, workerVars, ghostVars, raced>>

Queued == {"created", "retry"}
Live == Queued \cup {"active"}
States == Live \cup {"completed", "cancelled", "failed"}

Stamps == 1..Cardinality(Jobs)

TypeOK ==
    /\ policy \in Policies
    /\ keyOf \in KeyChoices
    /\ state \in [Jobs -> States \cup {"absent"}]
    /\ due \in [Jobs -> BOOLEAN]
    /\ stamp \in [Jobs -> Stamps \cup {0}]
    /\ owner \in [Jobs -> Workers \cup {NoWorker}]
    /\ phase \in [Workers -> {"idle", "fetching", "claimed", "running"}]
    /\ seen \in [Workers -> SUBSET Jobs]
    /\ started \in [Jobs -> BOOLEAN]
    /\ odd \in [Jobs -> BOOLEAN]
    /\ before \in [Jobs -> SUBSET Jobs]
    /\ raced \in [Workers -> BOOLEAN]
    /\ \A j \in Jobs : owner[j] # NoWorker => state[j] = "active"

Init ==
    /\ policy \in Policies
    /\ keyOf \in KeyChoices
    /\ state = [j \in Jobs |-> "absent"]
    /\ due = [j \in Jobs |-> FALSE]
    /\ stamp = [j \in Jobs |-> 0]
    /\ owner = [j \in Jobs |-> NoWorker]
    /\ phase = [w \in Workers |-> "idle"]
    /\ seen = [w \in Workers |-> {}]
    /\ started = [j \in Jobs |-> FALSE]
    /\ odd = [j \in Jobs |-> FALSE]
    /\ before = [j \in Jobs |-> {}]
    /\ raced = [w \in Workers |-> FALSE]

-----------------------------------------------------------------------------
(* The unique indexes. *)

\* COALESCE(singleton_key, '').
IndexKey(j) == IF keyOf[j] = NoKey THEN EmptyKey ELSE keyOf[j]

\* Mutant: job_i8 without retry.
IndexedStatesNoRetry ==
    [standard |-> {}, short |-> {"created"}, singleton |-> {"active"}, stately |-> Live,
     exclusive |-> Live, key_strict_fifo |-> {"active", "failed"}]

\* The states whose rows job_i1, job_i2, job_i3, job_i6 and job_i8 hold.
IndexedStates ==
    [standard |-> {}, short |-> {"created"}, singleton |-> {"active"}, stately |-> Live,
     exclusive |-> Live, key_strict_fifo |-> {"active", "retry", "failed"}]

\* Two rows in states s and t share an index entry.  Only job_i3 has the state
\* among its columns.
SameEntry(j, s, k, t) ==
    /\ {s, t} \subseteq IndexedStates[policy]
    /\ IndexKey(j) = IndexKey(k)
    /\ policy = "stately" => s = t

\* A row other than j stands in the way of j in state s.
Refused(j, s) == \E k \in Jobs \ {j} : SameEntry(j, s, k, state[k])

-----------------------------------------------------------------------------
(* Every step that changes rows: a fetch whose snapshot is older than it has *)
(* been raced.                                                               *)

Committed == raced' = [w \in Workers |-> phase[w] = "fetching"]

CommittedBy(v) == raced' = [w \in Workers |-> w # v /\ phase[w] = "fetching"]

\* send() / insert(): ON CONFLICT DO NOTHING.  created_on is read when the
\* sender's transaction starts, so rows need not appear in stamp order.  A
\* key_strict_fifo queue refuses a job without a key.
Send(j) ==
    /\ state[j] = "absent" /\ stamp[j] = 0
    /\ policy = "key_strict_fifo" => keyOf[j] \notin {NoKey, EmptyKey}
    /\ ~Refused(j, "created")
    /\ state' = [state EXCEPT ![j] = "created"]
    /\ \E d \in BOOLEAN :
        /\ due' = [due EXCEPT ![j] = d]
        /\ odd' = [odd EXCEPT ![j] = ~d]
    /\ \E s \in Stamps \ {stamp[k] : k \in Jobs} : stamp' = [stamp EXCEPT ![j] = s]
    /\ before' = [before EXCEPT ![j] = {k \in Jobs : state[k] # "absent"}]
    /\ Committed
    /\ UNCHANGED <<policy, keyOf, owner, workerVars, started>>

\* start_after <= job_now() becomes true; only queued rows are asked.
StartAfterPasses(j) ==
    /\ state[j] \in Queued /\ ~due[j]
    /\ due' = [due EXCEPT ![j] = TRUE]
    /\ UNCHANGED <<policy, keyOf, state, stamp, owner, workerVars, ghostVars, raced>>

-----------------------------------------------------------------------------
(* fetchNextJob. *)

Ready(j) == state[j] \in Queued /\ due[j]

\* Mutant: created_on alone picks the head.
OlderIsAhead(j, k) == stamp[j] < stamp[k]

\* Mutant: the youngest is the head.
YoungerIsAhead(j, k) ==
    \/ state[j] = "retry" /\ state[k] = "created"
    \/ state[j] = state[k] /\ stamp[j] > stamp[k]

\* The order of strict_fifo_heads: state DESC, created_on, id.
Ahead(j, k) ==
    \/ state[j] = "retry" /\ state[k] = "created"
    \/ state[j] = state[k] /\ stamp[j] < stamp[k]

\* strict_fifo_heads: DISTINCT ON (singleton_key).
Head(j) == \A k \in Jobs \ {j} : Ready(k) /\ keyOf[k] = keyOf[j] => Ahead(j, k)

\* The two NOT EXISTS conditions.
KeyIsHeldBack(j) ==
    \E k \in Jobs \ {j} :
        \/ policy = "key_strict_fifo" /\ keyOf[k] = keyOf[j]
            /\ state[k] \in {"active", "retry", "failed"}
        \/ policy \in {"singleton", "stately"} /\ IndexKey(k) = IndexKey(j)
            /\ state[k] = "active"

Candidate(j) ==
    /\ Ready(j)
    /\ policy = "key_strict_fifo" => Head(j)
    /\ ~KeyIsHeldBack(j)

FetchSnapshot(w) ==
    /\ phase[w] = "idle"
    /\ \E j \in Jobs : Candidate(j)
    /\ phase' = [phase EXCEPT ![w] = "fetching"]
    /\ seen' = [seen EXCEPT ![w] = {j \in Jobs : Candidate(j)}]
    /\ UNCHANGED <<policy, keyOf, rowVars, ghostVars, raced>>

\* Mutant: no ranking within a batch.
Unranked(N) == {N}

\* singleton_ranking: of the rows `next' returned one per singleton_key goes on,
\* for batches of the singleton and stately policies.
RankedBatches(N) ==
    IF BatchSize > 1 /\ policy \in {"singleton", "stately"}
    THEN {R \in SUBSET N : \A k \in {keyOf[j] : j \in N} :
                              Cardinality({j \in R : keyOf[j] = k}) = 1}
    ELSE {N}

\* The UPDATE of a batch to active runs into an index.
BatchRefused(R) ==
    \/ \E j \in R : Refused(j, "active")
    \/ \E j, k \in R : j # k /\ SameEntry(j, "active", k, "active")

\* On 23505 the fetch counts as empty.
ClaimRefused(w) ==
    /\ phase' = [phase EXCEPT ![w] = "idle"]
    /\ raced' = [raced EXCEPT ![w] = FALSE]
    /\ UNCHANGED <<state, owner, started>>

Claim(w, R) ==
    /\ phase' = [phase EXCEPT ![w] = "claimed"]
    /\ state' = [j \in Jobs |-> IF j \in R THEN "active" ELSE state[j]]
    /\ owner' = [j \in Jobs |-> IF j \in R THEN w ELSE owner[j]]
    /\ started' = [j \in Jobs |-> started[j] \/ j \in R]
    /\ CommittedBy(w)

\* `next' locks up to BatchSize candidates that are still ready, passing over
\* rows other statements have locked, and the batch is claimed as a whole.
FetchClaim(w) ==
    /\ phase[w] = "fetching"
    /\ \E N \in SUBSET {j \in seen[w] : Ready(j)} :
        /\ N # {}
        /\ Cardinality(N) <= BatchSize
        /\ \E R \in RankedBatches(N) :
            IF BatchRefused(R) THEN ClaimRefused(w) ELSE Claim(w, R)
    /\ seen' = [seen EXCEPT ![w] = {}]
    /\ UNCHANGED <<policy, keyOf, due, stamp, odd, before>>

FetchNothing(w) ==
    /\ phase[w] = "fetching"
    /\ \A j \in seen[w] : ~Ready(j)
    /\ phase' = [phase EXCEPT ![w] = "idle"]
    /\ seen' = [seen EXCEPT ![w] = {}]
    /\ raced' = [raced EXCEPT ![w] = FALSE]
    /\ UNCHANGED <<policy, keyOf, rowVars, ghostVars>>

-----------------------------------------------------------------------------
(* What a worker does with its batch. *)

Batch(w) == {j \in Jobs : owner[j] = w}

\* No job of the batch is above its group limit.
Deliver(w) ==
    /\ phase[w] = "claimed"
    /\ phase' = [phase EXCEPT ![w] = "running"]
    /\ UNCHANGED <<policy, keyOf, rowVars, seen, ghostVars, raced>>

\* restore() of the ids in E as one statement fails when one of them is refused.
RestoreRefused(E) ==
    \/ \E j \in E : Refused(j, "created")
    \/ \E j, k \in E : j # k /\ SameEntry(j, "created", k, "created")

\* #giveBack of the excess ids E: all of them at once, or on 23505 each alone,
\* in the end those that no other row of the table refuses.  What stays active
\* runs.
GivenBack(E) ==
    IF ~RestoreRefused(E) THEN {E}
    ELSE IF Cardinality(E) = 1 THEN {{}}
    ELSE {G \in SUBSET E :
            /\ ~RestoreRefused(G)
            /\ \A j \in E \ G : RestoreRefused(G \cup {j})}

\* Mutant: the worker polls again whatever stayed active.
AlwaysIdle(w, G) == "idle"

\* rows.filter(row => !givenBack.has(row.id)): the rest of the batch runs.
AfterGiveBack(w, G) == IF G = Batch(w) THEN "idle" ELSE "running"

Return(w, G) ==
    /\ state' = [j \in Jobs |-> IF j \in G THEN "created" ELSE state[j]]
    /\ owner' = [j \in Jobs |-> IF j \in G THEN NoWorker ELSE owner[j]]
    /\ started' = [j \in Jobs |-> started[j] /\ j \notin G]
    /\ odd' = [j \in Jobs |-> odd[j] \/ j \in G]
    /\ phase' = [phase EXCEPT ![w] = AfterGiveBack(w, G)]

GiveBack(w) ==
    /\ phase[w] = "claimed"
    /\ \E E \in (SUBSET Batch(w)) \ {{}} : \E G \in GivenBack(E) : Return(w, G)
    /\ Committed
    /\ UNCHANGED <<policy, keyOf, due, stamp, seen, before>>

HandlerCompletes(w) ==
    /\ phase[w] = "running"
    /\ state' = [j \in Jobs |-> IF owner[j] = w THEN "completed" ELSE state[j]]
    /\ owner' = [j \in Jobs |-> IF owner[j] = w THEN NoWorker ELSE owner[j]]
    /\ phase' = [phase EXCEPT ![w] = "idle"]
    /\ Committed
    /\ UNCHANGED <<policy, keyOf, due, stamp, seen, ghostVars>>

\* Where fail() leaves a row: retry while retries remain and the index takes it,
\* else failed.  When that is refused too, one statement raises and changes
\* nothing, and the distributed statements drop the insert.
FailedState(j, retriesLeft) ==
    IF retriesLeft /\ ~Refused(j, "retry") THEN "retry"
    ELSE IF ~Refused(j, "failed") THEN "failed"
    ELSE IF Distributed THEN "absent"
    ELSE state[j]

\* fail() of the rows in F, those in R with retries left.  The delay of a retry
\* may put it in the future.
Fail(F) ==
    /\ \E R \in SUBSET F :
        state' = [j \in Jobs |-> IF j \in F THEN FailedState(j, j \in R) ELSE state[j]]
    /\ \E later \in BOOLEAN :
        due' = [j \in Jobs |-> due[j] /\ (j \in F /\ state'[j] = "retry" => ~later)]
    /\ owner' = [j \in Jobs |-> IF j \in F THEN NoWorker ELSE owner[j]]
    /\ Committed

HandlerFails(w) ==
    /\ phase[w] = "running"
    /\ Fail(Batch(w))
    /\ phase' = [phase EXCEPT ![w] = "idle"]
    /\ UNCHANGED <<policy, keyOf, stamp, seen, ghostVars>>

\* failJobsByTimeout and failJobsByHeartbeat.
Expire(j) ==
    /\ state[j] = "active"
    /\ Fail({j})
    /\ UNCHANGED <<policy, keyOf, stamp, workerVars, ghostVars>>

Crash(w) ==
    /\ phase[w] \in {"claimed", "running"}
    /\ phase' = [phase EXCEPT ![w] = "idle"]
    /\ owner' = [j \in Jobs |-> IF owner[j] = w THEN NoWorker ELSE owner[j]]
    /\ UNCHANGED <<policy, keyOf, state, due, stamp, seen, ghostVars, raced>>

-----------------------------------------------------------------------------
(* Operators.  A statement an index refuses raises and changes nothing. *)

Move(j, s) ==
    /\ ~Refused(j, s)
    /\ state' = [state EXCEPT ![j] = s]
    /\ owner' = [owner EXCEPT ![j] = NoWorker]
    /\ odd' = [odd EXCEPT ![j] = TRUE]
    /\ Committed
    /\ UNCHANGED <<policy, keyOf, due, stamp, workerVars, before>>

Cancel(j) == "cancel" \in Ops /\ state[j] \in Live /\ Move(j, "cancelled") /\ UNCHANGED started

Resume(j) == "resume" \in Ops /\ state[j] = "cancelled" /\ Move(j, "created") /\ UNCHANGED started

Retry(j) == "retry" \in Ops /\ state[j] = "failed" /\ Move(j, "retry") /\ UNCHANGED started

Restore(j) ==
    /\ "restore" \in Ops
    /\ state[j] \in States
    /\ Move(j, "created")
    /\ started' = [started EXCEPT ![j] = FALSE]

Delete(j) == "delete" \in Ops /\ state[j] \in States /\ Move(j, "absent") /\ UNCHANGED started

\* fail() by id of a job that no worker has.
FailQueued(j) ==
    /\ "failQueued" \in Ops
    /\ state[j] \in Queued
    /\ Fail({j})
    /\ odd' = [odd EXCEPT ![j] = TRUE]
    /\ UNCHANGED <<policy, keyOf, stamp, workerVars, started, before>>

-----------------------------------------------------------------------------
WorkerStep(w) ==
    \/ FetchSnapshot(w) \/ FetchClaim(w) \/ FetchNothing(w) \/ Deliver(w) \/ GiveBack(w)
    \/ HandlerCompletes(w) \/ HandlerFails(w) \/ Crash(w)

RowStep(j) ==
    \/ Send(j) \/ StartAfterPasses(j) \/ Expire(j)
    \/ Cancel(j) \/ Resume(j) \/ Retry(j) \/ Restore(j) \/ Delete(j) \/ FailQueued(j)

Next == (\E w \in Workers : WorkerStep(w)) \/ (\E j \in Jobs : RowStep(j))

Spec == Init /\ [][Next]_vars

-----------------------------------------------------------------------------
(* Properties. *)

SameKey(j, k) == j # k /\ keyOf[j] = keyOf[k]

\* The indexes take the two for one key.
SamePlace(j, k) == j # k /\ IndexKey(j) = IndexKey(k)

\* docs/api/queues.md: a key is never left without a job to fetch while it has
\* one.  When a key has a ready job, nothing active or failed and no retry still
\* waiting for its delay, one of its jobs is a candidate: the order of the heads
\* (retry first) and the NOT EXISTS conditions never exclude each other's choice.
\* A job without a key and one with the key '' count as siblings.
KeyNeverStuck ==
    \A j \in Jobs :
        Ready(j) /\ (\A k \in Jobs : SamePlace(j, k) =>
                        /\ state[k] \notin {"active", "failed"}
                        /\ state[k] = "retry" => due[k])
        => \E k \in Jobs : keyOf[k] = keyOf[j] /\ Candidate(k)

\* key_strict_fifo: "A job that has started must finish before any sibling
\* runs".  No handler starts on a job while a sibling that was claimed before it
\* is active, waits for its retry or has failed, even when the fetch took its
\* snapshot before that sibling was claimed.
StartedHoldsBack ==
    [][policy = "key_strict_fifo" =>
        \A j, k \in Jobs :
            state[j] # "active" /\ state'[j] = "active" /\ SameKey(j, k) /\ started[k]
            => state'[k] \in {"completed", "cancelled", "created", "absent"}]_vars

\* key_strict_fifo: jobs of one key first start in the order they were sent.  A
\* job that was there, and not deferred, when a younger one was sent starts
\* before it, unless an operator moved one of them.
FifoStart ==
    policy = "key_strict_fifo" =>
        \A j, k \in Jobs :
            SameKey(j, k) /\ j \in before[k] /\ stamp[j] < stamp[k] /\ ~odd[j] /\ ~odd[k]
                /\ started[k] => started[j]

\* A batch can hold a job without a key beside one with the key '': the ranking takes
\* them for two keys, job_i2 and job_i3 for one.
KeylessMeetsEmpty(w) ==
    /\ policy \in {"singleton", "stately"} /\ BatchSize > 1
    /\ \E j, k \in seen[w] : Ready(j) /\ Ready(k) /\ keyOf[j] = NoKey /\ keyOf[k] = EmptyKey

\* manager.ts #fetch: a 23505 in a fetch means that "a concurrent fetch won the
\* same slot".  A fetch is refused only when another statement committed after
\* its snapshot, so that treating the refusal as an empty fetch loses nothing:
\* the next poll sees the winner.  One batch refuses itself, race or not: that of a
\* job without a key and one with the key ''.
RefusalMeansRace ==
    [][\A w \in Workers :
        phase[w] = "fetching" /\ phase'[w] = "idle" /\ (\E j \in seen[w] : Ready(j))
        => raced[w] \/ KeylessMeetsEmpty(w)]_vars

\* fail() deletes a row and inserts it again: whatever the indexes refuse, the
\* job is stored afterwards.  Only a delete removes a job.
FailLosesNoJob ==
    [][\A j \in Jobs : state[j] \in Live /\ state'[j] = "absent" => Delete(j)]_vars

\* #giveBack: a job whose give-back an index refuses stays with its worker,
\* which runs it.  A worker never goes back to polling with a claim it still
\* owns.
NoClaimLeftBehind ==
    \A j \in Jobs : owner[j] # NoWorker => phase[owner[j]] \in {"claimed", "running"}

\* No key is abandoned: while it has work to do one of its jobs can be fetched, and
\* no job of it is held by a worker that has gone back to polling.
KeysServed == KeyNeverStuck /\ NoClaimLeftBehind

\* A fetch takes no job that a started sibling holds back, and is refused one only
\* for a race it lost or for a batch of a keyless job and one with the key ''.
ClaimsJustified == StartedHoldsBack /\ RefusalMeansRace
================================================================================
