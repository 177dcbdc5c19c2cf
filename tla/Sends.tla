--------------------------------- MODULE Sends ---------------------------------
(***************************************************************************)
(* How jobs enter a queue and are edited before they start: send(),        *)
(* sendThrottled(), sendDebounced(), update() and upsert() of manager.ts,  *)
(* as calls that run statement by statement beside each other, beside a    *)
(* worker that claims and settles and beside the retention sweep.          *)
(*                                                                         *)
(* A transaction's writes are its caller's until it commits: an inserted   *)
(* row is a pending one that others can only collide with, an edited row   *)
(* is locked.  A job's data is the call that wrote it last; the other      *)
(* editable columns move with it and are left out, but for start_after and *)
(* keep_until.  Time is in seconds.                                        *)
(***************************************************************************)
EXTENDS Integers, FiniteSets, FiniteSetsExt

CONSTANTS
    Callers,            \* each makes one call
    Requests,           \* what a call may ask for
    Modes,              \* pairs: the queue's policy, whether transactions are serializable
    SingletonSeconds,   \* length of a throttle slot
    Retention,          \* the queue's retention_seconds
    RetryDelays,        \* how long a retry may be put off
    ClockErrors,        \* how far a caller's corrected clock may be off, ahead or behind
    FirstTime,          \* the instant a behaviour begins in
    MaxJobs, MaxTime, MaxFaults,    \* bounds: generated ids, time, transactions lost
    NoCaller

Kinds == {"send", "insert", "throttle", "debounce", "update", "upsert"}

ASSUME SendsAssumption ==
    /\ NoCaller \notin Callers
    /\ Requests \subseteq [kind : Kinds, by : {"key", "id"}, match : {"oldest", "newest", "all"}, start : Int]
    /\ Modes \subseteq {"standard", "short", "exclusive"} \X BOOLEAN
    /\ SingletonSeconds \in Nat \ {0} /\ Retention \in Nat /\ RetryDelays \subseteq Nat /\ ClockErrors \subseteq Int
    /\ MaxJobs \in Nat \ {0} /\ MaxTime \in Nat /\ FirstTime \in 0 .. MaxTime /\ MaxFaults \in Nat

VARIABLES
    policy, serializable,
    now,        \* the database's clock
    jobs,       \* id |-> row; 0 is the id a caller may choose
    calls,      \* caller |-> its call
    faults

vars == <<policy, serializable, now, jobs, calls, faults>>

Ids == 0..MaxJobs
UpsertAttempts == 3
NoSlot == -1

\* One job table row; a row whose state is "none" is not there.  `putOff' is history:
\* how far its retries have moved its start_after.
Row(state, keyed, byKey, slot, start, keep, data, created) ==
    [state |-> state, keyed |-> keyed, byKey |-> byKey, slot |-> slot, start |-> start,
     putOff |-> 0, keep |-> keep, data |-> data, created |-> created]
NoRow == Row("none", FALSE, FALSE, NoSlot, 0, 0, NoCaller, 0)

\* A request: the call, how it targets, where it wants start_after (-1: not given).
Request(kind, by, match, start) == [kind |-> kind, by |-> by, match |-> match, start |-> start]

Idle == [pc |-> "idle", req |-> Request("none", "key", "newest", -1), began |-> 0, target |-> {},
         edits |-> {}, ins |-> NoRow, id |-> 0, second |-> FALSE, attempts |-> 1, refused |-> NoSlot,
         after |-> 0, timely |-> FALSE, claimed |-> FALSE, stale |-> FALSE, answer |-> {}]

Init ==
    /\ \E m \in Modes : policy = m[1] /\ serializable = m[2]
    /\ now = FirstTime /\ faults = 0
    /\ \E s \in {"none", "created", "active"} :   \* what a send long ago has left
        jobs = [[j \in Ids |-> NoRow] EXCEPT ![1] =
                    IF s = "none" THEN @ ELSE Row(s, TRUE, FALSE, NoSlot, 0, Retention, NoCaller, 0)]
    /\ calls = [c \in Callers |-> Idle]

Waiting(j) == jobs[j].state \in {"created", "retry"}
InTx(c) == calls[c].pc \in {"select", "apply", "insert", "commit"} /\ calls[c].req.kind \in {"update", "upsert"}
Locked(j) == \E c \in Callers : j \in calls[c].edits
There(j) == jobs[j].state \notin {"none", "swept"}
Busy(c) == calls[c].pc \notin {"idle", "done", "failed"}

-----------------------------------------------------------------------------
(* INSERT ... ON CONFLICT DO NOTHING. *)

\* Whether two rows collide in job_i13, job_i4, or the policy's index.
Collide(a, b) ==
    \/ a.byKey /\ b.byKey /\ a.state = "created" /\ b.state = "created"
    \/ a.slot # NoSlot /\ a.slot = b.slot /\ a.keyed = b.keyed
    \/ policy = "short" /\ a.keyed = b.keyed /\ a.state = "created" /\ b.state = "created"
    \/ policy = "exclusive" /\ a.keyed = b.keyed
         /\ {a.state, b.state} \subseteq {"created", "retry", "active"}

\* Mutant: the row is not marked.
MarkNone(r) == FALSE

\* upsertByKey of insertJobs.
Mark(r) == r.kind = "upsert" /\ r.by = "key"

SlotAt(t) == (t \div SingletonSeconds) * SingletonSeconds

\* start_after of a send: at once, as asked, or after the debounce delay.
StartOf(call) == IF call.second /\ call.req.kind = "debounce" THEN now + call.after
                 ELSE IF call.req.start = -1 THEN now ELSE call.req.start

\* The row insertJobs makes of a call.
NewRow(c) ==
    LET call == calls[c]
        r == call.req
        slot == IF r.kind \in {"throttle", "debounce"}
                THEN SlotAt(IF call.second THEN now + SingletonSeconds ELSE now) ELSE NoSlot
    IN  Row("created", r.by = "key", Mark(r), slot, StartOf(call), StartOf(call) + Retention, c,
            IF r.kind = "upsert" THEN call.began ELSE now)

FreshId == {j \in Ids \ {0} : jobs[j].state = "none" /\ \A c \in Callers : calls[c].ins.state = "none" \/ calls[c].id # j}
IdFor(c) == IF calls[c].req.by = "id" THEN 0 ELSE Min(FreshId)

Meets(row, id) == There(id) \/ \E j \in Ids : There(j) /\ Collide(jobs[j], row)

\* A pending row in the way is waited for.
Blocked(c, row, id) ==
    \E d \in Callers \ {c} : calls[d].ins.state # "none" /\ (calls[d].id = id \/ Collide(calls[d].ins, row))

-----------------------------------------------------------------------------
(* The calls. *)

Put(c, call) == calls' = [calls EXCEPT ![c] = call]

\* A call that is over keeps its answer, and what the properties ask of it.
Over(call, pc) ==
    [Idle EXCEPT !.pc = pc, !.req = [call.req EXCEPT !.start = -1, !.match = "newest"], !.answer = call.answer,
                 !.second = call.second, !.refused = call.refused, !.timely = call.timely, !.claimed = call.claimed, !.id = call.id]

Begin(c, r) ==
    /\ calls[c].pc = "idle"
    /\ Put(c, [calls[c] EXCEPT !.pc = IF r.kind \in {"update", "upsert"} THEN "select" ELSE "insert",
                               !.req = r, !.began = now])
    /\ UNCHANGED <<policy, serializable, now, jobs, faults>>

\* #createJob: the first insert, or the second.
SendInsert(c) ==
    LET call == calls[c]
        row == NewRow(c)
    IN  /\ call.pc = "insert" /\ call.req.kind \in {"send", "throttle", "debounce"}
        /\ FreshId # {}
        /\ ~Blocked(c, row, Min(FreshId))
        /\ IF ~Meets(row, Min(FreshId))
           THEN /\ jobs' = [jobs EXCEPT ![Min(FreshId)] = row]
                /\ Put(c, Over([call EXCEPT !.answer = {Min(FreshId)}], "done"))
           ELSE /\ UNCHANGED jobs
                /\ Put(c, IF call.req.kind = "debounce" /\ ~call.second
                          THEN [call EXCEPT !.pc = "debounce", !.refused = SlotAt(now)]
                          ELSE Over(call, "done"))
        /\ UNCHANGED <<policy, serializable, now, faults>>

\* insert(), of a batch of two: one statement, in which a job that conflicts with a
\* row, or with the one before it, is skipped.
InsertBatch(c) ==
    LET call == calls[c]
        row == NewRow(c)
        first == Min(FreshId)
        ids == IF Meets(row, first) THEN {} ELSE IF Collide(row, row) THEN {first} ELSE {first, Min(FreshId \ {first})}
    IN  /\ call.pc = "insert" /\ call.req.kind = "insert"
        /\ FreshId # {} /\ (Meets(row, first) \/ Cardinality(FreshId) >= 2)
        /\ ~Blocked(c, row, first)
        /\ jobs' = [j \in Ids |-> IF j \in ids THEN row ELSE jobs[j]]
        /\ Put(c, Over([call EXCEPT !.answer = ids], "done"))
        /\ UNCHANGED <<policy, serializable, now, faults>>

\* Mutant: no second added.
DebounceStartAfterExact(t) ==
    LET left == SingletonSeconds - (t - SlotAt(t)) IN IF left = 0 THEN 1 ELSE left

\* getDebounceStartAfter.
DebounceStartAfter(t) ==
    LET left == SingletonSeconds - (t - SlotAt(t))
    IN  (IF left = 0 THEN 1 ELSE left) + (IF SingletonSeconds > 1 THEN 1 ELSE 0)

\* The delay is read off the caller's clock, corrected by a skew of which nothing bounds
\* the error.  History: whether it read the refused slot or a later one, and was at most
\* a second ahead.
Debounce(c, error) ==
    /\ calls[c].pc = "debounce"
    /\ Put(c, [calls[c] EXCEPT !.pc = "insert", !.second = TRUE, !.after = DebounceStartAfter(now + error),
                               !.timely = SlotAt(now + error) >= calls[c].refused /\ error <= 1])
    /\ UNCHANGED <<policy, serializable, now, jobs, faults>>

Matches(r) == {j \in Ids : Waiting(j) /\ IF r.by = "id" THEN j = 0 ELSE jobs[j].keyed}

\* The rows the target CTE may name: ties of created_on fall either way.
Targets(r) ==
    LET S == Matches(r)
    IN  IF r.by = "id" \/ r.match = "all" \/ S = {} THEN {S}
        ELSE {{j} : j \in {i \in S : \A k \in S : IF r.match = "oldest" THEN jobs[i].created <= jobs[k].created
                                                                        ELSE jobs[i].created >= jobs[k].created}}

\* updateJob's target CTE, on the snapshot of the statement.
Select(c) ==
    /\ calls[c].pc = "select"
    /\ \E T \in Targets(calls[c].req) : Put(c, [calls[c] EXCEPT !.pc = "apply", !.target = T])
    /\ UNCHANGED <<policy, serializable, now, jobs, faults>>

\* Mutant: the state is not looked at again.
StillWaitingAny(T) == T

\* The rows whose state is still below active once they are locked.
StillWaiting(T) == {j \in T : Waiting(j)}

\* Mutant: keep_until stays where it was.
EditedKeepUnmoved(row, c, r) ==
    [row EXCEPT !.data = c, !.start = IF r.start = -1 THEN @ ELSE r.start]

\* keep_until moves with start_after.
Edited(row, c, r) ==
    IF r.start = -1 THEN [row EXCEPT !.data = c]
    ELSE [row EXCEPT !.data = c, !.start = r.start, !.keep = r.start + (row.keep - row.start)]

\* updateJob's UPDATE.  update() is one statement; upsert() goes on in its
\* transaction, to the insert after a miss and to the end after a second one.
Apply(c) ==
    LET call == calls[c]
        T == StillWaiting(call.target)
    IN  /\ call.pc = "apply"
        /\ \A j \in call.target : ~Locked(j)
        /\ IF call.req.kind = "update"
           THEN /\ jobs' = [j \in Ids |-> IF j \in T THEN Edited(jobs[j], c, call.req) ELSE jobs[j]]
                /\ Put(c, Over([call EXCEPT !.answer = T], "done"))
           ELSE /\ UNCHANGED jobs
                /\ Put(c, [call EXCEPT !.pc = IF T = {} /\ ~call.second THEN "insert" ELSE "commit",
                                       !.edits = T, !.answer = T])
        /\ UNCHANGED <<policy, serializable, now, faults>>

\* upsert's insert; refused, it updates once more.
UpsertInsert(c) ==
    LET call == calls[c]
        row == NewRow(c)
    IN  /\ call.pc = "insert" /\ call.req.kind = "upsert"
        /\ call.req.by = "id" \/ FreshId # {}
        /\ ~Blocked(c, row, IdFor(c))
        /\ Put(c, IF Meets(row, IdFor(c)) THEN [call EXCEPT !.pc = "select", !.second = TRUE]
                  ELSE [call EXCEPT !.pc = "commit", !.ins = row, !.id = IdFor(c), !.answer = {IdFor(c)}])
        /\ UNCHANGED <<policy, serializable, now, jobs, faults>>

\* A serializable transaction whose reads were overtaken cannot commit.
Commit(c) ==
    LET call == calls[c]
    IN  /\ call.pc = "commit"
        /\ serializable => ~call.stale
        /\ jobs' = [j \in Ids |->
                        IF call.ins.state # "none" /\ j = call.id THEN call.ins
                        ELSE IF j \in call.edits THEN Edited(jobs[j], c, call.req) ELSE jobs[j]]
        /\ calls' = [d \in Callers |->
                        IF d = c THEN Over(call, "done")
                        ELSE [calls[d] EXCEPT !.stale = @ \/ InTx(d)]]
        /\ UNCHANGED <<policy, serializable, now, faults>>

Abandoned(call) == [call EXCEPT !.target = {}, !.edits = {}, !.ins = NoRow, !.id = 0, !.answer = {}]

\* 40001: upsert runs its transaction again, up to UPSERT_ATTEMPTS times in all.
SerializationFails(c) ==
    LET call == calls[c]
    IN  /\ serializable /\ call.req.kind = "upsert" /\ InTx(c)
        /\ call.stale \/ \E d \in Callers \ {c} : InTx(d)
        /\ Put(c, IF call.attempts = UpsertAttempts THEN Over(Abandoned(call), "failed")
                  ELSE [Abandoned(call) EXCEPT !.pc = "select", !.attempts = @ + 1, !.stale = FALSE,
                                               !.second = FALSE, !.began = now])
        /\ UNCHANGED <<policy, serializable, now, jobs, faults>>

\* The connection is lost and the transaction with it.
TxLost(c) ==
    /\ InTx(c) /\ faults < MaxFaults
    /\ faults' = faults + 1
    /\ Put(c, Over(Abandoned(calls[c]), "failed"))
    /\ UNCHANGED <<policy, serializable, now, jobs>>

-----------------------------------------------------------------------------
(* The worker, the sweep and the clock. *)

\* History: a job was taken from the queue while these calls ran.
Seen == calls' = [c \in Callers |-> [calls[c] EXCEPT !.claimed = @ \/ (Busy(c) /\ calls[c].req.kind = "upsert")]]

SetState(j, s) == jobs' = [jobs EXCEPT ![j].state = s]

\* fetchNextJob skips locked rows.
Fetch(j) ==
    /\ Waiting(j) /\ jobs[j].start <= now /\ ~Locked(j)
    /\ SetState(j, "active")
    /\ Seen
    /\ UNCHANGED <<policy, serializable, now, faults>>

\* A job that failed with attempts left waits for its delay; keep_until stays.
Retried(row, t) == [row EXCEPT !.state = "retry", !.start = t, !.putOff = @ + (t - row.start)]

Settle(j) ==
    /\ jobs[j].state = "active"
    /\ \/ SetState(j, "completed")
       \/ \E delay \in RetryDelays : jobs' = [jobs EXCEPT ![j] = Retried(@, now + delay)]
    /\ UNCHANGED <<policy, serializable, now, calls, faults>>

\* deletion: waiting jobs past keep_until.
Sweep(j) ==
    /\ Waiting(j) /\ jobs[j].keep < now /\ ~Locked(j)
    /\ SetState(j, "swept")
    /\ Seen
    /\ UNCHANGED <<policy, serializable, now, faults>>

Tick ==
    /\ now < MaxTime
    /\ now' = now + 1
    /\ UNCHANGED <<policy, serializable, jobs, calls, faults>>

Next ==
    \/ \E c \in Callers :
        \/ \E r \in Requests : Begin(c, r)
        \/ SendInsert(c) \/ InsertBatch(c) \/ \E e \in ClockErrors : Debounce(c, e)
        \/ Select(c) \/ Apply(c) \/ UpsertInsert(c) \/ Commit(c)
        \/ SerializationFails(c) \/ TxLost(c)
    \/ \E j \in Ids : Fetch(j) \/ Settle(j) \/ Sweep(j)
    \/ Tick

Spec == Init /\ [][Next]_vars

-----------------------------------------------------------------------------
(* Properties *)

\* A row, and a call between its statements.
Rows == [state : {"none", "created", "retry", "active", "completed", "swept"}, keyed : BOOLEAN,
         byKey : BOOLEAN, slot : Int, start : Int, putOff : Int, keep : Int, data : Callers \union {NoCaller}, created : Int]
CallRecords ==
    [pc : {"idle", "insert", "debounce", "select", "apply", "commit", "done", "failed"},
     req : [kind : Kinds \union {"none"}, by : {"key", "id"}, match : {"oldest", "newest", "all"}, start : Int],
     began : Int, target : SUBSET Ids, edits : SUBSET Ids, ins : Rows, id : Ids, second : BOOLEAN,
     attempts : 1 .. UpsertAttempts, refused : Int, after : Int, timely : BOOLEAN, claimed : BOOLEAN, stale : BOOLEAN,
     answer : SUBSET Ids]

TypeOK ==
    /\ <<policy, serializable>> \in Modes /\ now \in FirstTime .. MaxTime /\ faults \in 0 .. MaxFaults
    /\ jobs \in [Ids -> Rows]
    /\ calls \in [Callers -> CallRecords]

Upserted(c) == calls[c].pc = "done" /\ calls[c].req.kind = "upsert"

\* Concurrent upserts of one key agree on one job: at most one of them inserts, and
\* none comes back having done nothing, unless a job was claimed or swept
\* while it ran (or the queue is exclusive and a running job holds the key).
UpsertsAgree ==
    /\ \A c, d \in Callers : c # d /\ Upserted(c) /\ Upserted(d) /\ calls[c].req.by = "key" /\ calls[d].req.by = "key"
         => \E e \in {c, d} : calls[e].id = 0 \/ jobs[calls[e].id].state # "created"
    /\ \A c \in Callers :
        Upserted(c) /\ calls[c].req.by = "key" /\ calls[c].answer = {} => calls[c].claimed \/ policy = "exclusive"

\* What a debounced send that was refused its slot comes to: a row in a later slot that
\* never starts at once, and not before the refused slot is over if the sender's clock
\* served when its delay was read.
AfterRefusal(call, row) ==
    /\ row.slot > call.refused
    /\ row.start > row.created
    /\ call.timely => row.start >= call.refused + SingletonSeconds

\* A debounced job that was refused its slot is filed in a later one, with a delay
\* ("prevent startAfter=0 during debouncing"), though that is computed on the sender's
\* clock between two statements that read the database's.  The second that is added
\* makes up for a clock a second ahead, so the job does not start before the refused
\* slot is over, unless the clock was further ahead, or so far behind that it was in an
\* earlier slot.  Its retries do not undo that.
DebounceAfterSlot ==
    \A c \in Callers :
        calls[c].pc = "done" /\ calls[c].second /\ calls[c].req.kind = "debounce" =>
            \A j \in calls[c].answer : jobs[j].data = c => AfterRefusal(calls[c], jobs[j])

\* update() and upsert() never write to a job a worker has started, though they choose
\* it on a snapshot from before it was started; only its retry moves its start_after.
StartedUntouched ==
    [][\A j \in Ids : jobs[j].state \in {"active", "completed"} =>
            /\ jobs'[j].data = jobs[j].data /\ jobs'[j].keep = jobs[j].keep
            /\ jobs'[j].start = jobs[j].start \/ (jobs[j].state = "active" /\ jobs'[j].state = "retry")]_vars

\* A waiting job is swept only when the queue's retention has passed since its
\* start_after, wherever an edit has moved that; but a retry puts start_after off and
\* leaves keep_until, so retention counts from where start_after would be without the
\* retries, and an edit moves it by as much as it moves start_after.
RetainedFromStart ==
    [][\A j \in Ids : Waiting(j) /\ jobs'[j].state = "swept" =>
            now > jobs[j].start - jobs[j].putOff + Retention]_vars

\* Calls that race for one key or one slot agree: upserts on one job, debounced sends
\* on one job per slot.
SendsAgree == UpsertsAgree /\ DebounceAfterSlot

\* An edit reaches a waiting job only, and moves its retention with its start; a retry
\* moves the start alone.
EditsSafe == StartedUntouched /\ RetainedFromStart
================================================================================
