-------------------------------- MODULE Queues ---------------------------------
(***************************************************************************)
(* The queue table, each instance's cache of it, and the way of a job      *)
(* through a dead letter queue and back.                                   *)
(*                                                                         *)
(* Every statement on jobs names the table it reads from the cache: the    *)
(* shared table, or the queue's own (partition: true).  Queues are         *)
(* created, updated and deleted by any instance, and the others learn of   *)
(* it from their periodic refresh or from a write that fails.  Answers of  *)
(* the database are applied to the cache one step after they were read.    *)
(* Instances meet in the database only, so those that are not followed in  *)
(* detail are their statements, which may come at any moment.              *)
(*                                                                         *)
(* A job that fails for good is copied to the dead letter queue it names;  *)
(* redrive() moves the copy back.  Claims and retries are the subject of   *)
(* JobClaims, the removal of finished jobs that of QueueStats.             *)
(***************************************************************************)
EXTENDS Integers, FiniteSets

CONSTANTS
    Instances,      \* the instances followed in detail
    Names,          \* queue names
    NoQueue,        \* no dead letter queue, no source, no place
    Main, Dead,     \* the two queues at the start, Dead the dead letter queue of Main
    Exclusive,      \* queues of the exclusive policy; all jobs have one singletonKey
    MaxJobs,        \* bound: jobs stored, copies in dead letter queues included
    MaxChanges,     \* bound: create, update and delete calls, here and elsewhere
    MaxTogether,    \* bound: jobs and such calls together
    Refreshes       \* bound: refreshes of one instance that overlap

ASSUME QueuesAssumption ==
    /\ IsFiniteSet(Instances)
    /\ {Main, Dead} \subseteq Names /\ Main # Dead
    /\ NoQueue \notin Names
    /\ Exclusive \subseteq Names
    /\ MaxJobs \in Nat
    /\ MaxChanges \in Nat /\ MaxTogether \in Nat

Ids == 1..MaxJobs       \* each used once, in turn

VARIABLES
    table,      \* where the rows of each queue live; "none" without a queue row
    deadLetter, \* the queue's dead_letter
    cache,      \* this.queues of each instance: the table of each cached queue
    answer,     \* what each refresh in flight has read, or {}
    call,       \* the public call each instance is in
    changes,    \* deploy calls so far
    job,        \* every job id
    again       \* ghost: the retries of a job, by its root, after its copy was made

vars == <<table, deadLetter, cache, answer, call, changes, job, again>>

Tables == {"shared", "own"}

Idle == [op |-> "none", name |-> NoQueue, at |-> "idle", row |-> "none",
         own |-> FALSE, dlq |-> NoQueue]

\* A job that was deleted with its queue keeps its record and has no place.
NoJob == [place |-> NoQueue, state |-> "unused", dlq |-> NoQueue, source |-> NoQueue,
          root |-> 0]

Places == Names \cup {NoQueue}
Stored == Tables \cup {"none"}

JobRecords == [place : Places, state : {"unused", "created", "active", "completed", "failed"},
               dlq : Places, source : Places, root : Nat]

CallRecords == [op : {"none", "send", "create", "update", "delete"}, name : Places,
                at : {"idle", "lookup", "found", "act", "reread", "reload", "reloaded", "empty", "drop"},
                row : Stored, own : BOOLEAN, dlq : Places]

TypeOK ==
    /\ table \in [Names -> Stored]
    /\ deadLetter \in [Names -> Places]
    /\ cache \in [Instances -> [Names -> Stored]]
    /\ answer \in [Instances -> [Refreshes -> SUBSET [Names -> Stored]]]
    /\ call \in [Instances -> CallRecords]
    /\ changes \in Nat
    /\ job \in [Ids -> JobRecords]
    /\ again \in [Ids -> Nat]
    /\ \A i \in Instances :
        /\ call[i].at # "idle" => call[i].name \in Names
        /\ call[i].op = "create" /\ call[i].at \in {"lookup", "found"} => call[i].dlq \in Names

Init ==
    /\ table = [n \in Names |-> IF n \in {Main, Dead} THEN "shared" ELSE "none"]
    /\ deadLetter = [n \in Names |-> IF n = Main THEN Dead ELSE NoQueue]
    /\ cache = [i \in Instances |-> table]
    /\ answer = [i \in Instances |-> [k \in Refreshes |-> {}]]
    /\ call = [i \in Instances |-> Idle]
    /\ changes = 0
    /\ job = [x \in Ids |-> NoJob]
    /\ again = [x \in Ids |-> 0]

NextId == 1 + Cardinality({x \in Ids : job[x].state # "unused"})

Sending == {i \in Instances : call[i].op = "send"}

\* The bounds: one more job beside those being sent, one more deploy call.
Free == NextId + Cardinality(Sending) + changes <= MaxTogether
Room == Free /\ NextId + Cardinality(Sending) \in Ids
RoomForChange == Free /\ changes < MaxChanges

At(n) == {x \in Ids : job[x].place = n}
Alive(x) == job[x].state \in {"created", "active"}

-----------------------------------------------------------------------------
(* The cache. *)

\* onCacheQueues: every queue is read, also while earlier reads are unanswered ...
RefreshRead(i, k) ==
    /\ answer[i][k] = {}
    /\ answer' = [answer EXCEPT ![i][k] = {table}]
    /\ UNCHANGED <<table, deadLetter, cache, call, changes, job, again>>

\* Mutant: what is cached stays.
MergedCache(old, read) == [n \in Names |-> IF old[n] = "none" THEN read[n] ELSE old[n]]

\* ... and replaces the cache.
RefreshedCache(old, read) == read

RefreshApply(i, k) ==
    /\ \E read \in answer[i][k] : cache' = [cache EXCEPT ![i] = RefreshedCache(cache[i], read)]
    /\ answer' = [answer EXCEPT ![i][k] = {}]
    /\ UNCHANGED <<table, deadLetter, call, changes, job, again>>

\* The read failed: an error event, and the cache stays.
RefreshFails(i, k) ==
    /\ answer[i][k] # {}
    /\ answer' = [answer EXCEPT ![i][k] = {}]
    /\ UNCHANGED <<table, deadLetter, cache, call, changes, job, again>>

Go(i, at) == call' = [call EXCEPT ![i].at = at]
End(i) == call' = [call EXCEPT ![i] = Idle]
Read(i, n, at) == call' = [call EXCEPT ![i].row = table[n], ![i].at = at]

\* The queue a call looks up: a create asks for its dead letter queue.
Wanted(i) == IF call[i].op = "create" THEN call[i].dlq ELSE call[i].name

\* getQueueCache: the cached row, or the stored one.
Lookup(i) ==
    /\ call[i].at = "lookup"
    /\ IF cache[i][Wanted(i)] # "none"
       THEN call' = [call EXCEPT ![i].row = cache[i][Wanted(i)], ![i].at = "act"]
       ELSE Read(i, Wanted(i), "found")
    /\ UNCHANGED <<table, deadLetter, cache, answer, changes, job, again>>

\* The stored row is cached; without one the call is told that the queue does
\* not exist, or a delete has nothing to do.
Found(i) ==
    /\ call[i].at = "found"
    /\ IF call[i].row = "none" THEN End(i) ELSE Go(i, "act")
    /\ cache' = [cache EXCEPT ![i][Wanted(i)] =
                    IF call[i].row = "none" THEN cache[i][Wanted(i)] ELSE call[i].row]
    /\ UNCHANGED <<table, deadLetter, answer, changes, job, again>>

-----------------------------------------------------------------------------
(* send(). *)

CallSend(i, n) ==
    /\ call[i] = Idle
    /\ Room
    /\ call' = [call EXCEPT ![i] = [Idle EXCEPT !.op = "send", !.name = n, !.at = "lookup"]]
    /\ UNCHANGED <<table, deadLetter, cache, answer, changes, job, again>>

\* The policy's index holds jobs that were sent or redriven to the queue; a copy
\* in a dead letter queue has no policy.
Refused(n) ==
    n \in Exclusive /\ \E y \in At(n) : Alive(y) /\ job[y].source = NoQueue

\* insertJobs into the table the cache named.
Insert(i) ==
    /\ call[i].op = "send" /\ call[i].at = "act"
    /\ call[i].row = table[call[i].name]
    /\ IF Refused(call[i].name) THEN UNCHANGED job
       ELSE job' = [job EXCEPT ![NextId] =
                        [place |-> call[i].name, state |-> "created",
                         dlq |-> deadLetter[call[i].name], source |-> NoQueue, root |-> NextId]]
    /\ End(i)
    /\ UNCHANGED <<table, deadLetter, cache, answer, changes, again>>

Evict(i, n) == cache' = [cache EXCEPT ![i][n] = "none"]

\* #rethrowInsertError on q_fkey: the queue is gone, and so is its cache entry.
InsertMissing(i) ==
    /\ call[i].op = "send" /\ call[i].at = "act"
    /\ table[call[i].name] = "none" /\ call[i].row = "shared"
    /\ Evict(i, call[i].name)
    /\ End(i)
    /\ UNCHANGED <<table, deadLetter, answer, changes, job, again>>

\* Mutant: the error is passed on and the cache stays as it was.
InsertWrongTableGivesUp(i) ==
    /\ call[i].op = "send" /\ call[i].at = "act"
    /\ \/ call[i].row = "own" /\ table[call[i].name] # "own"
       \/ call[i].row = "shared" /\ table[call[i].name] = "own"
    /\ Go(i, "lookup")
    /\ UNCHANGED <<table, deadLetter, cache, answer, changes, job, again>>

\* A dropped table (42P01), or the partition constraint of the shared one
\* (23514): the queue is read again.
InsertWrongTable(i) ==
    /\ call[i].op = "send" /\ call[i].at = "act"
    /\ \/ call[i].row = "own" /\ table[call[i].name] # "own"
       \/ call[i].row = "shared" /\ table[call[i].name] = "own"
    /\ Read(i, call[i].name, "reread")
    /\ UNCHANGED <<table, deadLetter, cache, answer, changes, job, again>>

\* A gone queue is reported, another takes its current row and the caller,
\* which got the error, sends again.
Heal(i) ==
    /\ call[i].op = "send" /\ call[i].at = "reread"
    /\ cache' = [cache EXCEPT ![i][call[i].name] = call[i].row]
    /\ IF call[i].row = "none" THEN End(i) ELSE Go(i, "lookup")
    /\ UNCHANGED <<table, deadLetter, answer, changes, job, again>>

-----------------------------------------------------------------------------
(* createQueue(), updateQueue() and deleteQueue(). *)

Deploy(i, op, n, own, dlq, at) ==
    /\ call[i] = Idle
    /\ RoomForChange
    /\ changes' = changes + 1
    /\ dlq # n
    /\ call' = [call EXCEPT ![i] = [op |-> op, name |-> n, at |-> at, row |-> "none",
                                    own |-> own, dlq |-> dlq]]
    /\ UNCHANGED <<table, deadLetter, cache, answer, job, again>>

CallCreate(i, n, own, dlq) ==
    Deploy(i, "create", n, own, dlq, IF dlq = NoQueue THEN "act" ELSE "lookup")

CallUpdate(i, n, dlq) == Deploy(i, "update", n, FALSE, dlq, "act")

CallDelete(i, n) == Deploy(i, "delete", n, FALSE, NoQueue, "lookup")

\* The foreign key of queue.dead_letter.
NamesNothing(dlq) == dlq # NoQueue /\ table[dlq] = "none"

\* create_queue: ON CONFLICT DO NOTHING.
CreateQueue(n, own, dlq) ==
    IF table[n] # "none" THEN UNCHANGED <<table, deadLetter>>
    ELSE /\ table' = [table EXCEPT ![n] = IF own THEN "own" ELSE "shared"]
         /\ deadLetter' = [deadLetter EXCEPT ![n] = dlq]

Create(i) ==
    /\ call[i].op = "create" /\ call[i].at = "act"
    /\ table[call[i].name] # "none" \/ ~NamesNothing(call[i].dlq)
    /\ CreateQueue(call[i].name, call[i].own, call[i].dlq)
    /\ Go(i, "reload")
    /\ UNCHANGED <<cache, answer, changes, job, again>>

UpdateQueue(n, dlq) ==
    deadLetter' = [deadLetter EXCEPT ![n] = IF table[n] = "none" THEN NoQueue ELSE dlq]

Update(i) ==
    /\ call[i].op = "update" /\ call[i].at = "act"
    /\ table[call[i].name] = "none" \/ ~NamesNothing(call[i].dlq)
    /\ UpdateQueue(call[i].name, call[i].dlq)
    /\ Go(i, "reload")
    /\ UNCHANGED <<table, cache, answer, changes, job, again>>

\* The foreign key raises, and the call ends with its error.
DeployRefused(i) ==
    /\ call[i].op \in {"create", "update"} /\ call[i].at = "act"
    /\ (call[i].op = "create") = (table[call[i].name] = "none")
    /\ NamesNothing(call[i].dlq)
    /\ End(i)
    /\ UNCHANGED <<table, deadLetter, cache, answer, changes, job, again>>

\* #reloadQueueCache.
ReloadRead(i) ==
    /\ call[i].at = "reload"
    /\ Read(i, call[i].name, "reloaded")
    /\ UNCHANGED <<table, deadLetter, cache, answer, changes, job, again>>

ReloadApply(i) ==
    /\ call[i].at = "reloaded"
    /\ cache' = [cache EXCEPT ![i][call[i].name] = call[i].row]
    /\ End(i)
    /\ UNCHANGED <<table, deadLetter, answer, changes, job, again>>

\* getDeadLetterReferrer, and the foreign keys delete_queue() runs into.
Referred(n) ==
    \/ \E m \in Names \ {n} : deadLetter[m] = n
    \/ \E x \in Ids : job[x].place \in Names \ {n} /\ job[x].dlq = n

RemoveAll(n) == job' = [x \in Ids |-> IF x \in At(n) THEN [job[x] EXCEPT !.place = NoQueue]
                                                      ELSE job[x]]

\* A queue the cache knows in the shared table is refused while another queue
\* or job names it, and emptied first.  One with its own table is dropped whole.
CheckReferrer(i) ==
    /\ call[i].op = "delete" /\ call[i].at = "act"
    /\ IF call[i].row = "own" THEN Go(i, "drop")
       ELSE IF Referred(call[i].name) THEN End(i) ELSE Go(i, "empty")
    /\ UNCHANGED <<table, deadLetter, cache, answer, changes, job, again>>

EmptyShared(i) ==
    /\ call[i].op = "delete" /\ call[i].at = "empty"
    /\ IF table[call[i].name] = "shared" THEN RemoveAll(call[i].name) ELSE UNCHANGED job
    /\ Go(i, "drop")
    /\ UNCHANGED <<table, deadLetter, cache, answer, changes, again>>

\* delete_queue, one transaction: refused while something names the queue.
DeleteQueue(n) ==
    /\ ~Referred(n)
    /\ table' = [table EXCEPT ![n] = "none"]
    /\ deadLetter' = [deadLetter EXCEPT ![n] = NoQueue]
    /\ RemoveAll(n)

Drop(i) ==
    /\ call[i].op = "delete" /\ call[i].at = "drop"
    /\ DeleteQueue(call[i].name)
    /\ Evict(i, call[i].name)
    /\ End(i)
    /\ UNCHANGED <<answer, changes, again>>

\* A foreign key refuses it, or the tables stayed locked through every try.
DropRefused(i) ==
    /\ call[i].op = "delete" /\ call[i].at = "drop"
    /\ Referred(call[i].name) \/ table[call[i].name] = "own"
    /\ End(i)
    /\ UNCHANGED <<table, deadLetter, cache, answer, changes, job, again>>

\* What the calls of other instances do to the tables.
Elsewhere(n) ==
    /\ RoomForChange
    /\ changes' = changes + 1
    /\ \/ /\ \E own \in BOOLEAN, dlq \in (Names \ {n}) \cup {NoQueue} :
                table[n] = "none" /\ ~NamesNothing(dlq) /\ CreateQueue(n, own, dlq)
          /\ UNCHANGED job
       \/ /\ \E dlq \in (Names \ {n}) \cup {NoQueue} :
                table[n] # "none" /\ ~NamesNothing(dlq) /\ UpdateQueue(n, dlq)
          /\ UNCHANGED <<table, job>>
       \/ table[n] # "none" /\ DeleteQueue(n)
       \/ table[n] = "shared" /\ RemoveAll(n) /\ UNCHANGED <<table, deadLetter>>
    /\ UNCHANGED <<cache, answer, call, again>>

-----------------------------------------------------------------------------
(* Jobs.  A statement that names another table than the queue's touches no row. *)

Reaches(i, n) == table[n] # "none" /\ cache[i][n] \in {"none", table[n]}

\* A fetch that misses the cache reads the queue and caches it.
Fetch(i, x) ==
    /\ job[x].state = "created" /\ job[x].place # NoQueue
    /\ Reaches(i, job[x].place)
    /\ job' = [job EXCEPT ![x].state = "active"]
    /\ cache' = [cache EXCEPT ![i][job[x].place] = table[job[x].place]]
    /\ UNCHANGED <<table, deadLetter, answer, call, changes, again>>

Complete(x) ==
    /\ job[x].state = "active" /\ job[x].place # NoQueue
    /\ job' = [job EXCEPT ![x].state = "completed"]
    /\ UNCHANGED <<table, deadLetter, cache, answer, call, changes, again>>

\* failJobs without retries left: dlq_jobs copies the job into the queue it names.
Fail(x) ==
    /\ job[x].state = "active" /\ job[x].place # NoQueue
    /\ IF job[x].dlq = NoQueue
       THEN job' = [job EXCEPT ![x].state = "failed"]
       ELSE /\ Room
            /\ job' = [job EXCEPT ![x].state = "failed",
                                  ![NextId] = [place |-> job[x].dlq, state |-> "created",
                                               dlq |-> NoQueue, source |-> job[x].place,
                                               root |-> job[x].root]]
    /\ UNCHANGED <<table, deadLetter, cache, answer, call, changes, again>>

\* redriveWhere: queued jobs whose destination exists.
Candidates(n) ==
    {x \in At(n) : job[x].state = "created" /\ job[x].source # NoQueue
                     /\ table[job[x].source] # "none"}

Redriven(x) ==
    [place |-> job[x].source, state |-> "created", dlq |-> deadLetter[job[x].source],
     source |-> NoQueue, root |-> job[x].root]

\* Mutant: the dead letter row goes whatever became of the insert.
NotRedrivenGone(x) == [job[x] EXCEPT !.place = NoQueue, !.state = "void"]

\* redriveConflictSet: the job stays in the dead letter queue, failed.
NotRedriven(x) == [job[x] EXCEPT !.state = "failed"]

Redrove(S, M) ==
    [x \in Ids |-> IF x \in M THEN Redriven(x) ELSE IF x \in S THEN NotRedriven(x) ELSE job[x]]

\* redrive(n): some candidates or none (limit, filters, SKIP LOCKED) are created again
\* in their source queue, ON CONFLICT DO NOTHING, and deleted; those an index
\* refuses, of one batch all but one, are failed in place.
Redrive(i, n) ==
    /\ Reaches(i, n)
    /\ \E S \in SUBSET Candidates(n) :
        \E M \in SUBSET S :
            /\ \A x \in M : ~Refused(job[x].source)
            /\ \A x, y \in M :
                    x # y /\ job[x].source \in Exclusive => job[y].source # job[x].source
            /\ \A x \in S \ M :
                \/ Refused(job[x].source)
                \/ job[x].source \in Exclusive /\ \E y \in M : job[y].source = job[x].source
            /\ job' = Redrove(S, M)
    /\ cache' = [cache EXCEPT ![i][n] = table[n]]
    /\ UNCHANGED <<table, deadLetter, answer, call, changes, again>>

\* The job that stands for root r: it is waiting, running or done, or it failed
\* where no dead letter queue takes over.
StandsFor(x, r) ==
    /\ job[x].root = r
    /\ job[x].state \in {"created", "active", "completed"}
        \/ (job[x].state = "failed" /\ job[x].dlq = NoQueue)

\* retryJobs: any failed job waits again, one whose copy is in a dead letter queue
\* as well, unless the policy's index refuses it.
Retry(x) ==
    /\ job[x].state = "failed" /\ job[x].place # NoQueue
    /\ job[x].source = NoQueue => ~Refused(job[x].place)
    /\ job' = [job EXCEPT ![x].state = "created"]
    /\ again' = IF StandsFor(x, job[x].root) THEN again
                ELSE [again EXCEPT ![job[x].root] = again[job[x].root] + 1]
    /\ UNCHANGED <<table, deadLetter, cache, answer, call, changes>>

-----------------------------------------------------------------------------
CallStep(i) ==
    \/ Lookup(i) \/ Found(i)
    \/ Insert(i) \/ InsertMissing(i) \/ InsertWrongTable(i) \/ Heal(i)
    \/ Create(i) \/ Update(i) \/ DeployRefused(i) \/ ReloadRead(i) \/ ReloadApply(i)
    \/ CheckReferrer(i) \/ EmptyShared(i) \/ Drop(i) \/ DropRefused(i)

Calls(i) ==
    \E n \in Names :
        \/ CallSend(i, n) \/ CallDelete(i, n)
        \/ \E dlq \in Names \cup {NoQueue} :
            CallUpdate(i, n, dlq) \/ \E own \in BOOLEAN : CallCreate(i, n, own, dlq)

JobStep ==
    \/ \E x \in Ids : Complete(x) \/ Fail(x) \/ Retry(x) \/ \E i \in Instances : Fetch(i, x)
    \/ \E i \in Instances, n \in Names : Redrive(i, n)

Next ==
    \/ JobStep
    \/ \E n \in Names : Elsewhere(n)
    \/ \E i \in Instances :
        \/ CallStep(i) \/ Calls(i)
        \/ \E k \in Refreshes : RefreshRead(i, k) \/ RefreshApply(i, k) \/ RefreshFails(i, k)

Spec == Init /\ [][Next]_vars

\* A call goes on as long as its statements are answered.
FairSpec == Spec /\ \A i \in Instances : WF_vars(CallStep(i))

-----------------------------------------------------------------------------
(* Properties. *)

\* Dead letters, redrive and retry (plans.ts dlq_jobs, redriveJobs, retryJobs):
\* whatever fails, is redriven, collides, is retried or is redriven again, every job
\* sent is in exactly one place, never lost and never doubled, but by retry(): each
\* retry of a job whose copy is already in the dead letter queue makes one more.
OnePlacePerJob ==
    \A r \in Ids :
        job[r].root = r => Cardinality({x \in Ids : StandsFor(x, r)}) = 1 + again[r]

\* docs/api/queues.md: a queue deleted and created again elsewhere "fails the
\* first write from an instance that cached it", and the instance "writes to the
\* new table from the next call".  A send that is repeated on error ends, in a
\* stored job or in the news that the queue is gone, without any refresh.
SendLands == \A i \in Instances : call[i].op = "send" ~> call[i].op # "send"

\* The periodic refresh (onCacheQueues): once queues stop changing, no cache
\* names a wrong table for good, whichever order answers arrive in and whatever
\* refreshes fail, as long as they do not all fail.
CacheConverges ==
    (\A i \in Instances, k \in Refreshes : WF_vars(RefreshRead(i, k)) /\ SF_vars(RefreshApply(i, k)))
        => <>[](\A i \in Instances, n \in Names : cache[i][n] \in {"none", table[n]})
================================================================================
