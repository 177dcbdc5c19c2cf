--------------------------------- MODULE SendIt ---------------------------------
(***************************************************************************)
(* The schedule table, the pass that reads it and the send-it queue that   *)
(* carries its occurrences to the queues.                                  *)
(*                                                                         *)
(* The pass reads every row the way its `kind' column says, or the way the *)
(* expression is written if that fails, files a send-it job per slot and   *)
(* then relabels the rows it had to read the other way.  Between its read  *)
(* and its writes rows are edited, by this release and, during a rolling   *)
(* upgrade, by one that does not know the column.  A send-it worker takes  *)
(* a batch, forwards each occurrence with send() and records the newest    *)
(* job of each schedule in last_job_id.  Forwards fail one by one, workers *)
(* die, completions fail, and a batch that expired or was failed by stop() *)
(* is taken again while its first handler may still run.  When passes run  *)
(* and what they find due is module Cron.                                  *)
(***************************************************************************)
EXTENDS Naturals, FiniteSets

CONSTANTS
    Names,          \* the (name, key) pairs of schedules
    Expressions,    \* [written: the format, usable: whether it can be read]
    Instances,
    None,
    RetryLimit,     \* of the send-it queue
    MaxSlot,        \* bound: slots the clock goes through
    MaxEdits,       \* bound: calls that write the schedule table
    MaxFaults       \* bound: failed statements, dropped sends, crashes, lost claims

\* What is assumed of the constants.
SendItAssumption ==
    /\ IsFiniteSet(Instances)
    /\ {RetryLimit, MaxEdits, MaxFaults} \subseteq Nat /\ MaxSlot \in Nat \ {0} /\ None \notin Nat
    /\ \A e \in Expressions : e.written \in {"cron", "rrule"} /\ e.usable \in BOOLEAN

VARIABLES
    slot,       \* the slot the database clock is in
    passed,     \* the slot the last pass ran in
    rows,       \* the schedule table
    pass,       \* the pass of each instance: None, or what it read and owes
    queue,      \* the send-it jobs, by (name, slot)
    batch,      \* the batch each instance's handler holds: None, or its progress
    sent,       \* jobs forwarded for each occurrence
    due,        \* ghost: occurrences a pass found for a usable row, and filed
    reported,   \* ghost: occurrences whose send was refused or dropped
    newest,     \* ghost: the newest slot recorded for a row
    crossed,    \* ghost: batches overlapped or lost their claims, or an occurrence was handled late
    edits, faults

ghostVars == <<due, reported, newest, crossed>>
vars == <<slot, passed, rows, pass, queue, batch, sent, ghostVars, edits, faults>>

Kinds == {"cron", "rrule"}
Slots == 1..MaxSlot
Keys == Names \X Slots

Row == [expr : Expressions, kind : Kinds, last : Slots \cup {None}, by : {"this", "older"}]

\* A send-it job.  `payload' says which of the pass's own fields it carries: an
\* older instance's names no slot, a still older one's no key.  `losses' is history:
\* claims of it that ended otherwise than by its completion.
Job == [state : {"none", "created", "active", "completed", "failed"},
        attempt : 0..RetryLimit, payload : {"full", "noslot", "nokey"}, losses : Nat]

NoJob == [state |-> "none", attempt |-> 0, payload |-> "full", losses |-> 0]

TypeOK ==
    /\ slot \in Slots /\ passed \in 0..slot
    /\ rows \in [Names -> Row \cup {None}]
    /\ \A i \in Instances : pass[i] # None =>
            /\ pass[i].step \in {"read", "sent"}
            /\ pass[i].owed \subseteq Keys
            /\ pass[i].relabelled \subseteq Names \X Expressions \X Kinds
    /\ queue \in [Keys -> Job]
    /\ \A i \in Instances : batch[i] # None =>
            /\ batch[i].jobs \in SUBSET Keys
            /\ batch[i].recorded \in BOOLEAN
            /\ batch[i].result \in [batch[i].jobs -> {"pending", "job", "null", "rejected"}]
    /\ sent \in [Keys -> Nat]
    /\ {due, reported} \subseteq SUBSET Keys
    /\ newest \in [Names -> 0..MaxSlot]
    /\ crossed \in BOOLEAN

Init ==
    /\ slot = 1 /\ passed = 0
    /\ rows = [n \in Names |-> None]
    /\ pass = [i \in Instances |-> None]
    /\ queue = [k \in Keys |-> NoJob]
    /\ batch = [i \in Instances |-> None]
    /\ sent = [k \in Keys |-> 0]
    /\ due = {} /\ reported = {}
    /\ newest = [n \in Names |-> 0]
    /\ crossed = FALSE
    /\ edits = 0 /\ faults = 0

Fault == faults < MaxFaults /\ faults' = faults + 1
Edit == edits < MaxEdits /\ edits' = edits + 1

-----------------------------------------------------------------------------
(* The schedule table. *)

\* schedule(): the expression is validated, and its format decided, here.
Schedule(n, e) ==
    /\ Edit /\ e.usable
    /\ rows' = [rows EXCEPT ![n] =
            [expr |-> e, kind |-> e.written, by |-> "this",
             last |-> IF rows[n] = None THEN None ELSE rows[n].last]]
    /\ UNCHANGED <<slot, passed, pass, queue, batch, sent, ghostVars, faults>>

\* The upsert of a release that does not name the column, or a row written with
\* SQL: a new row is labelled by the column's default, an old one keeps its label.
ScheduleOlder(n, e) ==
    /\ Edit
    /\ rows' = [rows EXCEPT ![n] =
            [expr |-> e, by |-> "older",
             kind |-> IF rows[n] = None THEN "cron" ELSE rows[n].kind,
             last |-> IF rows[n] = None THEN None ELSE rows[n].last]]
    /\ UNCHANGED <<slot, passed, pass, queue, batch, sent, ghostVars, faults>>

Unschedule(n) ==
    /\ Edit /\ rows[n] # None
    /\ rows' = [rows EXCEPT ![n] = None]
    /\ newest' = [newest EXCEPT ![n] = 0]
    /\ UNCHANGED <<slot, passed, pass, queue, batch, sent, due, reported, crossed, faults>>

-----------------------------------------------------------------------------
(* The pass. *)

\* An expression read as the other format throws.
ReadsAs(e, kind) == e.usable /\ e.written = kind

\* Mutant: the column is the verdict.
DueKindsStored(row) == IF ReadsAs(row.expr, row.kind) THEN {row.kind} ELSE {}

\* dueOccurrences: the format the expression could be read in, the column's
\* first.  None if it cannot be read, which costs this row alone.
DueKinds(row) ==
    IF ReadsAs(row.expr, row.kind) THEN {row.kind}
    ELSE {k \in {row.expr.written} \ {row.kind} : ReadsAs(row.expr, k)}

Readable == {n \in Names : rows[n] # None /\ DueKinds(rows[n]) # {}}

\* cron(): one read, one instant.  A row is due in this slot, and in the one
\* before it where it catches up, which is after a gap with no pass.  A pass has
\* the claim, and is over before the next one has it.
Read(i) ==
    /\ \A j \in Instances : pass[j] = None
    /\ \E late \in SUBSET {n \in Readable : passed < slot} :
        pass' = [pass EXCEPT ![i] =
            [step |-> "read",
             seen |-> {n \in Names : rows[n] # None /\ rows[n].expr.usable},
             owed |-> {k \in Keys : k[1] \in Readable
                        /\ (k[2] = slot \/ (k[2] = slot - 1 /\ k[1] \in late))},
             relabelled |-> UNION {{<<n, rows[n].expr, k>> : k \in DueKinds(rows[n]) \ {rows[n].kind}}
                                    : n \in Readable}]]
    /\ passed' = slot
    /\ UNCHANGED <<slot, rows, queue, batch, sent, ghostVars, edits, faults>>

Filed(payload) == [NoJob EXCEPT !.state = "created", !.payload = payload]

\* insert() on the send-it queue: a slot that has a job keeps it.
Insert(i) ==
    /\ pass[i] # None /\ pass[i].step = "read"
    /\ queue' = [k \in Keys |-> IF k \in pass[i].owed /\ queue[k] = NoJob
                                THEN Filed("full") ELSE queue[k]]
    /\ pass' = [pass EXCEPT ![i].step = "sent"]
    /\ due' = due \cup {<<n, slot>> : n \in pass[i].seen}
    /\ UNCHANGED <<slot, passed, rows, batch, sent, reported, newest, crossed, edits, faults>>

\* The insert fails, or stop() was called: what the pass owed is gone, and the
\* rows keep their labels.
Abandon(i) ==
    /\ pass[i] # None
    /\ pass' = [pass EXCEPT ![i] = None]
    /\ Fault
    /\ UNCHANGED <<slot, passed, rows, queue, batch, sent, ghostVars, edits>>

\* Mutant: matched on the key alone.
RelabelMatchesKey(n, e) == rows[n] # None

\* setScheduleKinds: matched on the expression the label was read off.
RelabelMatches(n, e) == rows[n] # None /\ rows[n].expr = e

\* The relabel that ends a pass.
Relabel(i) ==
    /\ pass[i] # None /\ pass[i].step = "sent"
    /\ rows' = [n \in Names |->
            IF \E r \in pass[i].relabelled : r[1] = n /\ RelabelMatches(n, r[2])
            THEN [rows[n] EXCEPT !.kind = (CHOOSE r \in pass[i].relabelled : r[1] = n)[3]]
            ELSE rows[n]]
    /\ pass' = [pass EXCEPT ![i] = None]
    /\ UNCHANGED <<slot, passed, queue, batch, sent, ghostVars, edits, faults>>

\* The pass of an older instance files an occurrence from its own clock.
InsertOlder(n) ==
    /\ Edit
    /\ \A i \in Instances : pass[i] = None
    /\ rows[n] # None /\ rows[n].expr.usable
    /\ queue[<<n, slot>>] = NoJob
    /\ \E p \in {"noslot", "nokey"} :
            queue' = [queue EXCEPT ![<<n, slot>>] = Filed(p)]
    /\ passed' = slot
    /\ UNCHANGED <<slot, rows, pass, batch, sent, ghostVars, faults>>

NextSlot ==
    /\ slot < MaxSlot
    /\ slot' = slot + 1
    /\ \A i \in Instances : pass[i] = None
    /\ UNCHANGED <<passed, rows, pass, queue, batch, sent, ghostVars, edits, faults>>

-----------------------------------------------------------------------------
(* The send-it handler. *)

Waiting == {k \in Keys : queue[k].state = "created"}

\* A fetch of the send-it worker, whose batch size is above all these bounds.
Fetch(i) ==
    /\ batch[i] = None /\ Waiting # {}
    /\ queue' = [k \in Keys |-> IF k \in Waiting THEN [queue[k] EXCEPT !.state = "active"]
                                                 ELSE queue[k]]
    /\ batch' = [batch EXCEPT ![i] =
            [jobs |-> Waiting, recorded |-> FALSE,
             attempt |-> [k \in Waiting |-> queue[k].attempt],
             result |-> [k \in Waiting |-> "pending"]]]
    /\ crossed' = (crossed \/ \E j \in Instances : batch[j] # None)
    /\ UNCHANGED <<slot, passed, rows, pass, sent, due, reported, newest, edits, faults>>

\* One send() of Promise.allSettled: it creates a job, is dropped by a throttle
\* or a policy, or is rejected, which is its own result and nobody else's.
Forward(i, k) ==
    /\ batch[i] # None /\ k \in batch[i].jobs /\ batch[i].result[k] = "pending"
    /\ \/ /\ batch' = [batch EXCEPT ![i].result[k] = "job"]
          /\ sent' = [sent EXCEPT ![k] = @ + 1]
          /\ UNCHANGED <<reported, faults>>
       \/ /\ \E r \in {"null", "rejected"} : batch' = [batch EXCEPT ![i].result[k] = r]
          /\ reported' = reported \cup {k}
          /\ Fault
          /\ UNCHANGED sent
    /\ UNCHANGED <<slot, passed, rows, pass, queue, due, newest, crossed, edits>>

AllSettled(i) == \A k \in batch[i].jobs : batch[i].result[k] # "pending"

\* The slot that orders an occurrence in its batch: its own, or the current one
\* for a payload that names none.
FiledSlot(k) == IF queue[k].payload = "noslot" THEN slot ELSE k[2]

\* The results that name a job of schedule n.
Named(i, n) == {k \in batch[i].jobs : k[1] = n /\ batch[i].result[k] = "job"
                                        /\ queue[k].payload # "nokey"}

\* Mutant: the last result of the batch, in whatever order the fetch gave them.
FiredAny(i, n) == Named(i, n)

\* The map `fired': the latest of the batch, of equals the one that comes last.
Fired(i, n) == {k \in Named(i, n) : \A l \in Named(i, n) : FiledSlot(l) <= FiledSlot(k)}

SetMax(S) == CHOOSE x \in S : \A y \in S : y <= x

\* setLastJobIds: one statement, one record per schedule.
Record(i) ==
    /\ batch[i] # None /\ ~batch[i].recorded /\ AllSettled(i)
    /\ \E pick \in [Names -> Slots \cup {None}] :
        /\ \A n \in Names : IF Fired(i, n) = {} THEN pick[n] = None
                                                ELSE <<n, pick[n]>> \in Fired(i, n)
        /\ rows' = [n \in Names |-> IF rows[n] # None /\ pick[n] # None
                                    THEN [rows[n] EXCEPT !.last = pick[n]] ELSE rows[n]]
    /\ batch' = [batch EXCEPT ![i].recorded = TRUE]
    /\ newest' = [n \in Names |-> IF rows[n] # None /\ Named(i, n) # {}
                    THEN SetMax({k[2] : k \in Named(i, n)} \cup {newest[n]}) ELSE newest[n]]
    /\ crossed' = (crossed \/ \E k \in batch[i].jobs : FiledSlot(k) # k[2])
    /\ UNCHANGED <<slot, passed, pass, queue, sent, due, reported, edits, faults>>

\* What a failed job goes through: another attempt, or none left.
Retried(job) == IF job.attempt < RetryLimit
                THEN [job EXCEPT !.state = "created", !.attempt = @ + 1]
                ELSE [job EXCEPT !.state = "failed"]

Held(i) == {k \in batch[i].jobs : queue[k].state = "active" /\ queue[k].attempt = batch[i].attempt[k]}

\* Mutant: the error escapes the handler and its batch is retried.
RecordFailsBatch(i) ==
    /\ batch[i] # None /\ ~batch[i].recorded /\ AllSettled(i)
    /\ queue' = [k \in Keys |-> IF k \in Held(i) THEN Retried(queue[k]) ELSE queue[k]]
    /\ batch' = [batch EXCEPT ![i] = None]
    /\ Fault
    /\ UNCHANGED <<slot, passed, rows, pass, sent, ghostVars, edits>>

\* The statement fails: reported, and nothing else.
RecordFails(i) ==
    /\ batch[i] # None /\ ~batch[i].recorded /\ AllSettled(i)
    /\ batch' = [batch EXCEPT ![i].recorded = TRUE]
    /\ Fault
    /\ UNCHANGED <<slot, passed, rows, pass, queue, sent, ghostVars, edits>>

\* A claim that is lost: the job goes through a failure.
Lost(job) == [Retried(job) EXCEPT !.losses = @ + 1]
Failed(i) == [k \in Keys |-> IF k \in Held(i) THEN Lost(queue[k]) ELSE queue[k]]

\* The handler returned and its batch completes, where its claim still holds.
Complete(i) ==
    /\ batch[i] # None /\ batch[i].recorded
    /\ queue' = [k \in Keys |-> IF k \in Held(i) THEN [queue[k] EXCEPT !.state = "completed"]
                                                 ELSE queue[k]]
    /\ batch' = [batch EXCEPT ![i] = None]
    /\ UNCHANGED <<slot, passed, rows, pass, sent, ghostVars, edits, faults>>

\* complete() raises: the worker fails the batch instead, or cannot do that either.
CompleteFails(i) ==
    /\ batch[i] # None /\ batch[i].recorded
    /\ queue' = Failed(i) \/ UNCHANGED queue
    /\ batch' = [batch EXCEPT ![i] = None]
    /\ crossed' = TRUE
    /\ Fault
    /\ UNCHANGED <<slot, passed, rows, pass, sent, due, reported, newest, edits>>

\* The batch of a handler that still runs is failed, by failWip when the grace period
\* of stop() is over or by the handler's own time limit; the handler goes on.
FailRunning(i) ==
    /\ batch[i] # None /\ Held(i) # {}
    /\ queue' = Failed(i)
    /\ crossed' = TRUE
    /\ Fault
    /\ UNCHANGED <<slot, passed, rows, pass, batch, sent, due, reported, newest, edits>>

\* The instance dies with its batch and its pass.
Crash(i) ==
    /\ batch[i] # None
    /\ batch' = [batch EXCEPT ![i] = None]
    /\ pass' = [pass EXCEPT ![i] = None]
    /\ Fault
    /\ UNCHANGED <<slot, passed, rows, queue, sent, ghostVars, edits>>

\* The supervisor expires the send-it jobs of a batch, dead or slow.  They are
\* fetched together, and expire together.
Expire ==
    /\ \E k \in Keys : queue[k].state = "active"
    /\ queue' = [k \in Keys |-> IF queue[k].state = "active" THEN Lost(queue[k]) ELSE queue[k]]
    /\ crossed' = TRUE
    /\ Fault
    /\ UNCHANGED <<slot, passed, rows, pass, batch, sent, due, reported, newest, edits>>

Next ==
    \/ \E n \in Names, e \in Expressions : Schedule(n, e) \/ ScheduleOlder(n, e)
    \/ \E n \in Names : Unschedule(n) \/ InsertOlder(n)
    \/ \E i \in Instances : \/ Read(i) \/ Insert(i) \/ Abandon(i) \/ Relabel(i)
                            \/ Fetch(i) \/ Record(i) \/ RecordFails(i)
                            \/ Complete(i) \/ CompleteFails(i) \/ FailRunning(i) \/ Crash(i)
    \/ \E i \in Instances, k \in Keys : Forward(i, k)
    \/ NextSlot \/ Expire

Spec == Init /\ [][Next]_vars

-----------------------------------------------------------------------------
(* Properties. *)

\* setScheduleKinds ("keeps the kind it was stored with instead of being stamped
\* with the previous expression's"): a row last written by this release is
\* labelled with the format of the expression on it, whatever a pass that read
\* the row before the edit still writes.
LabelFollowsExpression ==
    \A n \in Names : rows[n] # None /\ rows[n].by = "this"
                        => rows[n].kind = rows[n].expr.written

\* cron, dueOccurrences, onSendIt: every occurrence a completed pass met on a row
\* that can be read, however it is labelled and whatever rows stand beside it,
\* has a send-it job, and one that is done forwarded it or reported why not.
OccurrencesAccounted ==
    \A k \in due : /\ queue[k] # NoJob
                   /\ queue[k].state = "completed" => sent[k] > 0 \/ k \in reported

\* onSendIt, setLastJobIds ("must not fail the send-it job and replay the
\* occurrence"): an occurrence is forwarded once for each claim of its send-it job
\* that was lost, to an expiry, a stop, a time limit or a failed completion, and once
\* more; no failed forward or failed bookkeeping of its batch repeats it.
RepeatedOnlyByLoss == \A k \in Keys : sent[k] <= 1 + queue[k].losses

\* onSendIt: while batches do not overlap, lose their claims or meet an older
\* instance's payload late, last_job_id names the newest job recorded for the
\* schedule, though a batch holds several in no order.  A batch that is taken again
\* may forward an old occurrence after a newer one and record that.
LastJobNewest ==
    ~crossed => \A n \in Names : rows[n] # None /\ rows[n].last # None
                                    => rows[n].last = newest[n]

\* A schedule's occurrences go through: its label is its expression's, each one found
\* is filed and forwarded or reported, and only a lost claim forwards one again.
ForwardingSound ==
    /\ LabelFollowsExpression
    /\ OccurrencesAccounted
    /\ RepeatedOnlyByLoss
    /\ LastJobNewest
================================================================================
