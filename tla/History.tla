-------------------------------- MODULE History --------------------------------
(***************************************************************************)
(* The recorded series of a queue's statistics, and the cached counts that *)
(* stand in for it.                                                        *)
(*                                                                         *)
(* With persistQueueStats on, every supervise pass makes room for its      *)
(* snapshot (daily partitions, for today and tomorrow), records it, and    *)
(* ends with retention: it drops partitions, or, without partitioning,     *)
(* deletes in batches behind a cursor.  Passes of several instances        *)
(* overlap and midnight falls anywhere in one.  getQueueStats() reads the  *)
(* series in buckets.  With it off, getQueueStats() answers from the       *)
(* counts cached on the queue row, and recounts when they are too old.     *)
(***************************************************************************)
EXTENDS Integers, FiniteSets, FiniteSetsExt

CONSTANTS
    Instances,
    Null,
    Config,         \* "partitions" or "rows" with persistQueueStats, "cache" without
    DayLength,
    RetentionDays,  \* queueStatRetentionDays
    Lag,            \* DELTA_LAG
    BatchSize,      \* of deleteOldQueueStats
    CacheTTL,       \* QUEUE_STATS_CACHE_TTL_SECONDS, or the monitor's interval
    ForceTTL,       \* QUEUE_STATS_FORCE_TTL_SECONDS
    PassTime,       \* the longest a pass takes
    Limits, Widths, \* what readers ask for
    Load,           \* the gauge a snapshot of each moment records
    MaxTime,        \* bound
    MaxSnapshots,   \* bound
    MaxCount        \* bound: jobs in the queue

\* What is assumed of the constants.
HistoryAssumption ==
    /\ {DayLength, RetentionDays, BatchSize} \subseteq Nat \ {0}
    /\ {Lag, CacheTTL, ForceTTL, PassTime, MaxTime, MaxSnapshots, MaxCount} \subseteq Nat
    /\ PassTime <= DayLength
    /\ Load \in [0..MaxTime -> Nat]
    /\ Limits \cup Widths \subseteq Nat \ {0}
    /\ Config \subseteq {"partitions", "rows", "cache"}

VARIABLES
    config,     \* the configuration of the run
    now,        \* job_now()
    series,     \* queue_stats: [id, at, gauge, deltaOn]; id stands for its counters
    parts,      \* the days that have a partition
    pass,       \* the pass of each instance
    count,      \* jobs in the queue
    cache,      \* the counts on the queue row and monitor_on
    backoff,    \* monitor_backoff_on is ahead
    reader,     \* the recount each instance has under way
    answer,     \* what getQueueStats() last answered
    taken,      \* ghost: every snapshot a pass counted
    swept,      \* ghost: when the last completed retention began
    truth       \* ghost: the count at each moment

seriesVars == <<series, parts, pass, taken, swept>>
cacheVars == <<count, cache, backoff, reader, answer, truth>>
vars == <<config, now, seriesVars, cacheVars>>

Times == Lag..MaxTime
Day(t) == t \div DayLength

Idle == [step |-> "idle", began |-> 0, after |-> Null]
NeverMonitored == [count |-> 0, on |-> Null]

TypeOK ==
    /\ config \in Config
    /\ now \in Times
    /\ \A s \in taken : s.at \in Times /\ s.gauge \in Nat /\ s.id \in 1..MaxSnapshots
    /\ series \subseteq taken
    /\ parts \subseteq Nat
    /\ \A i \in Instances : pass[i].step \in {"idle", "ensured", "tail", "walk"}
    /\ count \in 0..MaxCount
    /\ cache.on \in Times \cup {Null}
    /\ backoff \in BOOLEAN

Init ==
    /\ config \in Config
    /\ now = Lag
    /\ series = {} /\ taken = {}
    /\ parts = {}
    /\ pass = [i \in Instances |-> Idle]
    /\ swept = Null
    /\ count = 0
    /\ cache = NeverMonitored
    /\ backoff = FALSE
    /\ reader = [i \in Instances |-> Null]
    /\ answer = Null
    /\ truth = [t \in Times |-> 0]

-----------------------------------------------------------------------------
(* The pass: partitions, the snapshot, retention. *)

\* Mutant: a partition for today only.
EnsuredToday == {Day(now)}

\* ensureQueueStatsPartitions: today and tomorrow.
Ensured == {Day(now), Day(now) + 1}

\* The head of #supervisePass.
Ensure(i) ==
    /\ config # "cache" /\ pass[i].step = "idle"
    /\ pass' = [pass EXCEPT ![i] = [Idle EXCEPT !.step = "ensured", !.began = now]]
    /\ parts' = IF config = "partitions" THEN parts \cup Ensured ELSE parts
    /\ UNCHANGED <<config, now, series, taken, swept, cacheVars>>

HasRoom(t) == config = "rows" \/ Day(t) \in parts

\* insertQueueStats: the gauges as of now, and the counters of an interval that
\* ended a lag earlier.  A snapshot of an older release has no counters, and one
\* whose day has no partition is refused.
Capture(i) ==
    /\ pass[i].step = "ensured" /\ Cardinality(taken) < MaxSnapshots
    /\ \E deltaOn \in {Null, now - Lag} :
        LET s == [id |-> Cardinality(taken) + 1, at |-> now, gauge |-> Load[now], deltaOn |-> deltaOn]
        IN  /\ taken' = taken \cup {s}
            /\ series' = IF HasRoom(now) THEN series \cup {s} ELSE series
    /\ pass' = [pass EXCEPT ![i] = [step |-> "tail", began |-> now, after |-> Null]]
    /\ UNCHANGED <<config, now, parts, swept, cacheVars>>

\* The queue's monitor claim was another instance's, and this pass counts nothing.
SkipCapture(i) ==
    /\ pass[i].step = "ensured"
    /\ pass' = [pass EXCEPT ![i] = [step |-> "tail", began |-> now, after |-> Null]]
    /\ UNCHANGED <<config, now, series, parts, taken, swept, cacheVars>>

\* Mutant: the day of the cutoff goes too.
DroppedOnCutoff(d) == d <= Day(now) - RetentionDays

\* dropOldQueueStatsPartitions: whole days before the cutoff's.
Dropped(d) == d < Day(now) - RetentionDays

DropPartitions(i) ==
    /\ config = "partitions" /\ pass[i].step = "tail"
    /\ parts' = {d \in parts : ~Dropped(d)}
    /\ series' = {s \in series : ~Dropped(Day(s.at))}
    /\ pass' = [pass EXCEPT ![i] = Idle]
    /\ swept' = now
    /\ UNCHANGED <<config, now, taken, cacheVars>>

\* (captured_on, id), in order.
Precedes(a, b) == a.at < b.at \/ (a.at = b.at /\ a.id < b.id)

\* The rows past retention after the cursor.
Old(after) == {s \in series : /\ s.at < now - RetentionDays * DayLength
                              /\ after # Null => Precedes(after, s)}

\* One batch of deleteOldQueueStats, oldest first; a full one hands on a cursor.
DeleteBatch(i) ==
    /\ config = "rows" /\ pass[i].step \in {"tail", "walk"}
    /\ LET old == Old(pass[i].after)
           batch == {s \in old : Cardinality({r \in old : Precedes(r, s)}) < BatchSize}
           full == Cardinality(batch) = BatchSize
       IN  /\ series' = series \ batch
           /\ pass' = [pass EXCEPT ![i] = IF full
                        THEN [@ EXCEPT !.step = "walk",
                                       !.after = CHOOSE s \in batch : \A r \in batch \ {s} : Precedes(r, s)]
                        ELSE Idle]
           /\ swept' = IF full THEN swept ELSE pass[i].began
    /\ UNCHANGED <<config, now, parts, taken, cacheVars>>

\* stop() or a failed statement ends the pass where it is.
PassEnds(i) ==
    /\ pass[i].step # "idle"
    /\ pass' = [pass EXCEPT ![i] = Idle]
    /\ UNCHANGED <<config, now, series, parts, taken, swept, cacheVars>>

-----------------------------------------------------------------------------
(* getQueueStats() without a series. *)

\* The monitor's pass writes the count and its moment together, unless the
\* backoff holds it back.
Monitor ==
    /\ config = "cache" /\ ~backoff
    /\ cache' = [count |-> count, on |-> now]
    /\ UNCHANGED <<config, now, seriesVars, count, backoff, reader, answer, truth>>

\* setMonitorBackoff: a pass over any queues engages it for all of them.
BackoffTurns ==
    /\ config = "cache"
    /\ backoff' = ~backoff
    /\ UNCHANGED <<config, now, seriesVars, count, cache, reader, answer, truth>>

JobsComeAndGo ==
    /\ config = "cache"
    /\ count' \in (0..MaxCount) \ {count}
    /\ truth' = [truth EXCEPT ![now] = count']
    /\ \A i \in Instances : reader[i] # Null => reader[i].on < now
    /\ cache.on # now
    /\ UNCHANGED <<config, now, seriesVars, cache, backoff, reader, answer>>

\* toSnapshot: a row with no capture is dated now.
Snapshot(row) == [row EXCEPT !.on = IF @ = Null THEN now ELSE @]

\* Mutant: the backoff outranks a queue that was never counted.
ServedUnderBackoffAlways(force) == backoff

\* The backoff outranks staleness, but only where there is a count to serve.
ServedUnderBackoff(force) == backoff /\ cache.on # Null

FreshEnough(force) ==
    cache.on # Null /\ now - cache.on <= IF force THEN ForceTTL ELSE CacheTTL

TryLockHeld == \E j \in Instances : reader[j] # Null /\ reader[j].locked

\* The cache is the answer, fresh or not, or another instance has the try-lock
\* and is counting.
ServeCache(i, force) ==
    /\ config = "cache" /\ reader[i] = Null
    /\ \/ ServedUnderBackoff(force) \/ FreshEnough(force)
       \/ cache.on # Null /\ TryLockHeld
    /\ answer' = Snapshot(cache)
    /\ UNCHANGED <<config, now, seriesVars, count, cache, backoff, reader, truth>>

\* refreshQueueStats begins: it reads the queue at this moment, under the
\* try-lock unless the queue was never counted.
Recount(i, force) ==
    /\ config = "cache" /\ reader[i] = Null
    /\ ~ServedUnderBackoff(force) /\ ~FreshEnough(force)
    /\ cache.on = Null \/ ~TryLockHeld
    /\ reader' = [reader EXCEPT ![i] = [count |-> count, on |-> now, locked |-> cache.on # Null]]
    /\ UNCHANGED <<config, now, seriesVars, count, cache, backoff, answer, truth>>

RecountEnds(i) ==
    /\ reader[i] # Null
    /\ cache' = [count |-> reader[i].count, on |-> reader[i].on]
    /\ answer' = Snapshot([count |-> reader[i].count, on |-> reader[i].on])
    /\ reader' = [reader EXCEPT ![i] = Null]
    /\ UNCHANGED <<config, now, seriesVars, count, backoff, truth>>

-----------------------------------------------------------------------------
Tick ==
    /\ now < MaxTime
    /\ \A i \in Instances : pass[i].step # "idle" => now - pass[i].began < PassTime
    /\ now' = now + 1
    /\ truth' = [truth EXCEPT ![now + 1] = count]
    /\ UNCHANGED <<config, seriesVars, count, cache, backoff, reader, answer>>

Next ==
    \/ \E i \in Instances : \/ Ensure(i) \/ Capture(i) \/ SkipCapture(i)
                            \/ DropPartitions(i) \/ DeleteBatch(i) \/ PassEnds(i) \/ RecountEnds(i)
    \/ \E i \in Instances, force \in BOOLEAN : ServeCache(i, force) \/ Recount(i, force)
    \/ Monitor \/ BackoffTurns \/ JobsComeAndGo \/ Tick

Spec == Init /\ [][Next]_vars

-----------------------------------------------------------------------------
(* The series in buckets: getQueueStatsHistoryBucketed. *)

CeilDiv(a, b) == -((-a) \div b)

\* In `auto' mode the width is derived from the range, held to the data's own.
Width(o) ==
    IF o.mode = "bucket" THEN o.width
    ELSE LET lo == Min({s.at : s \in series})
             hi == Max({s.at : s \in series})
         IN  Max({1, CeilDiv(Min({hi, o.to}) - Max({lo, o.from}), o.width)})

Bucket(w, t) == (t \div w) * w
InRange(o, t) == o.from <= t /\ t <= o.to

Gauges(o) == {s \in series : InRange(o, s.at)}
Counters(o) == {s \in series : s.deltaOn # Null /\ InRange(o, s.deltaOn)}

\* Mutant: a counter bucket with no capture is not folded into another.
PlacedAlone(gauged, b) == b

\* placed: counters go to the newest gauge bucket at or before theirs, or to the
\* first one.
Placed(gauged, b) ==
    LET before == {g \in gauged : g <= b}
    IN  IF before # {} THEN Max(before) ELSE Min(gauged)

\* STATS_AGG, over the captures of a bucket; the average is rounded.
Aggregate(agg, S) ==
    CASE agg = "max" -> Max({s.gauge : s \in S})
      [] agg = "min" -> Min({s.gauge : s \in S})
      [] agg = "avg" -> (2 * MapThenSumSet(LAMBDA s : s.gauge, S) + Cardinality(S))
                            \div (2 * Cardinality(S))

\* folded: one row a bucket, with the passes whose counters and histograms are
\* added up in it.
Folded(o, w) ==
    LET gauges == Gauges(o)
        counters == Counters(o)
        gauged == {Bucket(w, s.at) : s \in gauges}
    IN  {[bucket |-> b,
          gauge  |-> Aggregate(o.agg, {s \in gauges : Bucket(w, s.at) = b}),
          passes |-> {s \in counters : Placed(gauged, Bucket(w, s.deltaOn)) = b}] : b \in gauged}

\* The newest rows, in `auto' mode no more than were asked for.
Newest(o, rows) ==
    LET limit == IF o.mode = "auto" THEN Min({o.limit, o.width}) ELSE o.limit
    IN  {r \in rows : Cardinality({q \in rows : q.bucket > r.bucket}) < limit}

Options == [mode : {"bucket", "auto"}, width : Widths, limit : Limits,
            agg : {"max", "min", "avg"}, from : {0, now - 2}, to : {now - 1, MaxTime}]

-----------------------------------------------------------------------------
(* Properties. *)

\* getQueueStatsHistoryBucketed ("Every bucket returned has a capture behind its
\* gauges"): whatever the range, the width and the passes that drifted, each
\* counted interval of the range is in one bucket and no other, no bucket
\* reports a gauge its captures never had, and the newest capture is in the
\* answer, which `auto' mode keeps within the points asked for.
BucketsConserve ==
    series # {} /\ (\A i \in Instances : pass[i] = Idle) => \A o \in Options :
        LET w == Width(o)
            all == Folded(o, w)
            answered == Newest(o, all)
            captures == Gauges(o)
        IN  /\ \A b \in answered : \E s, t \in captures :
                    /\ Bucket(w, s.at) = b.bucket /\ Bucket(w, t.at) = b.bucket
                    /\ s.gauge <= b.gauge /\ b.gauge <= t.gauge
            /\ captures # {} =>
                  /\ \A s \in Counters(o) : Cardinality({b \in all : s \in b.passes}) = 1
                  /\ \E b \in answered : \A s \in captures : Bucket(w, s.at) <= b.bucket
            /\ o.mode = "auto" => Cardinality(answered) <= o.width

\* ensureQueueStatsPartitions, dropOldQueueStatsPartitions, deleteOldQueueStats:
\* every snapshot a pass counted is in the series for the days it is to be kept,
\* though midnight falls inside the pass and another pass deletes meanwhile, and
\* a retention that ran to its end left nothing that was older when it began.
SeriesComplete ==
    /\ \A s \in taken : now - s.at <= RetentionDays * DayLength => s \in series
    /\ swept # Null => \A s \in series :
            IF config = "partitions" THEN Day(s.at) >= Day(swept) - RetentionDays
                                     ELSE s.at >= swept - RetentionDays * DayLength

\* getQueueStats ("a fabricated answer of zero"): the count it answers with is
\* the one the queue had at the moment the answer is dated, under the backoff,
\* behind another instance's recount and before the first capture.
AnswersTrue == answer # Null => answer.count = truth[answer.on]

\* What readers of the statistics get: a series without holes whose buckets add up,
\* or a count that was true when its reader asked.
HistorySound == BucketsConserve /\ SeriesComplete /\ AnswersTrue
================================================================================
