--------------------------------- MODULE MCCron ---------------------------------
(* For TLC: the passes over one small schedule (Cron; one unit of time is twelve   *)
(* seconds), the reading of small expressions (Recurrence; a unit of time is an    *)
(* hour) and the series that supervise passes record (History; two units are a     *)
(* day).  `part' says which of the three a behaviour is about; the others stand    *)
(* still.                                                                          *)
EXTENDS Cron, Sequences, TLC

CONSTANTS
    Tasks, MaxInstant, Floor, Growth, Generated, LookBack, ZoneChanges, Lines, MaxLines, None,
    Config, DayLength, RetentionDays, Lag, BatchSize, CacheTTL, ForceTTL, PassTime, Limits,
    Widths, Load, LastMoment, MaxSnapshots, MaxCount

VARIABLES
    part, task, expr, range, walk, read, result,
    config, moment, series, days, pass, count, cache, backoff, reader, answer, taken, swept, truth

R == INSTANCE Recurrence WITH MaxTime <- MaxInstant
H == INSTANCE History WITH parts <- days, now <- moment, MaxTime <- LastMoment, Null <- None

ASSUME H!HistoryAssumption

Policies == {"skip", "once"}

\* A cron expression names the same seconds of every minute it matches.
CronExpression(m, minutes, seconds) ==
    [kind |-> "cron", missed |-> m, occurrences |-> {n * Window + s : n \in minutes, s \in seconds}]

\* A rule names any instants.
Rule(m, instants) == [kind |-> "rrule", missed |-> m, occurrences |-> instants]

\* While somebody runs, the policy for gaps is never asked.
Running ==
    {CronExpression("skip", {0, 1}, {1, 3}), CronExpression("skip", {0, 1}, {Window - 1})}
        \cup {Rule("skip", {t, t + 1}) : t \in {1, Window - 1}}

Outages ==
    {CronExpression(m, {0, 1, 2}, seconds) : m \in Policies, seconds \in {{0}, {1, 3}}}
        \cup {Rule(m, {s, s + 4}) : m \in Policies, s \in {1, 4}}

Mixed == Running \cup Outages

InstancesSymmetric == Permutations(Instances)

\* The parts and the lines of an expression: what is written, and what the parser keeps.
Part(name, given, kept) == [name |-> name, given |-> given, kept |-> kept]
SomeParts == {Part("FREQ", 1, 1), Part("COUNT", 1, 1), Part("BYHOUR", 2, 1),
              Part("BYHOUR", 1, 0), Part("BYHOURS", 1, 1), Part("X-", 1, 0), Part("FREQ", 0, 0)}
Line(prop, type, parts, dates) ==
    [prop |-> prop, type |-> type, parts |-> parts, dates |-> dates]
SomeLines ==
    {Line("RRULE", "none", p, {}) : p \in {<<q>> : q \in SomeParts} \cup {<<Part("FREQ", 1, 1), q>> : q \in SomeParts}}
    \cup {Line("DTSTART", t, <<>>, {}) : t \in {"date", "datetime"}}
    \cup {Line("EXDATE", "none", <<>>, d) : d \in {{"date"}, {"datetime"}, {"date", "datetime"}}}
    \cup {Line("RDATE", "none", <<>>, {"datetime"}), Line("DTSRAT", "date", <<>>, {}),
          Line("BEGIN", "none", <<>>, {})}
SomeZones == {[at |-> a, back |-> b] : a \in {7, 20}, b \in 1..2}

\* A load that goes up and down.
UpAndDown == [t \in 0..LastMoment |-> IF t \in {2, 3, 6} THEN 4 ELSE t]

readVars == <<task, expr, range, walk, read, result>>
historyVars == <<config, moment, series, days, pass, count, cache, backoff, reader, answer, taken,
                 swept, truth>>
allVars == <<part, vars, readVars, historyVars>>

NoSchedule == [kind |-> "cron", missed |-> "skip", occurrences |-> {}]

PassesRest ==
    /\ schedule = NoSchedule /\ created = Never /\ now = 0 /\ cronOn = Never
    /\ phase = [i \in Instances |-> "down"] /\ timer = [i \in Instances |-> 0]
    /\ prior = [i \in Instances |-> Never] /\ owed = [i \in Instances |-> {}]
    /\ filed = {} /\ excused = {} /\ dark = {} /\ reads = {} /\ faults = 0

ReadRests == task = "none" /\ expr = None /\ range = None /\ walk = None /\ read = None /\ result = None

HistoryRests == config = "rows" /\ H!Init

AllInit ==
    \/ part = "passes" /\ Init /\ ReadRests /\ HistoryRests
    \/ part = "reading" /\ R!Init /\ PassesRest /\ HistoryRests
    \/ part = "history" /\ H!Init /\ PassesRest /\ ReadRests

PassStep == part = "passes" /\ Next /\ UNCHANGED <<part, readVars, historyVars>>

ReadStep == part = "reading" /\ R!Next /\ UNCHANGED <<part, vars, historyVars>>

HistoryStep == part = "history" /\ H!Next /\ UNCHANGED <<part, vars, readVars>>

AllNext == PassStep \/ ReadStep \/ HistoryStep

AllSpec == AllInit /\ [][AllNext]_allVars

\* Recurrence's ReadingsAgree: a gap's last occurrence is found, and only what means
\* what it says is accepted.
ReadingsAgree == part = "reading" => R!ReadingsAgree

\* History's HistorySound: the series has no holes and its buckets add up, and a
\* count was true when its reader asked.
HistorySound == H!HistorySound
================================================================================
