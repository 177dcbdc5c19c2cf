------------------------------- MODULE Recurrence -------------------------------
(***************************************************************************)
(* Reading a schedule's expression: which ones schedule() accepts, and     *)
(* which occurrence a pass finds when it looks back over a gap.            *)
(*                                                                         *)
(* The pass reads backwards, so that what it costs follows the one job it  *)
(* sends: a rule in steps that widen while they are empty and narrow when  *)
(* one overruns what the parser will generate in a call, a cron expression *)
(* one occurrence at a time, passing over the second instant of a local    *)
(* time the clocks went back over.  previewSchedule() walks the same       *)
(* expression forwards.  The two have to agree.                            *)
(*                                                                         *)
(* The parsers are external.  A behaviour is one reading: it chooses a     *)
(* task and carries it out, a step to each turn of the code's loops.       *)
(***************************************************************************)
EXTENDS Integers, FiniteSets, FiniteSetsExt, Sequences, SequencesExt

CONSTANTS
    Tasks,      \* the kinds of reading: "parse", "rrule", "cron"
    MaxTime,    \* bound: instants, 1..MaxTime
    Floor,      \* STEP_SECONDS
    Growth,     \* STEP_GROWTH
    Generated,  \* how many occurrences a between() generates before it throws
    LookBack,   \* the three hours of repeatsLocalTime()
    ZoneChanges,\* [at, back]: the clocks go back by `back' at `at'
    Lines,      \* the lines an expression is made of
    MaxLines,   \* bound
    None

VARIABLES
    task,
    expr,       \* the expression: its lines, or what the parsers make of it
    range,      \* [after, until]
    walk,       \* the forward walk: its cursor, its last occurrence in the range, whether it is over
    read,       \* the backward read, or the reading of the lines
    result      \* what the read answers: None while it goes on

vars == <<task, expr, range, walk, read, result>>

Instants == 1..MaxTime
NoneFound == 0
Threw == -1
Within(S, lower, upper) == {t \in S : lower < t /\ t <= upper}

-----------------------------------------------------------------------------
(* Local time. *)

\* The zone's offset before and after the night the clocks go back.
Offset(t) == IF t < expr.zone.at THEN expr.zone.back ELSE 0
Local(t) == t + Offset(t)

\* Whether the local time was already shown once: the offset LookBack earlier is
\* the one in force before any change the instant could be repeating.
RepeatsLocalTime(t) ==
    LET shift == Offset(t - LookBack) - Offset(t) IN
    shift > 0 /\ Offset(t - shift) - Offset(t) = shift

\* cron-parser walks backwards through both instants of a repeated local time,
\* and forwards through the first unless every hour is named.
CronPrevs == {t \in Instants : Local(t) \in expr.locals}
CronNexts ==
    {t \in CronPrevs : expr.everyHour \/ \A u \in Instants : u < t => Local(u) # Local(t)}

-----------------------------------------------------------------------------
(* The forward walk, occurrenceWalker() under previewSchedule(). *)

Nexts == IF task = "rrule" THEN expr.occurrences ELSE CronNexts

\* One call of the walk; null once a rule has run out.
WalkOn ==
    /\ task # "parse" /\ ~walk.over
    /\ LET later == {t \in Nexts : t > walk.cursor} IN
       IF later = {} \/ Min(later) > range.until
       THEN walk' = [walk EXCEPT !.over = TRUE]
       ELSE walk' = [walk EXCEPT !.cursor = Min(later), !.last = Min(later)]
    /\ UNCHANGED <<task, expr, range, read, result>>

-----------------------------------------------------------------------------
(* latestOccurrenceBefore() of a rule. *)

\* rule.between(lower, upper + 1), both ends excluded.
Between(lower, upper) == Within(expr.occurrences, lower, upper)
Overruns(lower, upper) == Cardinality(Between(lower, upper)) > Generated

Lower == LET l == read.upper - read.width IN IF l > range.after THEN l ELSE range.after

Larger(a, b) == IF a > b THEN a ELSE b
Smaller(a, b) == IF a < b THEN a ELSE b

\* The read begins at `until' with a step of the narrowest width.
StartRead(r) == [upper |-> r.until, width |-> Floor, ceiling |-> MaxTime + 1]

\* A step that overruns is halved and read again, and no later step is wider.
Narrowed ==
    LET half == Larger(Floor, (read.upper - Lower) \div 2) IN
    [read EXCEPT !.ceiling = half, !.width = half]

\* The next step ends short of where it began, whose occurrence no step reads.
WidenedPast ==
    [read EXCEPT !.upper = Lower - 1, !.width = Smaller(read.width * Growth, read.ceiling)]

\* An empty step: the next one ends where it began, and is wider.
Widened ==
    [read EXCEPT !.upper = Lower, !.width = Smaller(read.width * Growth, read.ceiling)]

RuleStep ==
    /\ task = "rrule" /\ walk.over /\ result = None
    /\ IF read.upper <= range.after THEN result' = NoneFound /\ UNCHANGED read
       ELSE \/ /\ Overruns(Lower, read.upper)
               /\ IF read.upper - Lower <= Floor
                  THEN result' = Threw /\ UNCHANGED read
                  ELSE read' = Narrowed /\ UNCHANGED result
            \/ /\ ~Overruns(Lower, read.upper)
               /\ IF Between(Lower, read.upper) # {}
                  THEN result' = Max(Between(Lower, read.upper)) /\ UNCHANGED read
                  ELSE read' = Widened /\ UNCHANGED result
    /\ UNCHANGED <<task, expr, range, walk>>

-----------------------------------------------------------------------------
(* latestOccurrenceBefore() of a cron expression. *)

\* One prev() of previousOccurrence(); its first reference is just past `until'.
CronStep ==
    /\ task = "cron" /\ walk.over /\ result = None
    /\ LET earlier == {t \in CronPrevs : t < read.upper}
           t == IF earlier = {} THEN 0 ELSE Max(earlier)
       IN  IF t # 0 /\ ~expr.everyHour /\ RepeatsLocalTime(t)
           THEN read' = [read EXCEPT !.upper = t] /\ UNCHANGED result
           ELSE /\ result' = IF t > range.after THEN t ELSE NoneFound
                /\ UNCHANGED read
    /\ UNCHANGED <<task, expr, range, walk>>

-----------------------------------------------------------------------------
(* toIcs(), assertParts(), assertDates() and assertValues(). *)

Properties == {"DTSTART", "RRULE", "RDATE", "EXDATE"}
PartOptions == {"FREQ", "COUNT", "BYHOUR"}

\* A part names its values; the parser keeps the ones in range.
Extension(part) == part.name = "X-"
AssertParts(parts) ==
    /\ \A i \in DOMAIN parts : /\ parts[i].given > 0
                               /\ parts[i].name \in PartOptions \/ Extension(parts[i])
    /\ IsInjective([i \in DOMAIN parts |-> parts[i].name])

\* Against the options the rule was built with.
AssertValues(parts) ==
    \A i \in DOMAIN parts :
        Extension(parts[i]) \/ (parts[i].kept > 0 /\ parts[i].kept = parts[i].given)

\* A value has DTSTART's type, a date time when there is none.
AssertDates(dates, dtstart) ==
    \A d \in dates : d = IF dtstart = None THEN "datetime" ELSE dtstart

NothingRead == [line |-> 1, dtstart |-> None, rule |-> None, dates |-> {}]

\* The date types are judged with the DTSTART read so far.
RefusedInline(line) ==
    \/ line.prop \notin Properties
    \/ line.prop = "DTSTART" /\ read.dtstart # None
    \/ line.prop = "RRULE" /\ (read.rule # None \/ ~AssertParts(line.parts))
    \/ line.prop \in {"RDATE", "EXDATE"} /\ ~AssertDates(line.dates, read.dtstart)

Refused(line) ==
    \/ line.prop \notin Properties
    \/ line.prop = "DTSTART" /\ read.dtstart # None
    \/ line.prop = "RRULE" /\ (read.rule # None \/ ~AssertParts(line.parts))

\* A line without a property is the rule itself.
ReadLine ==
    /\ task = "parse" /\ result = None /\ read.line <= Len(expr)
    /\ LET line == expr[read.line] IN
       IF Refused(line) THEN result' = "refused" /\ UNCHANGED read
       ELSE /\ read' = [line |-> read.line + 1,
                        dtstart |-> IF line.prop = "DTSTART" THEN line.type ELSE read.dtstart,
                        rule |-> IF line.prop = "RRULE" THEN line.parts ELSE read.rule,
                        dates |-> IF line.prop \in {"RDATE", "EXDATE"}
                                  THEN read.dates \cup line.dates ELSE read.dates]
            /\ UNCHANGED result
    /\ UNCHANGED <<task, expr, range, walk>>

Names(parts) == {parts[i].name : i \in DOMAIN parts}

Judge ==
    /\ task = "parse" /\ result = None /\ read.line > Len(expr)
    /\ result' = IF /\ read.rule # None
                    /\ "COUNT" \in Names(read.rule) => read.dtstart # None
                    /\ AssertDates(read.dates, read.dtstart)
                    /\ AssertValues(read.rule)
                 THEN "accepted" ELSE "refused"
    /\ UNCHANGED <<task, expr, range, walk, read>>

-----------------------------------------------------------------------------

Expressions(t) ==
    CASE t = "parse" -> UNION {[1..n -> Lines] : n \in 0..MaxLines}
      [] t = "rrule" -> [occurrences : SUBSET Instants]
      [] t = "cron" -> {e \in [zone : ZoneChanges, everyHour : BOOLEAN,
                               locals : SUBSET (LookBack..MaxTime)] :
                            e.everyHour => e.locals = LookBack..MaxTime}

Ranges(t) ==
    IF t = "parse" THEN {[after |-> 0, until |-> 0]}
    ELSE {r \in [after : 0..MaxTime, until : {MaxTime - 1}] : r.after < r.until}

Init ==
    /\ task \in Tasks
    /\ expr \in Expressions(task)
    /\ range \in Ranges(task)
    /\ walk = [cursor |-> range.after, last |-> None, over |-> FALSE]
    /\ read = CASE task = "parse" -> NothingRead
                [] task = "rrule" -> StartRead(range)
                [] task = "cron" -> [upper |-> range.until + 1]
    /\ result = None

Next == WalkOn \/ RuleStep \/ CronStep \/ ReadLine \/ Judge

Spec == Init /\ [][Next]_vars

-----------------------------------------------------------------------------
(* Properties. *)

\* A pass that looks back over a gap finds the last occurrence in it that the
\* forward walk lists: no step of the search skips one, whatever the rule's
\* density does to the steps' widths, and a local time shown twice is taken at
\* its first instant.  The read gives up only on a rule too dense for the
\* narrowest step (latestOccurrenceBefore(), previousOccurrence()).
LatestFound ==
    task # "parse" /\ result # None =>
        CASE result = Threw -> \E t \in Instants : Overruns(t - Floor, t)
          [] result = NoneFound -> walk.last = None
          [] result \in Instants -> walk.last = result

Count(prop) == Cardinality({i \in DOMAIN expr : expr[i].prop = prop})
Written(prop) == {expr[i] : i \in {j \in DOMAIN expr : expr[j].prop = prop}}

\* What every line of an expression has to say for a schedule to run when its
\* author meant: nothing in it that the parser drops, replaces or reads as midnight.
NothingReadPast ==
    /\ \A i \in DOMAIN expr : expr[i].prop \in Properties
    /\ Count("RRULE") = 1 /\ Count("DTSTART") <= 1
    /\ \A r \in Written("RRULE") :
            /\ \A i \in DOMAIN r.parts :
                    \/ r.parts[i].name \in PartOptions /\ r.parts[i].kept = r.parts[i].given
                    \/ Extension(r.parts[i])
            /\ \A i \in DOMAIN r.parts : r.parts[i].given > 0
            /\ \A i, j \in DOMAIN r.parts : r.parts[i].name = r.parts[j].name => i = j
            /\ "COUNT" \in Names(r.parts) => Count("DTSTART") = 1
    /\ \A d \in Written("RDATE") \cup Written("EXDATE"), type \in {"date", "datetime"} :
            type \in d.dates => IF Count("DTSTART") = 0 THEN type = "datetime"
                                ELSE \E s \in Written("DTSTART") : s.type = type

\* The line-by-line reading accepts an expression exactly when nothing in it
\* would be read past, in whatever order its lines come (toIcs()).
AcceptsExactly ==
    task = "parse" /\ result # None => (result = "accepted" <=> NothingReadPast)

\* What a schedule means is read alike by everyone who reads its expression.
ReadingsAgree == LatestFound /\ AcceptsExactly

=============================================================================
