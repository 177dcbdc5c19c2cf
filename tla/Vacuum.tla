--------------------------------- MODULE Vacuum ---------------------------------
(***************************************************************************)
(* What a supervise pass tells of dead rows: #checkVacuum of boss.ts, the  *)
(* two warnings it raises, and the reading of the transaction horizon that *)
(* names who keeps rows from being reclaimed.                              *)
(*                                                                         *)
(* A pass is two statements, the garbage of the job tables and, if some    *)
(* vacuum seems to have reclaimed nothing, the horizon; tables, vacuums    *)
(* and transactions go on between them.  The evidence is the instance's    *)
(* own, so one instance is modelled.  Times are not counted: a holder      *)
(* remembers the tables vacuumed since it began, and the evidence of a     *)
(* table whether it has been vacuumed since it was looked at.              *)
(***************************************************************************)
EXTENDS Integers, Sequences, FiniteSets, FiniteSetsExt, SequencesExt

CONSTANTS
    Tables,         \* job tables
    Shared,         \* the one that is never dropped
    Unreadable,     \* sets of sources the role may be unable to read
    Budget,         \* threshold + scaleFactor * liveTuples
    MaxDead,        \* bound: table |-> its dead rows
    MaxHolders,     \* bound: transactions, slots and prepared transactions at a time
    MaxStops        \* bound: stops of the instance

VARIABLES
    table,          \* table |-> present, dead rows, those the horizon keeps, autovacuum off
    holders,        \* oldest first
    unreadable,     \* sources this role cannot read
    up,             \* the instance is not stopping
    stops,
    evidence,       \* #garbageEvidence
    sources,        \* #xminHorizonSources
    warnedXmin,     \* #warnedXminHorizon
    warnedOff,      \* #warnedAutovacuumDisabled
    told,           \* ghost: reported since a pass found no vacuumed table over budget
    reading         \* a pass waiting for the horizon: the tables, and the holders $1 admits

dbVars == <<table, holders, unreadable>>
bossVars == <<evidence, sources, warnedXmin, warnedOff, told, reading>>
vars == <<dbVars, up, stops, bossVars>>

\* The sources of the horizon, the four that are not backends taken together.
Sources == {"backends", "others"}
NoEvidence == [seen |-> FALSE, dead |-> 0, vacuumed |-> FALSE]
NotReading == [stuck |-> {}, admits |-> {}]
NewTable == [present |-> TRUE, dead |-> 0, kept |-> 0, off |-> FALSE]

Init ==
    /\ \E off \in {{}} \cup {{t} : t \in Tables} :
        table = [t \in Tables |-> [NewTable EXCEPT !.present = (t = Shared \/ t \in off), !.off = (t \in off)]]
    /\ holders = <<>> /\ unreadable \in Unreadable
    /\ up = TRUE /\ stops = 0
    /\ evidence = [t \in Tables |-> NoEvidence]
    /\ sources = Sources
    /\ warnedXmin = FALSE /\ warnedOff = FALSE
    /\ reading = NotReading /\ told = FALSE

Present == {t \in Tables : table[t].present}

-----------------------------------------------------------------------------
(* The database. *)

\* A job is updated or deleted: a dead row, which the oldest holder keeps.
RowDies(t) ==
    /\ t \in Present /\ table[t].dead < MaxDead[t]
    /\ table' = [table EXCEPT ![t].dead = @ + 1, ![t].kept = IF holders = <<>> THEN 0 ELSE @ + 1]
    /\ UNCHANGED <<holders, unreadable, up, stops, bossVars>>

\* VACUUM takes every dead row but the kept ones.
Vacuums(t) ==
    /\ t \in Present
    /\ table' = [table EXCEPT ![t].dead = table[t].kept]
    /\ holders' = [k \in DOMAIN holders |-> [holders[k] EXCEPT !.old = @ \cup {t}]]
    /\ evidence' = [evidence EXCEPT ![t].vacuumed = evidence[t].seen]
    /\ UNCHANGED <<unreadable, up, stops, sources, warnedXmin, warnedOff, told, reading>>

\* Autovacuum looks at a table past its budget, unless it is switched off.
Due(t) == ~table[t].off /\ table[t].dead > Budget
Autovacuum(t) == Due(t) /\ Vacuums(t)
Vacuum(t) == ~Due(t) /\ Vacuums(t)

\* The operator switches autovacuum back on.
SetAutovacuum(t) ==
    /\ t \in Present /\ table[t].off
    /\ table' = [table EXCEPT ![t].off = FALSE]
    /\ UNCHANGED <<holders, unreadable, up, stops, bossVars>>

Names == 1..MaxHolders
NamesOf(s) == {s[k].name : k \in DOMAIN s}

\* Something begins to hold the horizon; of another role's backend the role asking
\* cannot read when it began.
Begins(source, opaque) ==
    /\ Len(holders) < MaxHolders
    /\ holders' = Append(holders, [name |-> CHOOSE n \in Names \ NamesOf(holders) : TRUE,
                                   source |-> source, opaque |-> opaque, old |-> {}])
    /\ UNCHANGED <<table, unreadable, up, stops, bossVars>>

\* It ends; when it was the oldest, fewer rows are kept.
Ends(k) ==
    /\ k \in DOMAIN holders
    /\ holders' = RemoveAt(holders, k)
    /\ \E kept \in [Tables -> 0..Max(Range(MaxDead))] :
        /\ \A t \in Tables : IF k > 1 THEN kept[t] = table[t].kept
                             ELSE kept[t] <= (IF Len(holders) = 1 THEN 0 ELSE table[t].kept)
        /\ table' = [t \in Tables |-> [table[t] EXCEPT !.kept = kept[t]]]
    /\ reading' = [reading EXCEPT !.admits = @ \ {holders[k].name}]
    /\ UNCHANGED <<unreadable, up, stops, evidence, sources, warnedXmin, warnedOff, told>>

\* A partitioned queue comes or goes with its table.
CreateOrDrop(t) ==
    /\ t # Shared
    /\ table' = [table EXCEPT ![t] = [NewTable EXCEPT !.present = ~table[t].present]]
    /\ evidence' = [evidence EXCEPT ![t].vacuumed = FALSE]
    /\ UNCHANGED <<holders, unreadable, up, stops, sources, warnedXmin, warnedOff, told, reading>>

-----------------------------------------------------------------------------
(* The pass. *)

Over == {t \in Present : table[t].dead > Budget}

\* A vacuum has run since the last look and there is no less garbage.
Stuck == {t \in Over : ~table[t].off /\ evidence[t].seen /\ evidence[t].vacuumed /\ table[t].dead >= evidence[t].dead}

\* Nothing has run since the last look and there is more.
Unvacuumed == {t \in Over : table[t].off /\ evidence[t].seen /\ ~evidence[t].vacuumed /\ table[t].dead > evidence[t].dead}

StillXmin == warnedXmin /\ \E t \in Over : ~table[t].off
StillOff == warnedOff /\ \E t \in Over : table[t].off

\* The holders that began before the newest of the failed vacuums: $1 of the query.
Predating(S) == {holders[k].name : k \in {k \in DOMAIN holders : holders[k].old \cap S # {}}}

CheckVacuum ==
    /\ up /\ reading = NotReading
    /\ evidence' = [t \in Tables |-> IF t \in Over THEN [seen |-> TRUE, dead |-> table[t].dead, vacuumed |-> FALSE]
                                     ELSE NoEvidence]
    /\ warnedXmin' = StillXmin
    /\ warnedOff' = (StillOff \/ Unvacuumed # {})
    /\ told' = (told /\ \E t \in Over : ~table[t].off)
    /\ reading' = IF Stuck # {} /\ ~StillXmin /\ sources # {} THEN [stuck |-> Stuck, admits |-> Predating(Stuck)]
                  ELSE NotReading
    /\ UNCHANGED <<dbVars, up, stops, sources>>

\* Mutant: any backend will do.
QualifiesAny(h) == TRUE

\* Backends count when they predate the vacuum or cannot be timed, the others always.
Qualifies(h) == h.source = "others" \/ h.opaque \/ h.name \in reading.admits

\* #attributeXminHorizon: the widest of what the readable sources show, the oldest.
Attributed == {k \in DOMAIN holders : holders[k].source \in sources /\ Qualifies(holders[k])}
Blamed == holders[Min(Attributed)]

\* Mutant: a failed read forgets the sources.
NarrowedNone == {}

\* #narrowXminHorizonSources: those that can be read alone.
Narrowed == sources \ unreadable

ReadHorizon ==
    /\ reading # NotReading
    /\ reading' = NotReading
    /\ \/ /\ sources \cap unreadable = {}
          /\ warnedXmin' = (up /\ Attributed # {})
          /\ told' = warnedXmin'
          /\ UNCHANGED sources
       \/ /\ sources \cap unreadable # {}
          /\ sources' = Narrowed
          /\ UNCHANGED <<warnedXmin, told>>
    /\ UNCHANGED <<dbVars, up, stops, evidence, warnedOff>>

\* stop() and start() of the same instance keep what it has seen.
Stop ==
    /\ up /\ stops < MaxStops
    /\ up' = FALSE /\ stops' = stops + 1
    /\ UNCHANGED <<dbVars, bossVars>>

Start ==
    /\ ~up
    /\ up' = TRUE
    /\ UNCHANGED <<dbVars, stops, bossVars>>

Next ==
    \/ \E t \in Tables : RowDies(t) \/ Vacuum(t) \/ Autovacuum(t) \/ SetAutovacuum(t) \/ CreateOrDrop(t)
    \/ \E source \in Sources, opaque \in BOOLEAN : (opaque => source = "backends") /\ Begins(source, opaque)
    \/ \E k \in Names : Ends(k)
    \/ CheckVacuum \/ ReadHorizon \/ Stop \/ Start

Spec == Init /\ [][Next]_vars

\* Supervise passes come round on their interval and their statements return;
\* autovacuum reaches every table that is due.
Fairness ==
    /\ WF_vars(CheckVacuum) /\ WF_vars(ReadHorizon) /\ WF_vars(Start)
    /\ \A t \in Tables : WF_vars(Autovacuum(t))

FairSpec == Spec /\ Fairness

-----------------------------------------------------------------------------
(* Properties *)

TypeOK ==
    /\ \A t \in Tables : table[t].kept <= table[t].dead /\ table[t].dead \in 0..MaxDead[t]
    /\ NamesOf(holders) \subseteq Names
    /\ sources \subseteq Sources

\* A transaction that is blamed for dead rows was open when a vacuum failed to
\* reclaim them, although the two are read in different statements, unless the role
\* cannot read when it began or it is no backend.
BlamePredates ==
    [][~warnedXmin /\ warnedXmin' =>
         Blamed.source = "others" \/ Blamed.opaque \/ Blamed.old \cap reading.stuck # {}]_vars

\* Table t has more rows than its budget that a holder keeps, and autovacuum is on.
Pinned(t) == t \in Present /\ ~table[t].off /\ table[t].kept > Budget

Visible(n) == \E k \in DOMAIN holders : holders[k].name = n /\ holders[k].source \notin unreadable

\* A horizon that stays pinned over a table's budget, by a holder that stays and that
\* can be seen, is reported in the end, whatever is reported of other tables
\* and whichever of the other sources the role cannot read.
PinnedReported ==
    \A t \in Tables, n \in Names : <>[](Pinned(t) /\ Visible(n)) => []<>told

\* What is said of the holders of the horizon is right, and it is said.
HoldersReported == BlamePredates /\ PinnedReported
================================================================================
