------------------------------- MODULE Registry -------------------------------
(***************************************************************************)
(* The instance registry of registrar.ts on one name and host: a process   *)
(* that starts, beats, stops or crashes and starts again, one life after   *)
(* the other, beside a sibling that lives on; how each life counts the     *)
(* crashes before it from the rows alone; and the pruning of dead rows by  *)
(* a registration and by maintenance.                                      *)
(*                                                                         *)
(* Life 0 is the sibling.  `outcome', `trimmed', `behind' and `paused' are *)
(* ghosts that only the properties read, `paused' the guard of Tick too.   *)
(***************************************************************************)
EXTENDS Integers, FiniteSets, FiniteSetsExt

CONSTANTS
    MaxLives,   \* bound: how often the process starts
    MaxTime,    \* bound: the clock
    MaxFaults,  \* bound: statements that fail, and pauses
    Quiet,      \* heartbeat_seconds * INSTANCE_QUIET_BEATS
    KeptPerName, Kept,  \* INSTANCE_DEAD_KEPT_PER_NAME, INSTANCE_DEAD_KEPT
    SamePids,   \* whether every life has the same pid (a container's pid 1)
    NoRow

\* A row of the instance table.
InstanceRow == [started : Nat, beat : Nat, stopped : BOOLEAN, restarts : Nat]

\* What is assumed of the constants.
\* A process takes a tick to start, so at most one life goes quiet per tick, and a
\* registration takes less than two: with two rows kept, the pruning takes none that
\* went quiet after the count before it.
RegistryAssumption ==
    /\ MaxLives \in Nat \ {0} /\ MaxTime \in Nat /\ MaxFaults \in Nat
    /\ Quiet \in Nat \ {0} /\ KeptPerName \in Nat \ {0, 1} /\ Kept \in Nat
    /\ SamePids \subseteq BOOLEAN
    /\ NoRow \notin InstanceRow

VARIABLES
    samePid, now,
    row,        \* the instance table
    pc,         \* the life's progress: new, count, recountAt, prune, up, stopping, ended
    started,    \* #startedOn
    recount,    \* when the recount timer fires; Unset, or Asking: its second statement is to come
    since,      \* ticks since the life registered, while it has not pruned
    life,       \* the life that runs or ran last
    faults,
    outcome,    \* ghost: how a life ended: "crash", "stop", "none"
    spoiled,    \* ghost: the lives whose registration lost its count, or that missed beats
    paused,     \* the lives that do not beat for now
    behind,     \* ghost: the lives that missed a row that went quiet at their count
    trimmed     \* ghost: maintenance has removed rows of this name

vars == <<samePid, now, row, pc, started, recount, since, life, faults, outcome, spoiled, paused, behind, trimmed>>

Lives == 0 .. MaxLives
Unset == -1
Asking == -2
Fresh(t) == [started |-> t, beat |-> t, stopped |-> FALSE, restarts |-> 0]

Init ==
    /\ samePid \in SamePids /\ now = 1
    /\ row = [l \in Lives |-> IF l = 0 THEN Fresh(0) ELSE NoRow]
    /\ pc = [l \in Lives |-> IF l = 0 THEN "up" ELSE "new"]
    /\ started = [l \in Lives |-> 0] /\ recount = [l \in Lives |-> Unset]
    /\ since = 0 /\ life = 0 /\ faults = 0
    /\ outcome = [l \in Lives |-> "none"] /\ spoiled = {} /\ paused = {} /\ behind = {} /\ trimmed = FALSE

Rows == {l \in Lives : row[l] # NoRow}
GoneQuiet(l) == row[l].beat < now - Quiet

-----------------------------------------------------------------------------
(* What a statement reads off the table *)

\* instanceDead: stopped, or quiet.
InstanceDead(l) == row[l].stopped \/ GoneQuiet(l)

\* crashSlot: the rows that started before this life and have not beaten since.
Slot(me) ==
    {l \in Rows \ {me} :
        row[me] # NoRow /\ row[l].started < row[me].started /\ row[l].beat <= row[me].started}

\* Those after the last one that stopped.
Streak(me) ==
    LET stops == {row[l].started : l \in {k \in Slot(me) : row[k].stopped}} IN
    {l \in Slot(me) : ~row[l].stopped /\ \A t \in stops : row[l].started > t}

\* crashDead: quiet, or an earlier process with this pid.
CrashDead(me, l) == GoneQuiet(l) \/ (samePid /\ l # 0 /\ row[l].beat < started[me])

Crashed(me) == {l \in Streak(me) : CrashDead(me, l)}
Nth(S, l) == Cardinality({k \in S : row[k].started <= row[l].started})

\* The counts: from the earliest dead life kept, whose own count stands for the others.
Restarts(me, l) ==
    LET C == Crashed(me)
        base == row[CHOOSE h \in C : Nth(C, h) = 1].restarts
    IN  IF C = {} THEN 0 ELSE IF l = me THEN base + Cardinality(C) ELSE base + Nth(C, l) - 1

-----------------------------------------------------------------------------
(* The life of an instance *)

NextLife == life + 1

\* start(): registerInstance, in a tick after the last beat of the process before it.
Register(fails) ==
    /\ NextLife <= MaxLives /\ (life = 0 \/ pc[life] = "ended")
    /\ row[life] # NoRow /\ life # 0 => row[life].beat < now
    /\ started[life] < now
    /\ fails => faults < MaxFaults
    /\ faults' = IF fails THEN faults + 1 ELSE faults
    /\ life' = NextLife
    /\ row' = IF fails THEN row ELSE [row EXCEPT ![NextLife] = Fresh(now)]
    /\ started' = [started EXCEPT ![NextLife] = now]
    /\ pc' = [pc EXCEPT ![NextLife] = IF fails THEN "up" ELSE "count"]
    /\ spoiled' = IF fails THEN spoiled \union {NextLife} ELSE spoiled
    /\ since' = 0
    /\ UNCHANGED <<samePid, now, recount, outcome, paused, behind, trimmed>>

\* countCrashRestarts: every dead life of the streak is numbered again, and this one.
Count(l) ==
    row' = [k \in Lives |->
        IF row[l] # NoRow /\ k \in Crashed(l) \cup {l} THEN [row[k] EXCEPT !.restarts = Restarts(l, k)]
        ELSE row[k]]

CountAtStart(l) ==
    /\ pc[l] = "count" /\ Count(l)
    /\ pc' = [pc EXCEPT ![l] = "recountAt"]
    /\ UNCHANGED <<samePid, now, started, recount, since, life, faults, outcome, spoiled, paused, behind, trimmed>>

\* Mutant: rows that read live still are left to the next life's count.
RecountNever(l) == recount' = [recount EXCEPT ![l] = Unset]

\* crashRecountAt: when the last row that could not be judged yet would go quiet.
RecountAt(l) ==
    LET open == {row[k].beat : k \in {s \in Streak(l) : ~CrashDead(l, s)}} IN
    recount' = [recount EXCEPT ![l] = IF open = {} THEN Unset ELSE Max(open) + Quiet + 1]

RecountAtStart(l) ==
    /\ pc[l] = "recountAt" /\ RecountAt(l)
    /\ pc' = [pc EXCEPT ![l] = "prune"]
    /\ UNCHANGED <<samePid, now, row, started, since, life, faults, outcome, spoiled, paused, behind, trimmed>>

\* pruneDeadInstances: the dead rows of S past the newest `keep'.
Prune(S, keep) ==
    LET dead == {l \in S : InstanceDead(l)} IN
    row' = [l \in Lives |-> IF l \in dead /\ Cardinality({k \in dead : row[k].started > row[l].started}) >= keep
                            THEN NoRow ELSE row[l]]

PruneLives(l) ==
    /\ pc[l] = "prune" /\ Prune(Rows \ {l}, KeptPerName)
    /\ pc' = [pc EXCEPT ![l] = "up"]
    /\ UNCHANGED <<samePid, now, started, recount, since, life, faults, outcome, spoiled, paused, behind, trimmed>>

\* A statement of the registration fails: the rest of it is skipped.
RegistrationFails(l) ==
    /\ pc[l] \in {"count", "recountAt", "prune"} /\ faults < MaxFaults
    /\ faults' = faults + 1
    /\ pc' = [pc EXCEPT ![l] = "up"]
    /\ spoiled' = IF pc[l] = "prune" THEN spoiled ELSE spoiled \union {l}
    /\ UNCHANGED <<samePid, now, row, started, recount, since, life, outcome, paused, behind, trimmed>>

\* The recount timer: both statements again, of which one may fail: an error event.
Recount(l) ==
    /\ pc[l] = "up" /\ recount[l] >= 0 /\ recount[l] <= now /\ Count(l)
    /\ recount' = [recount EXCEPT ![l] = Asking]
    /\ behind' = behind \ {l}
    /\ UNCHANGED <<samePid, now, pc, started, since, life, faults, outcome, spoiled, paused, trimmed>>

RecountAtAgain(l) ==
    /\ pc[l] = "up" /\ recount[l] = Asking /\ RecountAt(l)
    /\ UNCHANGED <<samePid, now, row, pc, started, since, life, faults, outcome, spoiled, paused, behind, trimmed>>

RecountFails(l) ==
    /\ pc[l] = "up" /\ recount[l] # Unset /\ recount[l] <= now /\ faults < MaxFaults
    /\ faults' = faults + 1
    /\ recount' = [recount EXCEPT ![l] = Unset]
    /\ behind' = behind \union {l}
    /\ UNCHANGED <<samePid, now, row, pc, started, since, life, outcome, spoiled, paused, trimmed>>

\* #beat: an upsert, which restores a row that was pruned with the start it had.
Beat(l) ==
    /\ pc[l] = "up"
    /\ row' = [row EXCEPT ![l] = IF @ = NoRow THEN [Fresh(started[l]) EXCEPT !.beat = now]
                                 ELSE [@ EXCEPT !.beat = now]]
    /\ paused' = paused \ {l}
    /\ UNCHANGED <<samePid, now, pc, started, recount, since, life, faults, outcome, spoiled, behind, trimmed>>

\* stop(): the timers are cleared, the beat in flight is over, then stopInstance, which
\* may not reach the database.
Stop(l, fails) ==
    /\ l # 0 /\ pc[l] = "up" /\ (fails => faults < MaxFaults)
    /\ faults' = IF fails THEN faults + 1 ELSE faults
    /\ row' = IF fails \/ row[l] = NoRow THEN row ELSE [row EXCEPT ![l].stopped = TRUE]
    /\ outcome' = [outcome EXCEPT ![l] = IF row'[l] # NoRow /\ row'[l].stopped THEN "stop" ELSE "crash"]
    /\ pc' = [pc EXCEPT ![l] = "ended"] /\ recount' = [recount EXCEPT ![l] = Unset]
    /\ paused' = paused \ {l}
    /\ UNCHANGED <<samePid, now, started, since, life, spoiled, behind, trimmed>>

Crash(l) ==
    /\ l # 0 /\ pc[l] \in {"count", "recountAt", "prune", "up"}
    /\ outcome' = [outcome EXCEPT ![l] = "crash"]
    /\ pc' = [pc EXCEPT ![l] = "ended"] /\ recount' = [recount EXCEPT ![l] = Unset]
    /\ paused' = paused \ {l}
    /\ UNCHANGED <<samePid, now, row, started, since, life, faults, spoiled, behind, trimmed>>

\* A process that sleeps, or whose beats fail.
Pause(l) ==
    /\ pc[l] = "up" /\ l \notin paused /\ faults < MaxFaults
    /\ faults' = faults + 1 /\ paused' = paused \union {l} /\ spoiled' = spoiled \union {l}
    /\ UNCHANGED <<samePid, now, row, pc, started, recount, since, life, outcome, behind, trimmed>>

\* #maintainInstances of any instance: trimDeadInstances over all names.
Maintain ==
    /\ Prune(Rows, Kept)
    /\ trimmed' = (trimmed \/ row' # row)
    /\ UNCHANGED <<samePid, now, pc, started, recount, since, life, faults, outcome, spoiled, paused, behind>>

\* A row that this life's count left for later is quiet at t, before the life asks when
\* to count again.
MissedAt(l, t) ==
    /\ pc[l] = "recountAt" \/ recount[l] = Asking
    /\ \E k \in Streak(l) : ~CrashDead(l, k) /\ row[k].beat < t - Quiet

\* A life that is up beats before it would count as quiet.
Tick ==
    /\ now < MaxTime /\ now' = now + 1
    /\ \A l \in Lives \ paused : pc[l] = "up" /\ row[l] # NoRow => row[l].beat >= now' - Quiet
    /\ \A l \in Lives : pc[l] = "up" /\ recount[l] >= 0 => now < recount[l]
    /\ \A l \in Lives : pc[l] \in {"count", "recountAt", "prune"} => since = 0
    /\ since' = 1
    /\ behind' = behind \union {l \in Lives : MissedAt(l, now')}
    /\ UNCHANGED <<samePid, row, pc, started, recount, life, faults, outcome, spoiled, paused, trimmed>>

Next ==
    \/ Tick \/ Maintain \/ \E fails \in BOOLEAN : Register(fails)
    \/ \E l \in Lives : \/ CountAtStart(l) \/ RecountAtStart(l) \/ PruneLives(l) \/ RegistrationFails(l)
                        \/ Recount(l) \/ RecountAtAgain(l) \/ RecountFails(l) \/ Beat(l) \/ Crash(l) \/ Pause(l)
                        \/ \E fails \in BOOLEAN : Stop(l, fails)

Spec == Init /\ [][Next]_vars

-----------------------------------------------------------------------------
(* Properties *)

\* How many lives in a row ended without stop() before this one.
CrashesBefore(l) ==
    LET stops == {k \in 1 .. l - 1 : outcome[k] = "stop"} IN
    IF stops = {} THEN l - 1 ELSE l - 1 - Max(stops)

\* A life that has nothing left to wait for shows exactly how many lives crashed in a
\* row before it: also those whose rows the pruning has taken, those that crashed before
\* they could count themselves, those that were not quiet yet when it registered; never
\* its sibling.  Not so a life whose own count missed a row, because it went quiet
\* between the two statements of the count or because the recount failed (registrar.ts
\* #countCrashRestarts); the lives after it count that row.
CrashRestartsExact ==
    \A l \in Lives \ {0} :
        (/\ pc[l] = "up" /\ recount[l] = Unset /\ ~trimmed /\ l \notin behind
         /\ \A k \in 0 .. l : k \notin spoiled)
            => row[l] # NoRow /\ row[l].restarts = CrashesBefore(l)

===============================================================================
