----------------------------- MODULE MCKeyPolicies -----------------------------
(* Small instances for TLC of how keyed jobs are claimed (KeyPolicies), of how    *)
(* tables are paged through while they change (Lists), of the clock tests drive   *)
(* (TestClock) and of the lives of a process in the instance table (Registry; up  *)
(* to five, so that two rows can be pruned with two kept).  `part' says which of  *)
(* the four a behaviour is about; the others stand still.                         *)
EXTENDS KeyPolicies, TLC

CONSTANTS
    j1, j2, k1,
    Slots, Times, Limits, MaxChanges, MaxPage,
    Instances, Delays, Spans, MaxNow, MaxTimers, MaxCalls, MaxStarts, Overlap,
    MaxLives, MaxTick, MaxFaults, QuietAfter, KeptPerName, Kept, SamePids, NoLife

VARIABLES
    part,
    list, limit, rows, page, request, changes, shown, stayed, lost,
    now, timers, seq, driver, calls, pass, inFlight, life, seed, declared, pool, starts,
    overridden, clockRow,
    samePid, tick, lives, pc, born, recount, since, latest, faults, outcome, spoiled, paused,
    behind, trimmed

Pages == INSTANCE Lists WITH seen <- shown
Clock == INSTANCE TestClock WITH row <- clockRow
Lives == INSTANCE Registry WITH
        row <- lives, now <- tick, started <- born, life <- latest,
        Quiet <- QuietAfter, MaxTime <- MaxTick, NoRow <- NoLife

ASSUME LivesAssumption == Lives!RegistryAssumption
ASSUME ClockAssumption == Clock!TestClockAssumption

\* Jobs of one key.
OneKey == [j \in Jobs |-> k1]

\* A job without a key and one sent with singletonKey ''.
KeylessAndEmpty == {f \in [Jobs -> {NoKey, EmptyKey}] : f[j1] # f[j2]}

SomeKeys == {OneKey} \cup KeylessAndEmpty

\* Two rows of one queue and one of another that shares an id.
SomeRows == {<<1, 1>>, <<1, 2>>, <<2, 1>>}

\* The jobs are interchangeable, as the workers are: every job may be the keyless one.
AllSymmetric == Permutations(Workers) \cup Permutations(Jobs)

listVars == <<list, limit, rows, page, request, changes, shown, stayed, lost>>
clockVars == <<now, timers, seq, driver, calls, pass, inFlight, life, seed, declared, pool,
               starts, overridden, clockRow>>
registryVars == <<samePid, tick, lives, pc, born, recount, since, latest, faults, outcome, spoiled,
                  paused, behind, trimmed>>
allVars == <<part, vars, listVars, clockVars, registryVars>>

ClaimsRest ==
    /\ policy = "standard" /\ keyOf = OneKey
    /\ state = [j \in Jobs |-> "absent"] /\ due = [j \in Jobs |-> FALSE]
    /\ stamp = [j \in Jobs |-> 0] /\ owner = [j \in Jobs |-> NoWorker]
    /\ phase = [w \in Workers |-> "idle"] /\ seen = [w \in Workers |-> {}]
    /\ started = [j \in Jobs |-> FALSE] /\ odd = [j \in Jobs |-> FALSE]
    /\ before = [j \in Jobs |-> {}] /\ raced = [w \in Workers |-> FALSE]

ListRests ==
    /\ list = Pages!RecentJobs /\ limit = 1 /\ rows = [s \in {<<1, 1>>} |-> Pages!Absent]
    /\ page = Pages!NoPage /\ request = Pages!NoRequest /\ changes = 0
    /\ shown = {} /\ stayed = {} /\ lost = FALSE

LivesRest == samePid = TRUE /\ Lives!Init

AllInit ==
    \/ part = "claims" /\ Init /\ ListRests /\ Clock!Init /\ LivesRest
    \/ part = "list" /\ Pages!Init /\ ClaimsRest /\ Clock!Init /\ LivesRest
    \/ part = "clock" /\ Clock!Init /\ ClaimsRest /\ ListRests /\ LivesRest
    \/ part = "registry" /\ Lives!Init /\ ClaimsRest /\ ListRests /\ Clock!Init

ClaimStep == part = "claims" /\ Next /\ UNCHANGED <<part, listVars, clockVars, registryVars>>

ListStep == part = "list" /\ Pages!Next /\ UNCHANGED <<part, vars, clockVars, registryVars>>

ClockStep == part = "clock" /\ Clock!Next /\ UNCHANGED <<part, vars, listVars, registryVars>>

LifeStep == part = "registry" /\ Lives!Next /\ UNCHANGED <<part, vars, listVars, clockVars>>

AllNext == ClaimStep \/ ListStep \/ ClockStep \/ LifeStep

AllSpec == AllInit /\ [][AllNext]_allVars

\* Lists' WalkComplete: a walk through a list that reaches its end has shown every row
\* that was there, unmoved, since the first page.
WalkComplete == Pages!WalkComplete

\* TestClock's ClockSound: a statement in flight reads the time the process reads, and
\* time never passes a timer.
ClockSound == Clock!ClockSound

\* Registry's CrashRestartsExact: a life shows how many crashed in a row before it.
CrashRestartsExact == Lives!CrashRestartsExact
================================================================================
