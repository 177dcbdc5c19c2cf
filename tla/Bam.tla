---------------------------------- MODULE Bam ----------------------------------
(***************************************************************************)
(* Background async migrations: the bam table, the runners of all instances*)
(* that claim its commands, and the server that runs their statements.     *)
(*                                                                         *)
(* A command builds an index CONCURRENTLY or drops the index it replaces.  *)
(* A claim moves a row to in_progress; a row whose runner is gone is       *)
(* reclaimed once it is past its grace window and no statement holds its   *)
(* table's lock.  Runners crash, stop, lose connections and are slow, and  *)
(* the server finishes a concurrent statement whose client has gone.       *)
(*                                                                         *)
(* This is the liveness path of native Postgres.  A row's started_on keeps *)
(* what the code asks of it: whose claim wrote it, and whether the grace   *)
(* window has passed since.                                                *)
(***************************************************************************)
EXTENDS Integers, FiniteSets, Sequences

CONSTANTS
    Commands,           \* rows of the bam table
    Builds,             \* the commands that build an index; the others drop one
    TableOf,            \* table_name of each command
    Number,             \* created_on of each command, as its rank
    Runners,            \* the Bam objects of all instances
    NoRunner,           \* no claim, or a statement whose client has gone
    NoCommand,
    MaxFaults           \* bound: stops, crashes, failures, slow runners

ASSUME BamAssumption ==
    /\ IsFiniteSet(Commands)
    /\ Builds \subseteq Commands
    /\ \A c \in Commands : Number[c] \in Nat
    /\ \A c, d \in Commands : c # d => Number[c] # Number[d]
    /\ NoRunner \notin Runners
    /\ NoCommand \notin Commands
    /\ MaxFaults \in Nat

VARIABLES
    status,     \* bam.status
    claimant,   \* whose claim wrote bam.started_on
    fresh,      \* the row is in_progress and started_on inside the grace window
    index,      \* the index a build makes; the index a drop retires
    queue,      \* per table: statements holding or awaiting its lock
    phase,      \* what each runner is doing
    entry,      \* the command it claimed, and what its claim overwrote
    result,     \* how the statement it issued ended
    faults,     \* stops, crashes, failures and slow runners so far
    outrun      \* ghost: a claim or a connection was lost by a live runner

rowVars == <<status, claimant, fresh>>
runVars == <<phase, entry, result>>
vars == <<rowVars, index, queue, runVars, faults, outrun>>

Statuses == {"pending", "in_progress", "completed", "failed"}
Phases == {"idle", "claimed", "heal", "healing", "build", "building", "verify", "done", "failed"}
Tables == {TableOf[c] : c \in Commands}

NoEntry == [cmd |-> NoCommand, prior |-> "pending", priorClaimant |-> NoRunner]

TypeOK ==
    /\ status \in [Commands -> Statuses]
    /\ claimant \in [Commands -> Runners \cup {NoRunner}]
    /\ fresh \in [Commands -> BOOLEAN]
    /\ index \in [Commands -> {"absent", "invalid", "valid"}]
    /\ queue \in [Tables -> Seq([cmd : Commands, op : {"heal", "run"}, by : Runners \cup {NoRunner},
                                 began : BOOLEAN])]
    /\ phase \in [Runners -> Phases]
    /\ entry \in [Runners -> [cmd : Commands \cup {NoCommand}, prior : Statuses,
                              priorClaimant : Runners \cup {NoRunner}]]
    /\ result \in [Runners -> {"none", "ok", "error"}]
    /\ faults \in 0..MaxFaults
    /\ outrun \in BOOLEAN
    /\ \A r \in Runners : phase[r] = "idle" <=> entry[r] = NoEntry

Init ==
    /\ status = [c \in Commands |-> "pending"]
    /\ claimant = [c \in Commands |-> NoRunner]
    /\ fresh = [c \in Commands |-> FALSE]
    /\ index = [c \in Commands |-> IF c \in Builds THEN "absent" ELSE "valid"]
    /\ queue = [t \in Tables |-> <<>>]
    /\ phase = [r \in Runners |-> "idle"]
    /\ entry = [r \in Runners |-> NoEntry]
    /\ result = [r \in Runners |-> "none"]
    /\ faults = 0
    /\ outrun = FALSE

Fault == faults < MaxFaults /\ faults' = faults + 1

-----------------------------------------------------------------------------
(* The claim: one at a time, under the bamClaim lock. *)

\* liveBuild: some statement holds the lock of the table.
LiveBuild(c) == queue[TableOf[c]] # <<>>

\* Mutant: only the grace window counts.
StaleByClock(c) == status[c] = "in_progress" /\ ~fresh[c]

Stale(c) == status[c] = "in_progress" /\ ~fresh[c] /\ ~LiveBuild(c)

\* afterPredecessors.  All commands here are of one migration.
Predecessors(c) == {p \in Commands : TableOf[p] = TableOf[c] /\ Number[p] < Number[c]}

Claimable(c) ==
    /\ status[c] \in {"pending", "failed"} \/ Stale(c)
    /\ \A p \in Predecessors(c) : status[p] = "completed"
    /\ \A g \in Commands : status[g] = "in_progress" => Stale(g)

\* ORDER BY (status != 'pending'), created_on.
Before(c, d) ==
    \/ status[c] = "pending" /\ status[d] # "pending"
    \/ (status[c] = "pending" <=> status[d] = "pending") /\ Number[c] < Number[d]

\* The runner that wrote started_on is at work on the row.
AtWork(c) == claimant[c] \in Runners /\ entry[claimant[c]].cmd = c

\* The claim falls between two statements of a runner that is alive and slower
\* than the grace window.
Outruns(c) == status[c] = "in_progress" /\ AtWork(c)

\* getNextBamCommand.  The claims after the first of a burst take pending rows
\* only, which are the ones this order takes first.
Claim(r) ==
    /\ phase[r] = "idle"
    /\ \E c \in Commands :
        /\ Claimable(c)
        /\ \A d \in Commands \ {c} : Claimable(d) => Before(c, d)
        /\ status' = [status EXCEPT ![c] = "in_progress"]
        /\ claimant' = [claimant EXCEPT ![c] = r]
        /\ fresh' = [fresh EXCEPT ![c] = TRUE]
        /\ entry' = [entry EXCEPT ![r] = [cmd |-> c, prior |-> status[c],
                                          priorClaimant |-> claimant[c]]]
        /\ outrun' = (outrun \/ Outruns(c))
        /\ IF Outruns(c) THEN Fault ELSE UNCHANGED faults
    /\ phase' = [phase EXCEPT ![r] = "claimed"]
    /\ UNCHANGED <<index, queue, result>>

\* The grace window passes.
GracePasses(c) ==
    /\ fresh[c]
    /\ fresh' = [fresh EXCEPT ![c] = FALSE]
    /\ UNCHANGED <<status, claimant, index, queue, runVars, faults, outrun>>

-----------------------------------------------------------------------------
(* The runner.  Every step is one round trip to the database. *)

Leave(r) ==
    /\ phase' = [phase EXCEPT ![r] = "idle"]
    /\ entry' = [entry EXCEPT ![r] = NoEntry]
    /\ result' = [result EXCEPT ![r] = "none"]

Goto(r, p) ==
    /\ phase' = [phase EXCEPT ![r] = p]
    /\ result' = [result EXCEPT ![r] = "none"]
    /\ UNCHANGED entry

\* Mutant: the release goes by the id alone.
ReleaseByName(r) ==
    /\ phase[r] = "claimed"
    /\ status' = [status EXCEPT ![entry[r].cmd] = entry[r].prior]
    /\ claimant' = [claimant EXCEPT ![entry[r].cmd] = entry[r].priorClaimant]
    /\ Leave(r)
    /\ Fault
    /\ UNCHANGED <<fresh, index, queue, outrun>>

\* stop() came first: releaseBamCommand puts back what the claim overwrote, if
\* the claim is still this runner's.
ReleaseClaim(r) ==
    LET e == entry[r] IN
    /\ phase[r] = "claimed"
    /\ IF status[e.cmd] = "in_progress" /\ claimant[e.cmd] = r
       THEN /\ status' = [status EXCEPT ![e.cmd] = e.prior]
            /\ claimant' = [claimant EXCEPT ![e.cmd] = e.priorClaimant]
            /\ fresh' = [fresh EXCEPT ![e.cmd] = FALSE]
       ELSE UNCHANGED rowVars
    /\ Leave(r)
    /\ Fault
    /\ UNCHANGED <<index, queue, outrun>>

\* Mutant: a build tried before is run again unseen.
ProbeNothing(c, prior) == "build"

\* Mutant: the probe asks whether the index exists, not whether it is VALID.
ProbeExistence(c, prior) ==
    IF c \notin Builds \/ prior = "pending" \/ index[c] = "absent" THEN "build" ELSE "done"

\* bamHealProbe before a second attempt: heal an INVALID index, leave a VALID
\* one and complete the row, build otherwise.
AfterProbe(c, prior) ==
    IF c \notin Builds \/ prior = "pending" \/ index[c] = "absent" THEN "build"
    ELSE IF index[c] = "invalid" THEN "heal" ELSE "done"

Probe(r) ==
    /\ phase[r] = "claimed"
    /\ Goto(r, AfterProbe(entry[r].cmd, entry[r].prior))
    /\ UNCHANGED <<rowVars, index, queue, faults, outrun>>

\* #execute: the statement joins those of its table.
Execute(r, op, next) ==
    LET c == entry[r].cmd IN
    /\ queue' = [queue EXCEPT ![TableOf[c]] =
                    Append(@, [cmd |-> c, op |-> op, by |-> r, began |-> FALSE])]
    /\ Goto(r, next)
    /\ UNCHANGED <<rowVars, index, faults, outrun>>

HealDrop(r) == phase[r] = "heal" /\ Execute(r, "heal", "healing")

RunCommand(r) == phase[r] = "build" /\ Execute(r, "run", "building")

\* A probe fails, or stop() passed its deadline between two statements of the row
\* (#notStarted).
NotStarted(r) ==
    /\ phase[r] \in {"claimed", "heal", "build", "verify"}
    /\ Goto(r, "failed")
    /\ Fault
    /\ UNCHANGED <<rowVars, index, queue, outrun>>

\* The probe after a build: the index must be there and VALID.
AfterBuild(c) == IF c \notin Builds \/ index[c] = "valid" THEN "done" ELSE "failed"

\* The runner learns how its statement ended.
StatementReturns(r) ==
    /\ phase[r] \in {"healing", "building"}
    /\ result[r] # "none"
    /\ Goto(r, IF result[r] = "error" THEN "failed"
               ELSE IF phase[r] = "healing" THEN "build" ELSE "verify")
    /\ UNCHANGED <<rowVars, index, queue, faults, outrun>>

Verify(r) ==
    /\ phase[r] = "verify"
    /\ Goto(r, AfterBuild(entry[r].cmd))
    /\ UNCHANGED <<rowVars, index, queue, faults, outrun>>

\* setBamCompleted and setBamFailed go by the id alone.
MarkCompleted(r) ==
    /\ phase[r] = "done"
    /\ status' = [status EXCEPT ![entry[r].cmd] = "completed"]
    /\ fresh' = [fresh EXCEPT ![entry[r].cmd] = FALSE]
    /\ Leave(r)
    /\ UNCHANGED <<claimant, index, queue, faults, outrun>>

MarkFailed(r) ==
    /\ phase[r] = "failed"
    /\ status' = [status EXCEPT ![entry[r].cmd] = "failed"]
    /\ fresh' = [fresh EXCEPT ![entry[r].cmd] = FALSE]
    /\ Leave(r)
    /\ UNCHANGED <<claimant, index, queue, faults, outrun>>

\* The write fails: a completion becomes a failure, a failure is given up.
MarkFails(r) ==
    /\ \/ phase[r] = "done" /\ Goto(r, "failed")
       \/ phase[r] = "failed" /\ Leave(r)
    /\ Fault
    /\ UNCHANGED <<rowVars, index, queue, outrun>>

-----------------------------------------------------------------------------
(* Statements on the server. *)

\* The statements of r lose their client.
Orphan(r) ==
    queue' = [t \in Tables |-> [i \in DOMAIN queue[t] |->
                 IF queue[t][i].by = r THEN [queue[t][i] EXCEPT !.by = NoRunner] ELSE queue[t][i]]]

\* The process dies, or stop() abandons a concurrent statement at its deadline:
\* the row stays in_progress and the server goes on.
Abandon(r) ==
    /\ phase[r] # "idle"
    /\ Orphan(r)
    /\ Leave(r)
    /\ Fault
    /\ UNCHANGED <<rowVars, index, outrun>>

\* The connection is lost: the runner sees an error and the server goes on.
ConnectionLost(r) ==
    /\ phase[r] \in {"healing", "building"} /\ result[r] = "none"
    /\ Orphan(r)
    /\ result' = [result EXCEPT ![r] = "error"]
    /\ outrun' = TRUE
    /\ Fault
    /\ UNCHANGED <<rowVars, index, phase, entry>>

Return(t, outcome) ==
    LET s == Head(queue[t]) IN
    /\ queue' = [queue EXCEPT ![t] = Tail(@)]
    /\ result' = [r \in Runners |-> IF r = s.by THEN outcome ELSE result[r]]

\* The first statement of the table has the lock.  CREATE INDEX ... IF NOT
\* EXISTS returns at once when the name exists; else it starts with an INVALID
\* index.
Begin(t) ==
    LET s == Head(queue[t]) IN
    /\ queue[t] # <<>> /\ ~s.began
    /\ IF s.op = "run" /\ s.cmd \in Builds /\ index[s.cmd] # "absent"
       THEN Return(t, "ok") /\ UNCHANGED index
       ELSE /\ queue' = [queue EXCEPT ![t][1].began = TRUE]
            /\ index' = IF s.op = "run" /\ s.cmd \in Builds
                        THEN [index EXCEPT ![s.cmd] = "invalid"] ELSE index
            /\ UNCHANGED result
    /\ UNCHANGED <<rowVars, phase, entry, faults, outrun>>

Succeed(t) ==
    LET s == Head(queue[t]) IN
    /\ queue[t] # <<>> /\ s.began
    /\ index' = [index EXCEPT ![s.cmd] = IF s.op = "run" /\ s.cmd \in Builds THEN "valid" ELSE "absent"]
    /\ Return(t, "ok")
    /\ UNCHANGED <<rowVars, phase, entry, faults, outrun>>

\* A failed build leaves its index INVALID, a failed drop too.
Break(t) ==
    LET s == Head(queue[t]) IN
    /\ queue[t] # <<>> /\ s.began
    /\ index' = [index EXCEPT ![s.cmd] = "invalid"]
    /\ Return(t, "error")
    /\ Fault
    /\ UNCHANGED <<rowVars, phase, entry, outrun>>

-----------------------------------------------------------------------------
RunnerStep(r) ==
    \/ Claim(r) \/ Probe(r) \/ HealDrop(r) \/ RunCommand(r) \/ StatementReturns(r) \/ Verify(r)
    \/ MarkCompleted(r) \/ MarkFailed(r)

ServerStep(t) == Begin(t) \/ Succeed(t) \/ Break(t)

Next ==
    \/ \E r \in Runners :
        RunnerStep(r) \/ ReleaseClaim(r) \/ NotStarted(r) \/ MarkFails(r) \/ Abandon(r)
            \/ ConnectionLost(r)
    \/ \E c \in Commands : GracePasses(c)
    \/ \E t \in Tables : ServerStep(t)

Spec == Init /\ [][Next]_vars

\* Instances go on polling, the server runs what it was given, and time passes.
Fairness ==
    /\ \A r \in Runners : WF_vars(RunnerStep(r))
    /\ \A c \in Commands : WF_vars(GracePasses(c))
    /\ \A t \in Tables : WF_vars(ServerStep(t))

FairSpec == Spec /\ Fairness

-----------------------------------------------------------------------------
(* Properties. *)

\* Runner r claims command c while a statement of c runs or waits on the server.
ReclaimsRunning(r, c) ==
    /\ entry[r].cmd # c /\ entry'[r].cmd = c
    /\ \E i \in DOMAIN queue[TableOf[c]] : queue[TableOf[c]][i].cmd = c

\* plans.ts getNextBamCommand: "a running build is NEVER reclaimed (no matter how
\* long it runs)".
RunningBuildNotReclaimed == [][\A r \in Runners, c \in Commands : ~ReclaimsRunning(r, c)]_vars

\* The promise holds through stops, crashes and failed statements: as long as no
\* live runner loses its claim or its connection, no command is claimed while a
\* statement of it runs or waits, not even one whose runner is gone.
KeptBuildNotReclaimed ==
    [][outrun \/ \A r \in Runners, c \in Commands : ~ReclaimsRunning(r, c)]_vars

\* A completed build has left its index VALID, whatever claims, stops and crashes
\* came before and whatever still runs, as long as no live runner was outrun.
CompletedIsBuilt ==
    outrun \/ \A c \in Builds : status[c] = "completed" => index[c] = "valid"

\* An ordered pair such as build-then-retire "never drops the old index after the
\* new build failed": an old index goes only while every new index before it is
\* VALID, as long as no live runner was outrun.
RetiredAfterBuilt ==
    outrun \/ \A c \in Commands \ Builds :
        index[c] # "valid" => \A p \in Predecessors(c) \cap Builds : index[p] = "valid"

\* What the background migrations leave behind is sound at every moment: what
\* completed is usable, and nothing usable was dropped before its successor was.
IndexesSound == CompletedIsBuilt /\ RetiredAfterBuilt

\* A stop hands back the claim it took and no other: a row that some other runner
\* has reclaimed and is at work on is not put back to pending under it.
ReleaseSparesOthers ==
    [][\A c \in Commands :
        AtWork(c) /\ status[c] = "in_progress" /\ status'[c] = "pending"
        => entry'[claimant[c]] = NoEntry]_vars

\* Every command completes, once the failed and abandoned attempts stop, unless a
\* live runner was outrun: two runners at work on one row can then heal and fail
\* each other's build for ever.
EveryCommandCompletes == <>(outrun \/ \A c \in Commands : status[c] = "completed")

\* A claim is taken over only from a runner that no longer has it, and given back by
\* nobody else.
ClaimsRespected == KeptBuildNotReclaimed /\ ReleaseSparesOthers
================================================================================
