------------------------------- MODULE Lifecycle -------------------------------
(***************************************************************************)
(* start() and stop() of one PgBoss object, as index.ts runs them: calls   *)
(* that come at any time, in any order, share one start or one stop in     *)
(* flight and wait for the other kind to end; the start brings the         *)
(* components up one after the other, tries again when it fails, and the   *)
(* stop takes them down and closes the pool.  Its schema step is the       *)
(* Contractor's, beside peers that start at the same time.                 *)
(*                                                                         *)
(* The code between two awaits is one step.  The workers a stop drains are *)
(* Worker's; the passes it waits for are reduced to whether one runs.      *)
(***************************************************************************)
EXTENDS Contractor, Sequences, SequencesExt, FiniteSets

CONSTANTS
    Me,            \* the process whose object this is
    Calls,         \* bound: the calls of start() and stop(), numbered as they are made
    MaxAttempts,   \* bound: the attempts option
    MaxFailures,   \* bound: how often a step of a start fails
    MaxPasses,     \* bound: how often a component's timer fires
    None

ASSUME LifecycleAssumption ==
    Me \in Procs /\ Calls \subseteq Nat /\ MaxAttempts \in Nat \ {0} /\ MaxFailures \in Nat /\ MaxPasses \in Nat

VARIABLES
    call,       \* each call: [kind, pc, close]; pc is new, waits, resumes, joined or done
    started, stopped,    \* #started, #stopped
    starting,   \* #startingPromise: None, or [at, attempt, attempts, cancelled]
    stopping,   \* #stoppingPromise: None, or [at, close, waits]: for a pass in flight
    opened,     \* db.opened
    flag,       \* the components that believe they run
    armed,      \* how many timers (for the notifier, listeners) of each are live
    handle,     \* the components that hold a handle on one of theirs
    passing,    \* the components with a pass in flight
    failures, passes,
    halfway,    \* ghost: the timekeeper's start failed and no stop() has reset it
    over,       \* ghost: how often the manager was started over such a start
    early       \* ghost: a call came when a promise had settled and one that waited had not woken

vars == <<version, contract, found, applied, call, started, stopped, starting, stopping, opened, flag, armed,
          handle, passing, failures, passes, halfway, over, early>>
object == <<started, stopped, starting, stopping>>
parts == <<opened, flag, armed, handle, passing>>
ghosts == <<halfway, over, early>>

\* The order of #doStart and of #doStop.
StartOrder == <<"open", "schema", "manager", "notifier", "boss", "navigator", "timekeeper", "bam", "registrar">>
StopOrder == <<"notifier", "manager", "timekeeper", "boss", "navigator", "bam", "drain", "registrar", "close">>
Components == {"manager", "notifier", "boss", "navigator", "timekeeper", "bam", "registrar"}
Passers == {"boss", "navigator", "timekeeper", "bam"}
After(order, s) == order[(CHOOSE i \in 1 .. Len(order) : order[i] = s) + 1]

Init ==
    /\ ContractorInit
    /\ call = [c \in Calls |-> [kind |-> "start", pc |-> "new", close |-> TRUE]]
    /\ started = FALSE /\ stopped = TRUE /\ starting = None /\ stopping = None
    /\ opened = FALSE /\ flag = {} /\ armed = [c \in Components |-> 0] /\ handle = {} /\ passing = {}
    /\ failures = 0 /\ passes = 0
    /\ halfway = FALSE /\ over = 0 /\ early = FALSE

TypeOK ==
    /\ ContractorTypeOK
    /\ \A c \in Calls : call[c].pc \in {"new", "waits", "resumes", "joined", "done"}
    /\ started \in BOOLEAN /\ stopped \in BOOLEAN /\ opened \in BOOLEAN
    /\ starting = None \/ starting.at \in {"backoff", "end", "failed"} \union ToSet(StartOrder)
    /\ stopping = None \/ stopping.at \in ToSet(StopOrder)
    /\ flag \subseteq Components /\ handle \subseteq Components /\ passing \subseteq Passers
    /\ armed \in [Components -> Nat]
    /\ halfway \in BOOLEAN /\ over \in Nat /\ early \in BOOLEAN

-----------------------------------------------------------------------------
(* The calls *)

Becomes(c, pc) == call' = [call EXCEPT ![c].pc = pc]
\* A call is made, perhaps by a caller just answered, before those that waited resume.
Called(c) ==
    /\ call[c].pc = "new" /\ \A d \in Calls : d < c => call[d].pc # "new"
    /\ early' = (early \/ \E d \in Calls : call[d].pc = "resumes")
    /\ UNCHANGED <<halfway, over>>

\* start() past its wait: a start in flight is joined, a started object is the answer,
\* and otherwise #stopped is cleared before the first step.
BeginStart(c) ==
    \/ starting # None /\ Becomes(c, "joined") /\ UNCHANGED object
    \/ starting = None /\ started /\ Becomes(c, "done") /\ UNCHANGED object
    \/ /\ starting = None /\ ~started
       /\ Becomes(c, "joined") /\ stopped' = FALSE
       /\ \E n \in 1 .. MaxAttempts : starting' = [at |-> "open", attempt |-> 1, attempts |-> n, cancelled |-> FALSE]
       /\ UNCHANGED <<started, stopping>>

\* start(): first the stop in flight.
CallStart(c) ==
    /\ Called(c)
    /\ IF stopping # None THEN Becomes(c, "waits") /\ UNCHANGED object
       ELSE BeginStart(c)
    /\ UNCHANGED <<schemaVars, parts, failures, passes>>

\* stop() past its wait.  An object that is stopped may have left the pool open.
BeginStop(c, close) ==
    LET answered(pc) == call' = [call EXCEPT ![c] = [kind |-> "stop", pc |-> pc, close |-> close]]
        begin(step) == stopping' = [at |-> step, close |-> close, waits |-> FALSE] /\ UNCHANGED <<started, stopped, starting>>
    IN  \/ stopping # None /\ answered("joined") /\ UNCHANGED object
        \/ stopping = None /\ stopped /\ close /\ opened /\ answered("joined") /\ begin("close")
        \/ stopping = None /\ stopped /\ ~(close /\ opened) /\ answered("done") /\ UNCHANGED object
        \/ stopping = None /\ ~stopped /\ answered("joined") /\ begin("notifier")

\* stop(): a start between two attempts gives up, and the start in flight ends first.
CallStop(c, close) ==
    /\ Called(c)
    /\ IF starting # None
       THEN /\ call' = [call EXCEPT ![c] = [kind |-> "stop", pc |-> "waits", close |-> close]]
            /\ starting' = [starting EXCEPT !.cancelled = TRUE]
            /\ UNCHANGED <<started, stopped, stopping>>
       ELSE BeginStop(c, close)
    /\ UNCHANGED <<schemaVars, parts, failures, passes>>

\* The call wakes from its wait.
Resume(c) ==
    /\ call[c].pc = "resumes"
    /\ IF call[c].kind = "start" THEN BeginStart(c) ELSE BeginStop(c, call[c].close)
    /\ UNCHANGED <<schemaVars, parts, failures, passes, ghosts>>

\* A promise settles: the calls that joined it are answered, the others resume.
Settle(kind) ==
    call' = [c \in Calls |-> CASE call[c].pc = "joined" /\ call[c].kind = kind -> [call[c] EXCEPT !.pc = "done"]
                               [] call[c].pc = "waits" /\ call[c].kind # kind -> [call[c] EXCEPT !.pc = "resumes"]
                               [] OTHER -> call[c]]

-----------------------------------------------------------------------------
(* #doStart *)

At(s) == starting # None /\ starting.at = s
StepTo(s) == starting' = [starting EXCEPT !.at = s]
NextStart(s) == IF s = "registrar" THEN "end" ELSE After(StartOrder, s)
Arm(c) == armed' = [armed EXCEPT ![c] = @ + 1] /\ handle' = handle \union {c}

Open ==
    /\ At("open") /\ opened' = TRUE /\ StepTo("schema") /\ ContractorStart(Me)
    /\ UNCHANGED <<call, started, stopped, stopping, flag, armed, handle, passing, failures, passes, ghosts>>

SchemaReady ==
    /\ At("schema") /\ contract[Me] = "done" /\ StepTo("manager")
    /\ UNCHANGED <<schemaVars, call, started, stopped, stopping, parts, failures, passes, ghosts>>

\* Manager.start() has no guard: it arms its intervals whatever it holds already.
ManagerStart ==
    /\ At("manager") /\ StepTo("notifier") /\ Arm("manager") /\ flag' = flag \union {"manager"}
    /\ over' = IF halfway THEN over + 1 ELSE over
    /\ UNCHANGED <<schemaVars, call, started, stopped, stopping, opened, passing, failures, passes,
                   halfway, early>>

\* The others return at once if they believe they run.  A listener that cannot be had and
\* a registration that fails are no error: the first leaves polling, the second its timer.
ComponentStart(c) ==
    /\ c # "manager" /\ At(c) /\ StepTo(NextStart(c))
    /\ c = "timekeeper" => opened \/ c \in flag
    /\ flag' = flag \union {c}
    /\ IF c \in flag THEN UNCHANGED <<armed, handle, failures>>
       ELSE \/ Arm(c) /\ UNCHANGED failures
            \/ /\ c = "notifier" /\ failures < MaxFailures /\ failures' = failures + 1
               /\ UNCHANGED <<armed, handle>>
    /\ UNCHANGED <<schemaVars, call, started, stopped, stopping, opened, passing, passes, ghosts>>

\* A step throws: the error ends the start, unless an attempt is left, nobody cancelled
\* it and it is no AssertionError (`refused').
StartFails(refused) ==
    /\ IF starting.attempt >= starting.attempts \/ starting.cancelled \/ refused
       THEN StepTo("failed") ELSE StepTo("backoff")

SchemaFails(refused) ==
    /\ At("schema") /\ contract[Me] = "failed" /\ StartFails(refused)
    /\ UNCHANGED <<schemaVars, call, started, stopped, stopping, parts, failures, passes, ghosts>>

\* The timekeeper's createQueue, after its flag is set; over a closed pool for certain,
\* and then it is refused.
TimekeeperFails ==
    /\ At("timekeeper") /\ "timekeeper" \notin flag
    /\ IF opened THEN failures < MaxFailures /\ failures' = failures + 1
       ELSE UNCHANGED failures
    /\ flag' = flag \union {"timekeeper"} /\ StartFails(~opened) /\ halfway' = TRUE
    /\ UNCHANGED <<schemaVars, call, started, stopped, stopping, opened, armed, handle, passing, passes,
                   over, early>>

\* Mutant: a wait that stop() has ended never resolves.
BackoffHangs ==
    /\ At("backoff") /\ ~starting.cancelled
    /\ starting' = [starting EXCEPT !.at = "open", !.attempt = @ + 1]
    /\ UNCHANGED <<schemaVars, call, started, stopped, stopping, parts, failures, passes, ghosts>>

\* The wait between two attempts ends, or stop() ended it.
BackoffEnds ==
    /\ At("backoff")
    /\ starting' = IF starting.cancelled THEN [starting EXCEPT !.at = "failed"]
                   ELSE [starting EXCEPT !.at = "open", !.attempt = @ + 1]
    /\ UNCHANGED <<schemaVars, call, started, stopped, stopping, parts, failures, passes, ghosts>>

\* The last step of #doStart and the settled promise; a start that failed changes nothing.
StartEnds ==
    /\ At("end") \/ At("failed")
    /\ starting' = None /\ started' = (started \/ At("end"))
    /\ Settle("start")
    /\ UNCHANGED <<schemaVars, stopped, stopping, parts, failures, passes, ghosts>>

-----------------------------------------------------------------------------
(* #doStop *)

StopAt(s) == stopping # None /\ stopping.at = s
StopTo(s) == stopping' = [stopping EXCEPT !.at = s]

\* Mutant: a stop that clears the timer and does not wait for the pass.
ComponentStopAtOnce(c) ==
    /\ StopAt(c) /\ StopTo(After(StopOrder, c))
    /\ flag' = flag \ {c} /\ handle' = handle \ {c}
    /\ armed' = [armed EXCEPT ![c] = IF c \in handle THEN @ - 1 ELSE @]
    /\ halfway' = (halfway /\ c # "timekeeper")
    /\ UNCHANGED <<schemaVars, call, started, stopped, starting, opened, passing, failures, passes,
                   over, early>>

\* A component's stop(): the timer it holds is cleared at once, so that no pass begins
\* after; it returns when the pass in flight has ended.
ComponentStop(c) ==
    /\ StopAt(c) /\ ~stopping.waits
    /\ IF c \in flag /\ c \in passing THEN stopping' = [stopping EXCEPT !.waits = TRUE]
       ELSE StopTo(After(StopOrder, c))
    /\ flag' = flag \ {c} /\ handle' = handle \ {c}
    /\ armed' = [armed EXCEPT ![c] = IF c \in handle THEN @ - 1 ELSE @]
    /\ halfway' = (halfway /\ c # "timekeeper")
    /\ UNCHANGED <<schemaVars, call, started, stopped, starting, opened, passing, failures, passes,
                   over, early>>

PassWaitedFor(c) ==
    /\ StopAt(c) /\ stopping.waits /\ c \notin passing
    /\ stopping' = [stopping EXCEPT !.at = After(StopOrder, c), !.waits = FALSE]
    /\ UNCHANGED <<schemaVars, call, started, stopped, starting, parts, failures, passes, ghosts>>

\* The grace for the workers, failWip, settleCleanups.
Drain ==
    /\ StopAt("drain") /\ StopTo("registrar")
    /\ UNCHANGED <<schemaVars, call, started, stopped, starting, parts, failures, passes, ghosts>>

\* Mutant: a stop that leaves #started set.
CloseStillStarted ==
    /\ StopAt("close") /\ stopping' = None
    /\ opened' = (opened /\ ~stopping.close)
    /\ stopped' = TRUE
    /\ Settle("stop")
    /\ UNCHANGED <<schemaVars, started, starting, flag, armed, handle, passing, failures, passes, ghosts>>

\* #closeDb, and the settled promise.
Close ==
    /\ StopAt("close") /\ stopping' = None
    /\ opened' = (opened /\ ~stopping.close)
    /\ stopped' = TRUE /\ started' = FALSE
    /\ Settle("stop")
    /\ UNCHANGED <<schemaVars, starting, flag, armed, handle, passing, failures, passes, ghosts>>

-----------------------------------------------------------------------------

\* A timer fires; the pass looks at the component's flag and at whether one runs.
Pass(c) ==
    /\ c \in Passers /\ armed[c] > 0 /\ c \in flag /\ c \notin passing /\ passes < MaxPasses
    /\ passes' = passes + 1 /\ passing' = passing \union {c}
    /\ UNCHANGED <<schemaVars, call, object, opened, flag, armed, handle, failures, ghosts>>

PassEnds(c) ==
    /\ c \in passing /\ passing' = passing \ {c}
    /\ UNCHANGED <<schemaVars, call, object, opened, flag, armed, handle, failures, passes, ghosts>>

\* The contractors, this one's within its step and over an open pool.
Contracts(p) ==
    /\ p = Me => At("schema")
    /\ \/ (p = Me => opened) /\ ContractorStep(p) /\ UNCHANGED failures
       \/ ContractorFails(p) /\ failures < MaxFailures /\ failures' = failures + 1
       \/ p = Me /\ ~opened /\ ContractorFails(p) /\ UNCHANGED failures
    /\ UNCHANGED <<call, object, parts, passes, ghosts>>

PeerStarts(p) ==
    /\ p # Me /\ contract[p] = "idle" /\ ContractorStart(p)
    /\ UNCHANGED <<call, object, parts, failures, passes, ghosts>>

StartStep ==
    \/ Open \/ SchemaReady \/ ManagerStart \/ TimekeeperFails \/ BackoffEnds \/ StartEnds
    \/ \E c \in Components : ComponentStart(c)
    \/ \E refused \in BOOLEAN : SchemaFails(refused)

StopStep == Drain \/ Close \/ \E c \in Components : ComponentStop(c) \/ PassWaitedFor(c)

Next ==
    \/ \E c \in Calls : CallStart(c) \/ Resume(c) \/ \E close \in BOOLEAN : CallStop(c, close)
    \/ StartStep \/ StopStep
    \/ \E c \in Passers : Pass(c) \/ PassEnds(c)
    \/ \E p \in Procs : Contracts(p) \/ PeerStarts(p)

Fairness ==
    /\ WF_vars(StartStep) /\ WF_vars(StopStep)
    /\ \A c \in Calls : WF_vars(Resume(c))
    /\ \A c \in Passers : WF_vars(PassEnds(c))
    /\ WF_vars(Contracts(Me))

Spec == Init /\ [][Next]_vars
FairSpec == Spec /\ Fairness

-----------------------------------------------------------------------------
(* Properties *)

InFlight == starting # None \/ stopping # None

\* An object that says it is started has every timer armed, exactly once, the pool open
\* and the schema at its version: after a failed attempt, a restart, a start that joined
\* another, an install or migration a peer won.  A start made again, with no stop()
\* between, over one that failed in the timekeeper leaves the timekeeper without its
\* timers and the manager with those of both starts.
StartedMeansUp ==
    started /\ ~InFlight =>
        /\ opened /\ version = SchemaVersion
        /\ \A c \in Components \ {"notifier", "manager", "timekeeper"} : armed[c] = 1
        /\ armed["timekeeper"] = (IF halfway THEN 0 ELSE 1)
        /\ armed["manager"] = 1 + over

\* Once a stop has settled nothing runs on its own: no timer, also none of an attempt
\* that failed, no listener, and no pass of a component whose pool is closed.  Only the
\* manager's timers of a start that was made over are out of its reach.
StoppedMeansQuiet ==
    /\ stopped /\ ~InFlight => \A c \in Components : armed[c] = (IF c = "manager" THEN over ELSE 0)
    /\ ~opened => passing = {}

\* A start and a stop never run at once, over the same timers and the same pool.
StartStopExclusive == starting = None \/ stopping = None

\* Every call of start() and of stop() is answered: in the end none of them waits for the
\* other kind, for an attempt or for a pass.  (A call made once is in the end new or done.)
EveryCallAnswered == <>[](\A c \in Calls : call[c].pc \in {"new", "done"})

\* What start() and stop() say of the object is true of it: started, all of it runs;
\* stopped, none of it does; and the two never overlap.  A caller that is answered and
\* calls again before a call that waited has woken can make them overlap (the one that
\* wakes does not look again), and then nothing is promised.
SaysWhatItIs == ~early => StartedMeansUp /\ StoppedMeansQuiet /\ StartStopExclusive
===============================================================================
