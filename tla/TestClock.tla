------------------------------- MODULE TestClock -------------------------------
(***************************************************************************)
(* The clock a test drives by hand: TestClock of clock.ts, the statement   *)
(* counting of activity.ts that it waits on, and the session set-up of     *)
(* db.ts that lets Postgres read the same time.                            *)
(*                                                                         *)
(* A test calls tick() and setTime(); both await the database between      *)
(* their steps, while the instances that share the clock run statements,   *)
(* arm timers, wake each other and come and go.  A timer's function starts *)
(* a statement, as a poll does; a statement that has ended arms the next   *)
(* timer, wakes another instance, or does neither.  Statements of job      *)
(* handlers, which the clock does not wait for, are left out.              *)
(***************************************************************************)
EXTENDS Integers, FiniteSets, FiniteSetsExt

CONSTANTS
    Instances,      \* instances sharing the clock and the schema
    Delays,         \* delays timers are armed with
    Spans,          \* what tick() is asked to advance by
    MaxNow,         \* bound: the latest time
    MaxTimers,      \* bound: timers armed
    MaxCalls,       \* bound: calls of tick() and setTime()
    MaxStarts,      \* bound: starts of instances
    Overlap         \* attach and release run beside each other and beside tick()

\* What is assumed of the constants.
TestClockAssumption ==
    /\ Delays \subseteq Nat \ {0} /\ Delays # {} /\ IsFiniteSet(Delays)
    /\ Spans \subseteq Nat
    /\ {MaxNow, MaxTimers, MaxCalls, MaxStarts} \subseteq Nat /\ Overlap \in BOOLEAN

VARIABLES
    now, timers, seq,       \* #now, #timers, #seq
    driver,                 \* the running call: its step, goal and due timer
    calls,
    pass,                   \* of #settle: instance |-> where its idle() is
    inFlight,               \* instance |-> statements in flight
    life,                   \* instance |-> "down", "attaching", "up", "releasing"
    seed,                   \* the time an attach batch carries
    declared,               \* sessionStatements is not empty
    pool,                   \* kinds of session in the instance's pool
    starts,
    overridden, row         \* job_now()'s body, the row of the clock table

clockVars == <<now, timers, seq, driver, calls>>
instanceVars == <<inFlight, life, seed, declared, pool, starts>>
dbVars == <<overridden, row>>
vars == <<clockVars, pass, instanceVars, dbVars>>

NoRow == -1
NoTimer == [due |-> 0, seq |-> -1, interval |-> 0, owner |-> "none"]
Quiet == [step |-> "none", goal |-> 0, timer |-> NoTimer, next |-> "none"]

Init ==
    /\ now = 0 /\ timers = {} /\ seq = 0 /\ driver = Quiet /\ calls = 0
    /\ pass = [i \in Instances |-> "out"]
    /\ inFlight = [i \in Instances |-> 0]
    /\ life = [i \in Instances |-> "down"]
    /\ seed = [i \in Instances |-> 0]
    /\ declared = [i \in Instances |-> FALSE]
    /\ pool = [i \in Instances |-> {}]
    /\ starts = 0
    /\ overridden = FALSE /\ row = NoRow

Targets == {i \in Instances : life[i] = "up"}
Moving == \E i \in Instances : life[i] \in {"attaching", "releasing"}

-----------------------------------------------------------------------------
(* Timers. *)

Before(a, b) == a.due < b.due \/ (a.due = b.due /\ a.seq < b.seq)
First == CHOOSE t \in timers : \A u \in timers \ {t} : Before(t, u)

\* #schedule.
Schedule(owner, delay, interval) ==
    /\ seq < MaxTimers
    /\ timers' = timers \cup {[due |-> now + delay, seq |-> seq, interval |-> interval, owner |-> owner]}
    /\ seq' = seq + 1

-----------------------------------------------------------------------------
(* Statements: activity.ts counts them, and an idle() that is waiting notices. *)

StartStatement(i) ==
    /\ inFlight' = [inFlight EXCEPT ![i] = @ + 1]
    /\ pass' = [pass EXCEPT ![i] = IF @ = "checking" THEN "waited" ELSE @]

\* The test sends a job, say, while nothing else runs.
TestCalls(i) ==
    /\ life[i] = "up" /\ driver.step = "none" /\ inFlight[i] = 0
    /\ StartStatement(i)
    /\ UNCHANGED <<clockVars, life, seed, declared, pool, starts, dbVars>>

\* A statement ends; what follows it runs before idle() looks again.
StatementEnds(i) ==
    /\ inFlight[i] > 0
    /\ \/ /\ inFlight' = [inFlight EXCEPT ![i] = @ - 1]
          /\ UNCHANGED <<timers, seq, pass>>
       \/ /\ inFlight' = [inFlight EXCEPT ![i] = @ - 1]
          /\ \E d \in Delays : Schedule(i, d, 0)
          /\ UNCHANGED pass
       \/ \E k \in Targets \ {i} :
            /\ inFlight[k] = 0
            /\ inFlight' = [inFlight EXCEPT ![i] = @ - 1, ![k] = @ + 1]
            /\ pass' = [pass EXCEPT ![k] = IF @ = "checking" THEN "waited" ELSE @]
            /\ UNCHANGED <<timers, seq>>
    /\ UNCHANGED <<now, driver, calls, life, seed, declared, pool, starts, dbVars>>

\* The pool opens a connection and runs the declared statements on it.
Connect(i) ==
    /\ life[i] # "down"
    /\ pool' = [pool EXCEPT ![i] = @ \cup {IF declared[i] THEN "opted in" ELSE "plain"}]
    /\ pool' # pool
    /\ UNCHANGED <<clockVars, pass, inFlight, life, seed, declared, starts, dbVars>>

-----------------------------------------------------------------------------
(* #settle: passes over the targets until one in which no idle() had to wait. *)

Settle(next) == driver' = [driver EXCEPT !.step = "pass", !.next = next]

BeginPass ==
    /\ driver.step = "pass"
    /\ pass' = [i \in Instances |->
                    IF i \notin Targets THEN "out" ELSE IF inFlight[i] > 0 THEN "waited" ELSE "checking"]
    /\ driver' = [driver EXCEPT !.step = "idle"]
    /\ UNCHANGED <<now, timers, seq, calls, instanceVars, dbVars>>

\* idle() of one target returns.
IdleReturns(i) ==
    /\ driver.step = "idle"
    /\ pass[i] \in {"checking", "waited"}
    /\ inFlight[i] = 0
    /\ pass' = [pass EXCEPT ![i] = IF @ = "waited" THEN "was busy" ELSE "was quiet"]
    /\ UNCHANGED <<clockVars, instanceVars, dbVars>>

\* Mutant: one pass is enough.
PassAgainNever == FALSE

PassAgain == \E i \in Instances : pass[i] = "was busy"

EndPass ==
    /\ driver.step = "idle"
    /\ \A i \in Instances : pass[i] \notin {"checking", "waited"}
    /\ driver' = [driver EXCEPT !.step = IF PassAgain THEN "pass" ELSE driver.next]
    /\ pass' = [i \in Instances |-> "out"]
    /\ UNCHANGED <<now, timers, seq, calls, instanceVars, dbVars>>

-----------------------------------------------------------------------------
(* tick() and setTime(): #enter lets one run at a time. *)

Enter ==
    /\ driver.step = "none"
    /\ Overlap \/ ~Moving
    /\ calls < MaxCalls /\ calls' = calls + 1

Tick(ms) ==
    /\ Enter
    /\ driver' = [driver EXCEPT !.step = "pass", !.next = "aim", !.goal = ms]
    /\ UNCHANGED <<now, timers, seq, pass, instanceVars, dbVars>>

SetTime(t) ==
    /\ Enter
    /\ driver' = [driver EXCEPT !.step = "pass", !.next = "jump", !.goal = t]
    /\ UNCHANGED <<now, timers, seq, pass, instanceVars, dbVars>>

\* The target is computed once the settle is over.
Aim ==
    /\ driver.step = "aim"
    /\ now + driver.goal <= MaxNow
    /\ driver' = [driver EXCEPT !.step = "loop", !.goal = now + driver.goal]
    /\ UNCHANGED <<now, timers, seq, calls, pass, instanceVars, dbVars>>

\* Mutant: the timers that are passed keep their due time.
OvertakenStays(t) == timers

\* Timers the jump passes fall due where it lands.
Overtaken(t) == {IF x.due < t THEN [x EXCEPT !.due = t] ELSE x : x \in timers}

Jump ==
    /\ driver.step = "jump"
    /\ timers' = Overtaken(driver.goal)
    /\ now' = driver.goal
    /\ driver' = [driver EXCEPT !.step = "push", !.next = "none"]
    /\ UNCHANGED <<seq, calls, pass, instanceVars, dbVars>>

\* The next timer is taken off the list, and time moves to it.
TakeTimer ==
    /\ driver.step = "loop"
    /\ \E t \in timers : t.due <= driver.goal
    /\ timers' = timers \ {First}
    /\ now' = Max({now, First.due})
    /\ driver' = [driver EXCEPT !.step = IF First.due > now THEN "push" ELSE "fire", !.timer = First, !.next = "fire"]
    /\ UNCHANGED <<seq, calls, pass, instanceVars, dbVars>>

\* #push, the UPDATE of every target.
Push ==
    /\ driver.step = "push"
    /\ row' = IF Targets # {} /\ row # NoRow THEN now ELSE row
    /\ driver' = [driver EXCEPT !.step = driver.next]
    /\ UNCHANGED <<now, timers, seq, calls, pass, instanceVars, overridden>>

\* An interval is armed again first; the function starts a statement of its owner.
Fire ==
    /\ driver.step = "fire"
    /\ LET t == driver.timer
           again == t.interval # 0
       IN  /\ timers' = IF again THEN timers \cup {[t EXCEPT !.due = @ + t.interval, !.seq = seq]} ELSE timers
           /\ seq' = IF again THEN seq + 1 ELSE seq
           /\ IF life[t.owner] = "up" THEN StartStatement(t.owner) ELSE UNCHANGED <<inFlight, pass>>
    /\ driver' = [driver EXCEPT !.step = "pass", !.next = "loop", !.timer = NoTimer]
    /\ UNCHANGED <<now, calls, life, seed, declared, pool, starts, dbVars>>

\* No timer is due: time moves to the target, and once it is there the tick is over.
Land ==
    /\ driver.step = "loop"
    /\ \A t \in timers : t.due > driver.goal
    /\ IF now < driver.goal
       THEN /\ now' = driver.goal
            /\ driver' = [driver EXCEPT !.step = "push", !.next = "settle"]
       ELSE driver' = Quiet /\ UNCHANGED now
    /\ UNCHANGED <<timers, seq, calls, pass, instanceVars, dbVars>>

LandSettles ==
    /\ driver.step = "settle"
    /\ Settle("loop")
    /\ UNCHANGED <<now, timers, seq, calls, pass, instanceVars, dbVars>>

-----------------------------------------------------------------------------
(* Instances: start() declares the session statements and attaches, stop() releases. *)

Free == Overlap \/ (driver.step = "none" /\ ~Moving)

\* Mutant: sessions that are open already are left as they are.
SweepNone(p) == p

\* setSessionStatements on an open pool reaches its idle connections.
Sweep(p) == IF p = {} THEN {} ELSE {"opted in"}

Attach(i) ==
    /\ life[i] = "down" /\ Free /\ starts < MaxStarts
    /\ declared' = [declared EXCEPT ![i] = TRUE]
    /\ pool' = [pool EXCEPT ![i] = Sweep(@)]
    /\ life' = [life EXCEPT ![i] = "attaching"]
    /\ seed' = [seed EXCEPT ![i] = now]
    /\ starts' = starts + 1
    /\ UNCHANGED <<clockVars, pass, inFlight, dbVars>>

\* The batch lands; the instance arms the interval of a monitor.
Attached(i) ==
    /\ life[i] = "attaching"
    /\ overridden' = TRUE /\ row' = seed[i]
    /\ life' = [life EXCEPT ![i] = "up"]
    /\ IF seq < MaxTimers THEN Schedule(i, Min(Delays), Max(Delays)) ELSE UNCHANGED <<timers, seq>>
    /\ UNCHANGED <<now, driver, calls, pass, inFlight, seed, declared, pool, starts>>

\* Mutant: whoever leaves restores the clock.
LastAlways(i) == TRUE

Last(i) == Targets = {i}

\* stop(): its timers are cleared and its statements have ended.  The last target of
\* the schema restores job_now().
Release(i, close) ==
    /\ life[i] = "up" /\ inFlight[i] = 0 /\ Free
    /\ timers' = {t \in timers : t.owner # i}
    /\ life' = [life EXCEPT ![i] = IF Last(i) THEN "releasing" ELSE "down"]
    /\ declared' = [declared EXCEPT ![i] = FALSE]
    /\ pool' = [pool EXCEPT ![i] = IF close THEN {} ELSE @]
    /\ seed' = [seed EXCEPT ![i] = 0]
    /\ UNCHANGED <<now, seq, driver, calls, pass, inFlight, starts, dbVars>>

\* The plain body is back and the table gone; the session that ran it is reset.
Released(i) ==
    /\ life[i] = "releasing"
    /\ overridden' = FALSE /\ row' = NoRow
    /\ life' = [life EXCEPT ![i] = "down"]
    /\ pool' = [pool EXCEPT ![i] = IF @ = {} THEN {} ELSE @ \cup {"plain"}]
    /\ UNCHANGED <<clockVars, pass, inFlight, seed, declared, starts>>

\* The test run is killed: its clock is gone, and the override stays behind.
Killed ==
    /\ Targets # {}
    /\ now' = 0 /\ timers' = {} /\ driver' = Quiet
    /\ pass' = [i \in Instances |-> "out"]
    /\ inFlight' = [i \in Instances |-> 0]
    /\ life' = [i \in Instances |-> "down"]
    /\ seed' = [i \in Instances |-> 0]
    /\ declared' = [i \in Instances |-> FALSE]
    /\ pool' = [i \in Instances |-> {}]
    /\ UNCHANGED <<seq, calls, starts, dbVars>>

\* doctor finds the override and puts the function back, while no test runs.
RestoreClockFunction ==
    /\ overridden /\ \A i \in Instances : life[i] = "down"
    /\ overridden' = FALSE /\ row' = NoRow
    /\ UNCHANGED <<clockVars, pass, instanceVars>>

Next ==
    \/ \E i \in Instances :
        \/ TestCalls(i) \/ StatementEnds(i) \/ Connect(i) \/ IdleReturns(i)
        \/ Attach(i) \/ Attached(i) \/ (\E close \in BOOLEAN : Release(i, close)) \/ Released(i)
    \/ BeginPass \/ EndPass
    \/ \E ms \in Spans : Tick(ms)
    \/ \E t \in 0..MaxNow : SetTime(t)
    \/ Aim \/ Jump \/ TakeTimer \/ Push \/ Fire \/ Land \/ LandSettles
    \/ Killed \/ RestoreClockFunction

Spec == Init /\ [][Next]_vars

-----------------------------------------------------------------------------
(* Properties *)

TypeOK ==
    /\ now \in 0..MaxNow /\ row \in {NoRow} \cup 0..MaxNow
    /\ life \in [Instances -> {"down", "attaching", "up", "releasing"}]
    /\ inFlight \in [Instances -> 0..2]

\* A statement in flight reads the time the process reads, on whatever session of the
\* pool it runs: the clock moves only when every instance is quiet, a session that
\* did not opt in is never used, and one instance leaving does not put the others back
\* on real time.
StatementsAgree ==
    \A i \in Targets : inFlight[i] > 0 => overridden /\ row = now /\ pool[i] \subseteq {"opted in"}

\* Time never passes a timer: one is due now or later, after a tick and after a jump
\* in either direction, so that it fires at its due time or where the jump landed.
NoTimerPassed == \A t \in timers : t.due >= now

\* The clock a test drives is one clock: its statements and its timers agree with it.
ClockSound == StatementsAgree /\ NoTimerPassed
================================================================================
