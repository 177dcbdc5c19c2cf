---------------------------------- MODULE Cron ----------------------------------
(***************************************************************************)
(* The cron pass: instances race for the claim on version.cron_on, and the *)
(* winner files the occurrences of a schedule on the send-it queue.        *)
(*                                                                         *)
(* A pass sends what fell due in the last Window, so passes must never be  *)
(* further apart than that, whichever instance takes them and whichever    *)
(* instance stops.  A job is filed under the slot of its occurrence, which *)
(* is how two passes that both see an occurrence send it once.  After an   *)
(* outage the `missed' policy decides what a pass owes for the gap.        *)
(*                                                                         *)
(* Time is discrete and counted from the start of a slot.  Timers are      *)
(* urgent: time does not go past an attempt that is due, and a pass takes  *)
(* at most Delay.                                                          *)
(***************************************************************************)
EXTENDS Integers, FiniteSets

CONSTANTS
    Instances,
    Window,         \* OCCURRENCE_WINDOW_SECONDS, also the width of a slot
    Interval,       \* cronMonitorIntervalSeconds
    Beat,           \* how far past the due moment a refused instance waits
    Delay,          \* the most time between the claim and the insert of a pass
    Schedules,      \* the schedules to consider: [kind, missed, occurrences]
    CreateTimes,    \* when schedule() may be called
    Never,          \* cron_on IS NULL; no schedule row
    MaxTime,        \* bound
    MaxFaults       \* bound: stops, crashes and failed statements

ASSUME CronAssumption ==
    /\ {Window, Interval, Delay, Beat, MaxTime, MaxFaults} \subseteq Nat
    /\ Interval > 0
    /\ Interval + Beat + Delay <= Window
    /\ Never \notin Int
    /\ CreateTimes \subseteq Nat
    /\ \A s \in Schedules : /\ s.kind \in {"cron", "rrule"}
                            /\ s.missed \in {"skip", "once"}
                            /\ s.occurrences \subseteq Nat

VARIABLES
    schedule,   \* the schedule of the run
    created,    \* schedule.created_on
    now,        \* the clock of the server, which skew correction gives everyone
    cronOn,     \* version.cron_on
    phase,      \* what each instance is doing
    timer,      \* when its ClaimTimer fires
    prior,      \* priorCronOn, the stamp its claim replaced
    owed,       \* the slots its pass found due or missed
    filed,      \* slots with a send-it job, which the throttle index keeps single
    excused,    \* ghost: slots a failed statement kept from a pass
    dark,       \* ghost: times from which to the next no instance was running
    reads,      \* ghost: when passes read the schedules
    faults      \* stops and failures so far

passVars == <<phase, timer, prior, owed>>
ghostVars == <<excused, dark, reads>>
vars == <<schedule, created, now, cronOn, passVars, filed, ghostVars, faults>>

Times == 0..MaxTime
Occurrences == schedule.occurrences

TypeOK ==
    /\ schedule \in Schedules
    /\ created \in Times \cup {Never}
    /\ now \in Times
    /\ cronOn \in Times \cup {Never}
    /\ phase \in [Instances -> {"down", "up", "claimed", "owing"}]
    /\ timer \in [Instances -> Nat]
    /\ prior \in [Instances -> Times \cup {Never}]
    /\ owed \in [Instances -> SUBSET Nat]
    /\ filed \subseteq Nat
    /\ excused \subseteq Nat
    /\ dark \subseteq Times
    /\ reads \subseteq Times
    /\ faults \in 0..MaxFaults
    /\ \A i \in Instances : phase[i] = "up" => timer[i] <= now + Interval + Beat

Init ==
    /\ schedule \in Schedules
    /\ created = Never
    /\ now = 0
    /\ cronOn = Never
    /\ phase = [i \in Instances |-> "down"]
    /\ timer = [i \in Instances |-> 0]
    /\ prior = [i \in Instances |-> Never]
    /\ owed = [i \in Instances |-> {}]
    /\ filed = {}
    /\ excused = {}
    /\ dark = {}
    /\ reads = {}
    /\ faults = 0

\* throttleSlot.
ThrottleSlot(o) == o \div Window

InPass(i) == phase[i] \in {"claimed", "owing"}

Fault == faults < MaxFaults /\ faults' = faults + 1

\* schedule(): a new row.  Calling it again leaves created_on alone.
Schedule ==
    /\ created = Never /\ now \in CreateTimes
    /\ created' = now
    /\ UNCHANGED <<schedule, now, cronOn, passVars, filed, ghostVars, faults>>

-----------------------------------------------------------------------------
(* Instances and their claims. *)

\* start() attempts a pass at once.
Start(i) ==
    /\ phase[i] = "down"
    /\ phase' = [phase EXCEPT ![i] = "up"]
    /\ timer' = [timer EXCEPT ![i] = now]
    /\ UNCHANGED <<schedule, created, now, cronOn, prior, owed, filed, ghostVars, faults>>

Stop(i) ==
    /\ phase[i] = "up"
    /\ phase' = [phase EXCEPT ![i] = "down"]
    /\ timer' = [timer EXCEPT ![i] = 0]
    /\ Fault
    /\ UNCHANGED <<schedule, created, now, cronOn, prior, owed, filed, ghostVars>>

Elapsed == now - cronOn

\* trySetTimestamp: the row is an interval old, or nobody has stamped it.
ClaimGoesThrough == cronOn = Never \/ Elapsed >= Interval

\* Mutant: a loser waits an interval from its own failure.
OwnInterval == Interval

\* claimRetryDelay: until the row it lost to comes due, plus a beat.
ClaimRetryDelay == (Interval - Elapsed) + Beat

\* onCron: the attempt stamps the row and anchors the timer to the stamp, or is
\* refused and comes back when the row is due.
OnCron(i) ==
    /\ phase[i] = "up" /\ timer[i] <= now
    /\ IF ClaimGoesThrough
       THEN /\ phase' = [phase EXCEPT ![i] = "claimed"]
            /\ prior' = [prior EXCEPT ![i] = cronOn]
            /\ cronOn' = now
            /\ timer' = [timer EXCEPT ![i] = now + Interval]
       ELSE /\ timer' = [timer EXCEPT ![i] = now + ClaimRetryDelay]
            /\ UNCHANGED <<phase, prior, cronOn>>
    /\ UNCHANGED <<schedule, created, now, owed, filed, ghostVars, faults>>

\* The claim statement fails: the timer is armed again from here.  What only
\* this attempt would have found due is excused.
ClaimFails(i) ==
    /\ phase[i] = "up" /\ timer[i] <= now
    /\ timer' = [timer EXCEPT ![i] = now + Interval]
    /\ excused' = excused \cup {ThrottleSlot(o) : o \in {o \in Occurrences :
                                    o > now - Window /\ o <= now + Interval}}
    /\ Fault
    /\ UNCHANGED <<schedule, created, now, cronOn, phase, prior, owed, filed, dark, reads>>

-----------------------------------------------------------------------------
(* The pass. *)

SetMax(S) == CHOOSE x \in S : \A y \in S : y <= x

\* The last element of S, if there is one.
Latest(S) == IF S = {} THEN {} ELSE {SetMax(S)}

\* readOccurrences: the window (now - Window, now], every occurrence of a rule
\* and the most recent one of a cron expression.
DueOccurrences ==
    LET inWindow == {o \in Occurrences : o > now - Window /\ o <= now}
    IN  IF schedule.kind = "rrule" THEN inWindow ELSE Latest(inWindow)

Later(a, b) == IF a > b THEN a ELSE b

\* Mutant: every occurrence of the gap.
AllMissed(i) ==
    IF schedule.missed = "skip" \/ prior[i] = Never THEN {}
    ELSE {o \in Occurrences : o > Later(prior[i], created) /\ o <= now - Window}

\* Mutant: the gap stops short of its end, which the due window excludes too.
OpenGap(i) ==
    IF schedule.missed = "skip" \/ prior[i] = Never THEN {}
    ELSE Latest({o \in Occurrences : o > Later(prior[i], created) /\ o < now - Window})

\* missedOccurrence: the last one in (lastPass, windowStart], and not before the
\* schedule was written.
MissedOccurrence(i) ==
    IF schedule.missed = "skip" \/ prior[i] = Never THEN {}
    ELSE Latest({o \in Occurrences : o > Later(prior[i], created) /\ o <= now - Window})

\* The slot a job is filed under: the slot of its occurrence.
SlotFor(o) == ThrottleSlot(o)

\* cron(): the schedules are read and judged against one instant.
ReadSchedules(i) ==
    /\ phase[i] = "claimed"
    /\ phase' = [phase EXCEPT ![i] = "owing"]
    /\ owed' = [owed EXCEPT ![i] = IF created = Never THEN {}
                  ELSE {SlotFor(o) : o \in DueOccurrences \cup MissedOccurrence(i)}]
    /\ reads' = reads \cup {now}
    /\ UNCHANGED <<schedule, created, now, cronOn, timer, prior, filed, excused, dark, faults>>

EndPass(i, p) ==
    /\ phase' = [phase EXCEPT ![i] = p]
    /\ owed' = [owed EXCEPT ![i] = {}]
    /\ prior' = [prior EXCEPT ![i] = Never]

\* insert() on the send-it queue: a slot that has a job keeps it.
InsertOwed(i) ==
    /\ phase[i] = "owing"
    /\ filed' = filed \cup owed[i]
    /\ EndPass(i, "up")
    /\ UNCHANGED <<schedule, created, now, cronOn, timer, ghostVars, faults>>

\* A statement of the pass fails, or stop() is called before the insert: what
\* the pass owed is gone, since the stamp has moved.
PassFails(i) ==
    /\ InPass(i)
    /\ excused' = excused \cup {ThrottleSlot(o) : o \in {o \in Occurrences : o <= now}}
    /\ \/ EndPass(i, "up") /\ UNCHANGED timer
       \/ EndPass(i, "down") /\ timer' = [timer EXCEPT ![i] = 0]
    /\ Fault
    /\ UNCHANGED <<schedule, created, now, cronOn, filed, dark, reads>>

-----------------------------------------------------------------------------
Tick ==
    /\ now < MaxTime
    /\ \A i \in Instances :
        /\ phase[i] = "up" => timer[i] > now
        /\ InPass(i) => now < cronOn + Delay
    /\ now' = now + 1
    /\ dark' = IF \A i \in Instances : phase[i] = "down" THEN dark \cup {now} ELSE dark
    /\ UNCHANGED <<schedule, created, cronOn, passVars, filed, excused, reads, faults>>

InstanceStep(i) ==
    \/ Start(i) \/ Stop(i) \/ OnCron(i) \/ ClaimFails(i)
    \/ ReadSchedules(i) \/ InsertOwed(i) \/ PassFails(i)

Next == Schedule \/ Tick \/ \E i \in Instances : InstanceStep(i)

Spec == Init /\ [][Next]_vars

-----------------------------------------------------------------------------
(* Properties. *)

OfSlot(s) == {o \in Occurrences : ThrottleSlot(o) = s}
Slots == {ThrottleSlot(o) : o \in Occurrences}

\* Somebody ran, and the schedule was stored, while the slot's first occurrence
\* was due.
Lit(s) == LET o == CHOOSE o \in OfSlot(s) : \A p \in OfSlot(s) : o <= p
          IN  /\ created # Never /\ created < o
              /\ o + Window + Delay < now
              /\ o..(o + Window - 1) \cap dark = {}

\* No pass looked while any occurrence of the slot was due.
Missed(s) == \A o \in OfSlot(s) : o..(o + Window - 1) \cap reads = {}

\* docs/api/scheduling.md: "a deployment that keeps running has no gap".  A slot
\* of a stored schedule during which some instance ran has its job once the due
\* window is over, whichever instances took the passes, lost the claim, started
\* or stopped meanwhile (onCron, claimRetryDelay, readOccurrences).
NoOccurrenceLost == \A s \in Slots \ excused : Lit(s) => s \in filed

\* `missed: once' (missedOccurrence): whenever no pass is running, the last
\* occurrence up to the last pass has its job, or a later one has, however long
\* nobody ran a pass.
CaughtUp ==
    schedule.missed = "once" /\ created # Never /\ reads # {}
        /\ (\A i \in Instances : ~InPass(i))
    => \A o \in Latest({x \in Occurrences : x <= cronOn /\ x > created /\ \E r \in reads : x > r}) :
            ThrottleSlot(o) \notin excused
                => \E p \in Occurrences : p >= o /\ ThrottleSlot(p) \in filed

\* docs/api/scheduling.md: "One job, for the most recent missed occurrence,
\* however many were missed".  Of the slots that went by with no pass
\* looking, two have jobs only if a pass was made between them, and under `skip'
\* none has (missedOccurrence, cron).
OneJobPerGap ==
    \A s \in filed : Missed(s) =>
        /\ schedule.missed = "once"
        /\ \A t \in filed : t > s /\ Missed(t)
                => \E r \in reads : s * Window < r /\ r < (t + 1) * Window

\* What the passes file for a schedule, through gaps and hand-overs: everything that
\* fell due while somebody ran, the last of what was missed, and nothing twice.
FilesWhatIsDue == NoOccurrenceLost /\ CaughtUp /\ OneJobPerGap
================================================================================
