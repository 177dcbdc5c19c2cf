----------------------------- MODULE Supervise_proofs -----------------------------
(* Proofs about Supervise, for any number of instances, queues and late jobs, any *)
(* size of the expiry batch and every setup.                                      *)
EXTENDS Supervise, FiniteSetTheorems, TLAPS

-----------------------------------------------------------------------------
(* The inductive invariant *)

\* What the pass r still owes of L: a job it saw late when it claimed the queue is late
\* only before the sweep that fails it, and in a queue the pass claimed.
Owing(r, L) ==
    \A j \in r.owed \intersect L :
        /\ QueueOf[j] \in r.mine
        /\ r.pc \in {"stats", "aggregate", "timeouts", "heartbeats"}
        /\ r.pc = "heartbeats" => SweepOf[j] = "heartbeats"

\* The queues i has still to sweep carry its claim in M, unless the interval ran out.
Holding(i, r, M) == \A q \in r.todo \ r.lapsed : M[q] = i

IInv ==
    /\ TypeOK
    /\ \A i \in Instances : Owing(inst[i], late) /\ Holding(i, inst[i], maintain)

-----------------------------------------------------------------------------
(* Types *)

\* A new process's pass, and a pass that is over, carry nothing.
LEMMA FreshPass ==
    /\ Fresh \in Passes /\ [Fresh EXCEPT !.life = "stopped"] \in Passes
    /\ \A r \in Passes : Over(r) \in Passes
BY DEF Fresh, Passes, Over

\* A configuration's fields.
LEMMA SetupTypes ==
    ASSUME TypeOK
    PROVE  /\ setup.queues \subseteq Queues /\ setup.monitorVacuum \in BOOLEAN
           /\ setup.calls \subseteq [scope : SUBSET Queues, reindex : {"config", "off", "force"}]
           /\ setup.maxFaults \in Nat /\ setup.maxCalls \in Nat
BY SuperviseAssumption DEF TypeOK

\* The initial states are well typed, and no pass runs.
LEMMA InitIInv == Init => IInv
<1> SUFFICES ASSUME Init PROVE IInv
    OBVIOUS
<1>1. setup.queues \subseteq Queues /\ setup.maxFaults \in Nat /\ setup.maxCalls \in Nat
      BY SuperviseAssumption DEF Init
<1>2. TypeOK
      <2>1. setup \in Setups /\ maintain \in [Queues -> Instances \union {Due, None}] /\ late \subseteq Jobs
            BY SuperviseAssumption DEF Init
      <2>2. monitorDue \subseteq Queues /\ unswept \subseteq Queues
            BY <1>1 DEF Init
      <2>3. inst \in [Instances -> Passes]
            BY FreshPass DEF Init
      <2>4. statsLock \in Instances \union {None} /\ backoff \in BOOLEAN
            BY DEF Init
      <2>5. reindexOn \in BOOLEAN /\ bloated \in BOOLEAN
            <3>1. CASE "reindex" \in setup.intervals
                  BY <3>1 DEF Init
            <3>2. CASE "reindex" \notin setup.intervals
                  BY <3>2 DEF Init
            <3> QED BY <3>1, <3>2
      <2>6. faults \in 0 .. setup.maxFaults /\ calls \in 0 .. setup.maxCalls
            BY <1>1 DEF Init
      <2> QED BY <2>1, <2>2, <2>3, <2>4, <2>5, <2>6 DEF TypeOK
<1>3. \A i \in Instances : Owing(inst[i], late) /\ Holding(i, inst[i], maintain)
      BY DEF Init, Owing, Holding, Fresh
<1> QED BY <1>2, <1>3 DEF IInv

-----------------------------------------------------------------------------
(* Steps *)

\* One instance's pass moves: every other pass and claim stays.
Alone(i) ==
    /\ \A k \in Instances \ {i} : inst'[k] = inst[k]
    /\ \A q \in Queues : maintain[q] \in Instances \ {i} => maintain'[q] = maintain[q]
    /\ late' \subseteq late

\* What such a step must show.
LEMMA AloneKeeps ==
    ASSUME IInv, NEW i \in Instances, Alone(i), TypeOK',
           Owing(inst'[i], late'), Holding(i, inst'[i], maintain')
    PROVE  IInv'
<1>1. ASSUME NEW k \in Instances \ {i}
      PROVE  Owing(inst'[k], late') /\ Holding(k, inst'[k], maintain')
      <2>1. Owing(inst[k], late) /\ Holding(k, inst[k], maintain) /\ inst'[k] = inst[k]
            BY <1>1 DEF IInv, Alone
      <2>2. Owing(inst'[k], late')
            BY <2>1 DEF Alone, Owing
      <2>3. inst[k].todo \subseteq Queues
            BY <1>1 DEF IInv, TypeOK, Passes
      <2> QED BY <1>1, <2>1, <2>2, <2>3 DEF Alone, Holding
<1>2. \A k \in Instances : Owing(inst'[k], late') /\ Holding(k, inst'[k], maintain')
      BY <1>1
<1> QED BY <1>2 DEF IInv

\* The batch a sweep fails is all that is over, unless it is full.
LEMMA BatchCovers ==
    ASSUME NEW over, IsFiniteSet(over),
           NEW S \in kSubset(IF Cardinality(over) < ExpiryBatch THEN Cardinality(over) ELSE ExpiryBatch, over),
           Cardinality(S) # ExpiryBatch
    PROVE  S = over
<1>1. S \in SUBSET over
      BY DEF kSubset
<1>2. Cardinality(S) = Cardinality(over)
      BY DEF kSubset
<1> QED BY <1>1, <1>2, FS_Subset

\* A pass that is over owes nothing and holds nothing.
LEMMA EndedKeeps ==
    ASSUME IInv, NEW i \in Instances, Alone(i), TypeOK',
           inst'[i].owed = {}, inst'[i].todo = {}
    PROVE  IInv'
BY AloneKeeps DEF Owing, Holding

\* Nor does a step that leaves the pass's cargo alone matter, unless it skips a sweep.
LEMMA CalmKeeps ==
    ASSUME IInv, NEW i \in Instances, Alone(i), TypeOK', maintain' = maintain,
           inst'[i].owed = inst[i].owed, inst'[i].mine = inst[i].mine,
           inst'[i].todo = inst[i].todo, inst'[i].lapsed = inst[i].lapsed,
           \/ inst'[i].pc = inst[i].pc
           \/ inst[i].pc \notin {"stats", "aggregate", "timeouts", "heartbeats"}
           \/ inst'[i].pc \in {"stats", "aggregate", "timeouts"}
    PROVE  IInv'
<1>1. Owing(inst[i], late) /\ Holding(i, inst[i], maintain)
      BY DEF IInv
<1>2. Owing(inst'[i], late')
      BY <1>1 DEF Owing, Alone
<1>3. Holding(i, inst'[i], maintain')
      BY <1>1 DEF Holding
<1> QED BY <1>2, <1>3, AloneKeeps

-----------------------------------------------------------------------------
(* The actions of one instance *)

\* The shape of an action of one instance.
LEMMA BecomeAlone ==
    ASSUME TypeOK, NEW i \in Instances, NEW r \in Passes, inst' = [inst EXCEPT ![i] = r]
    PROVE  /\ inst' \in [Instances -> Passes] /\ inst'[i] = r
           /\ \A k \in Instances \ {i} : inst'[k] = inst[k]
           /\ maintain' = maintain /\ late' \subseteq late => Alone(i)
BY DEF TypeOK, Alone

\* The timer, the calls of supervise(), and the life of the instance.
LEMMA LifeStep ==
    ASSUME IInv, NEW i \in Instances,
           OnSupervise(i) \/ Supervise(i) \/ SuperviseGoes(i) \/ Stop(i) \/ StopReturns(i) \/ Start(i)
    PROVE  IInv'
<1>0. TypeOK /\ inst[i] \in Passes /\ setup.queues \subseteq Queues /\ setup.maxFaults \in Nat /\ setup.maxCalls \in Nat
      BY SetupTypes DEF IInv, TypeOK
<1>1. /\ inst' \in [Instances -> Passes] /\ Alone(i)
      /\ inst'[i].owed = inst[i].owed /\ inst'[i].mine = inst[i].mine
      /\ inst'[i].todo = inst[i].todo /\ inst'[i].lapsed = inst[i].lapsed
      /\ inst'[i].pc = inst[i].pc \/ inst[i].pc = "idle"
      /\ UNCHANGED shared
      <2>1. CASE OnSupervise(i)
            BY <1>0, <2>1 DEF OnSupervise, At, Become, Passes, TypeOK, Alone, shared
      <2>2. CASE Supervise(i)
            BY <1>0, <2>2 DEF Supervise, Become, Passes, TypeOK, Alone, shared
      <2>3. CASE SuperviseGoes(i)
            <3>1. CASE inst[i].life # "up"
                  <4>1. inst' = [inst EXCEPT ![i] = [inst[i] EXCEPT !.waiting = FALSE]] /\ UNCHANGED shared
                        BY <2>3, <3>1 DEF SuperviseGoes, Become
                  <4> QED BY <1>0, <4>1 DEF Passes, TypeOK, Alone, shared
            <3>2. CASE inst[i].life = "up"
                  <4>1. PICK c \in setup.calls :
                             inst' = [inst EXCEPT ![i] = [inst[i] EXCEPT !.waiting = FALSE, !.pc = "monitor",
                                          !.scope = c.scope, !.reindex = c.reindex]]
                        BY <2>3, <3>2 DEF SuperviseGoes, Become
                  <4>2. c.scope \subseteq Queues /\ c.reindex \in {"config", "off", "force"}
                        BY <1>0, SetupTypes
                  <4> QED BY <1>0, <2>3, <4>1, <4>2 DEF SuperviseGoes, Passes, TypeOK, Alone, shared
            <3> QED BY <3>1, <3>2
      <2>4. CASE Stop(i) \/ StopReturns(i) \/ Start(i)
            BY <1>0, <2>4 DEF Stop, StopReturns, Start, Become, Passes, TypeOK, Alone, shared
      <2> QED BY <2>1, <2>2, <2>3, <2>4
<1>2. faults' \in 0 .. setup.maxFaults /\ calls' \in 0 .. setup.maxCalls
      <2>1. /\ faults' = faults \/ (faults < setup.maxFaults /\ faults' = faults + 1)
            /\ calls' = calls \/ (calls < setup.maxCalls /\ calls' = calls + 1)
            BY DEF OnSupervise, Supervise, SuperviseGoes, Stop, StopReturns, Start
      <2> QED BY <1>0, <2>1 DEF TypeOK
<1>3. TypeOK'
      BY <1>0, <1>1, <1>2 DEF TypeOK, shared
<1> QED BY <1>1, <1>3, CalmKeeps DEF shared

\* The monitor claim: what is late in the queues it claims is what the pass owes.
LEMMA MonitorStep ==
    ASSUME IInv, NEW i \in Instances, Monitor(i)
    PROVE  IInv'
<1>0. TypeOK /\ inst[i] \in Passes
      BY DEF IInv, TypeOK
<1> DEFINE due == inst[i].scope \intersect monitorDue
<1>1. /\ inst' = [inst EXCEPT ![i] = [inst[i] EXCEPT !.mine = due, !.refresh = ~backoff,
                                 !.owed = {j \in late : QueueOf[j] \in due},
                                 !.pc = IF due = {} THEN "maintain" ELSE "stats"]]
      /\ monitorDue' = monitorDue \ due
      /\ UNCHANGED <<setup, maintain, late, statsLock, backoff, reindexOn, bloated, unswept, faults, calls>>
      /\ inst[i].pc = "monitor"
      BY DEF Monitor, Become, At
<1>2. due \subseteq Queues /\ {j \in late : QueueOf[j] \in due} \subseteq Jobs /\ (~backoff) \in BOOLEAN
      BY <1>0 DEF TypeOK
<1> HIDE DEF due
<1>3. inst' \in [Instances -> Passes] /\ Alone(i)
      BY <1>0, <1>1, <1>2 DEF Passes, TypeOK, Alone
<1>4. TypeOK'
      BY <1>0, <1>1, <1>3 DEF TypeOK
<1>5. /\ inst'[i].owed = {j \in late : QueueOf[j] \in due} /\ inst'[i].mine = due
      /\ inst'[i].todo = inst[i].todo /\ inst'[i].lapsed = inst[i].lapsed
      /\ inst'[i].pc = IF due = {} THEN "maintain" ELSE "stats"
      BY <1>0, <1>1 DEF TypeOK, Passes
<1>6. Owing(inst'[i], late')
      BY <1>5 DEF Owing
<1>7. Holding(i, inst'[i], maintain')
      BY <1>1, <1>5 DEF IInv, Holding
<1> QED BY <1>3, <1>4, <1>6, <1>7, AloneKeeps

\* The aggregate.
LEMMA StatsStep ==
    ASSUME IInv, NEW i \in Instances, CacheStats(i) \/ AggregateEnds(i)
    PROVE  IInv'
<1>0. TypeOK /\ inst[i] \in Passes
      BY DEF IInv, TypeOK
<1>1. /\ inst' \in [Instances -> Passes] /\ Alone(i)
      /\ inst'[i].owed = inst[i].owed /\ inst'[i].mine = inst[i].mine
      /\ inst'[i].todo = inst[i].todo /\ inst'[i].lapsed = inst[i].lapsed
      /\ inst'[i].pc \in {"aggregate", "timeouts"}
      /\ monitorDue' \subseteq Queues /\ statsLock' \in Instances \union {None}
      /\ UNCHANGED <<setup, maintain, late, backoff, reindexOn, bloated, unswept, faults, calls>>
      <2>1. CASE CacheStats(i)
            <3>1. PICK s \in {"aggregate", "timeouts"} : inst' = [inst EXCEPT ![i] = [inst[i] EXCEPT !.pc = s]]
                  BY <2>1 DEF CacheStats, Become
            <3>2. /\ monitorDue' \subseteq Queues /\ statsLock' \in Instances \union {None}
                  /\ UNCHANGED <<setup, maintain, late, backoff, reindexOn, bloated, unswept, faults, calls>>
                  BY <1>0, <2>1 DEF CacheStats, TypeOK, Passes
            <3> QED BY <1>0, <3>1, <3>2 DEF Passes, TypeOK, Alone
      <2>2. CASE AggregateEnds(i)
            <3>1. PICK slow \in BOOLEAN :
                       inst' = [inst EXCEPT ![i] = [inst[i] EXCEPT !.pc = "timeouts", !.elapsed = @ \/ slow]]
                  BY <2>2 DEF AggregateEnds, Become
            <3>2. (inst[i].elapsed \/ slow) \in BOOLEAN
                  BY <1>0 DEF Passes
            <3>3. /\ statsLock' = None
                  /\ UNCHANGED <<setup, monitorDue, maintain, late, backoff, reindexOn, bloated, unswept, faults, calls>>
                  BY <2>2 DEF AggregateEnds
            <3> QED BY <1>0, <3>1, <3>2, <3>3 DEF Passes, TypeOK, Alone
      <2> QED BY <2>1, <2>2
<1>2. TypeOK'
      BY <1>0, <1>1 DEF TypeOK
<1> QED BY <1>1, <1>2, CalmKeeps

\* A batch of a sweep: only the batch that was not full ends it, and it left nothing.
LEMMA ExpireStep ==
    ASSUME IInv, NEW i \in Instances, NEW s \in Sweeps, Expire(i, s)
    PROVE  IInv'
<1>0. TypeOK /\ inst[i] \in Passes /\ inst[i].pc = s
      BY DEF IInv, TypeOK, Expire, At
<1> DEFINE over == {j \in late : QueueOf[j] \in inst[i].mine /\ SweepOf[j] = s}
<1>1. PICK S \in kSubset(IF Cardinality(over) < ExpiryBatch THEN Cardinality(over) ELSE ExpiryBatch, over) :
          /\ late' = late \ S
          /\ inst' = [inst EXCEPT ![i] = [inst[i] EXCEPT !.pc =
                        IF Cardinality(S) = ExpiryBatch THEN s
                        ELSE IF s = "timeouts" THEN "heartbeats" ELSE "maintain"]]
      BY DEF Expire, Become
<1>2. UNCHANGED <<setup, monitorDue, maintain, statsLock, backoff, reindexOn, bloated, unswept, faults, calls>>
      BY DEF Expire
<1>3. IsFiniteSet(over)
      <2>1. over \in SUBSET Jobs
            BY <1>0 DEF TypeOK
      <2> QED BY <2>1, FS_Subset, SuperviseAssumption
<1>4. inst' \in [Instances -> Passes] /\ Alone(i)
      BY <1>0, <1>1, <1>2 DEF Passes, TypeOK, Alone, Sweeps
<1>5. TypeOK'
      BY <1>0, <1>1, <1>2, <1>4 DEF TypeOK
<1>6. /\ inst'[i].owed = inst[i].owed /\ inst'[i].mine = inst[i].mine
      /\ inst'[i].todo = inst[i].todo /\ inst'[i].lapsed = inst[i].lapsed
      /\ inst'[i].pc = IF Cardinality(S) = ExpiryBatch THEN s
                        ELSE IF s = "timeouts" THEN "heartbeats" ELSE "maintain"
      BY <1>0, <1>1 DEF TypeOK, Passes
<1>7. Holding(i, inst'[i], maintain')
      BY <1>2, <1>6 DEF IInv, Holding
<1>8. Owing(inst'[i], late')
      <2>1. CASE Cardinality(S) = ExpiryBatch
            BY <1>0, <1>1, <1>6, <2>1 DEF IInv, Owing
      <2>2. CASE Cardinality(S) # ExpiryBatch
            <3>1. S = over
                  BY <1>1, <1>3, <2>2, BatchCovers
            <3>2. ASSUME NEW j \in inst[i].owed \intersect late, j \notin over
                  PROVE  s = "timeouts" /\ SweepOf[j] = "heartbeats" /\ QueueOf[j] \in inst[i].mine
                  <4>1. QueueOf[j] \in inst[i].mine /\ (inst[i].pc = "heartbeats" => SweepOf[j] = "heartbeats")
                        BY DEF IInv, Owing
                  <4>2. SweepOf[j] \in Sweeps /\ SweepOf[j] # s
                        BY <1>0, <3>2, <4>1, SuperviseAssumption DEF TypeOK
                  <4> QED BY <1>0, <4>1, <4>2 DEF Sweeps
            <3> HIDE DEF over
            <3> QED BY <1>1, <1>6, <2>2, <3>1, <3>2 DEF Owing
      <2> QED BY <2>1, <2>2
<1> QED BY <1>4, <1>5, <1>7, <1>8, AloneKeeps

\* The maintenance claim.
LEMMA MaintainStep ==
    ASSUME IInv, NEW i \in Instances, Maintain(i)
    PROVE  IInv'
<1>0. TypeOK /\ inst[i] \in Passes /\ inst[i].pc = "maintain"
      BY DEF IInv, TypeOK, Maintain, At
<1> DEFINE due == {q \in inst[i].scope : maintain[q] = Due}
<1>1. /\ maintain' = [q \in Queues |-> IF q \in due THEN i ELSE maintain[q]]
      /\ inst' = [inst EXCEPT ![i] = [inst[i] EXCEPT !.todo = due,
                                      !.pc = IF due = {} THEN "tail" ELSE "walk"]]
      /\ UNCHANGED <<setup, monitorDue, late, statsLock, backoff, reindexOn, bloated, unswept, faults, calls>>
      BY DEF Maintain, Become
<1>2. due \subseteq Queues /\ \A q \in due : maintain[q] = Due
      BY <1>0 DEF Passes
<1> HIDE DEF due
<1>3. inst' \in [Instances -> Passes]
      BY <1>0, <1>1, <1>2 DEF Passes, TypeOK
<1>4. maintain' \in [Queues -> Instances \union {Due, None}]
      BY <1>0, <1>1 DEF TypeOK
<1>5. TypeOK'
      BY <1>0, <1>1, <1>3, <1>4 DEF TypeOK
<1>6. \A q \in Queues : maintain[q] \in Instances \ {i} => maintain'[q] = maintain[q]
      BY <1>1, <1>2, SuperviseAssumption
<1>7. Alone(i)
      BY <1>0, <1>1, <1>6 DEF TypeOK, Alone
<1>8. /\ inst'[i].owed = inst[i].owed /\ inst'[i].mine = inst[i].mine /\ inst'[i].todo = due
      BY <1>0, <1>1 DEF TypeOK, Passes
<1>9. Owing(inst'[i], late')
      BY <1>0, <1>1, <1>8 DEF IInv, Owing
<1>10. Holding(i, inst'[i], maintain')
      BY <1>1, <1>2, <1>8 DEF Holding
<1> QED BY <1>5, <1>7, <1>9, <1>10, AloneKeeps

\* The walk over the claimed queues, and what ends a pass.
LEMMA WalkStep ==
    ASSUME IInv, NEW i \in Instances, NEW q \in Queues, MaintainQueue(i, q)
    PROVE  IInv'
<1>0. TypeOK /\ inst[i] \in Passes /\ inst[i].pc = "walk"
      BY DEF IInv, TypeOK, MaintainQueue, At
<1>1. /\ inst' = [inst EXCEPT ![i] = [inst[i] EXCEPT !.todo = @ \ {q}, !.lapsed = @ \ {q},
                                 !.pc = IF inst[i].todo = {q} THEN "tail" ELSE "walk"]]
      /\ unswept' = unswept \ {q}
      /\ UNCHANGED <<setup, monitorDue, maintain, late, statsLock, backoff, reindexOn, bloated, faults, calls>>
      BY DEF MaintainQueue, Become
<1>2. inst' \in [Instances -> Passes] /\ Alone(i)
      BY <1>0, <1>1 DEF Passes, TypeOK, Alone
<1>3. TypeOK'
      BY <1>0, <1>1, <1>2 DEF TypeOK
<1>4. /\ inst'[i].owed = inst[i].owed /\ inst'[i].mine = inst[i].mine
      /\ inst'[i].todo = inst[i].todo \ {q} /\ inst'[i].lapsed = inst[i].lapsed \ {q}
      BY <1>0, <1>1 DEF TypeOK, Passes
<1>5. Owing(inst'[i], late')
      BY <1>0, <1>1, <1>4 DEF IInv, Owing
<1>6. Holding(i, inst'[i], maintain')
      BY <1>1, <1>4 DEF IInv, Holding
<1> QED BY <1>2, <1>3, <1>5, <1>6, AloneKeeps

\* The hand-back touches only the claims that are still this pass's.
LEMMA ReleaseStep ==
    ASSUME IInv, NEW i \in Instances, Release(i)
    PROVE  IInv'
<1>0. TypeOK /\ inst[i] \in Passes
      BY DEF IInv, TypeOK
<1>1. /\ maintain' = [q \in Queues |-> IF q \in inst[i].todo /\ maintain[q] = i THEN Due ELSE maintain[q]]
      /\ inst' = [inst EXCEPT ![i] = Over(inst[i])]
      /\ UNCHANGED <<setup, monitorDue, late, statsLock, backoff, reindexOn, bloated, unswept, faults, calls>>
      BY DEF Release, Become
<1>2. Over(inst[i]) \in Passes /\ Over(inst[i]).owed = {} /\ Over(inst[i]).todo = {}
      BY <1>0 DEF Over, Passes
<1>3. inst' \in [Instances -> Passes] /\ inst'[i].owed = {} /\ inst'[i].todo = {}
      BY <1>0, <1>1, <1>2 DEF TypeOK
<1>4. Alone(i)
      BY <1>0, <1>1 DEF TypeOK, Alone
<1>5. TypeOK'
      BY <1>0, <1>1, <1>3 DEF TypeOK
<1> QED BY <1>3, <1>4, <1>5, EndedKeeps

\* The rest of the pass, its stop and its failure.
LEMMA TailStep ==
    ASSUME IInv, NEW i \in Instances,
           Tail(i) \/ Reindex(i) \/ Rebuild(i) \/ SeesStop(i) \/ PassFails(i) \/ Crash(i)
    PROVE  IInv'
<1>0. TypeOK /\ inst[i] \in Passes /\ setup.monitorVacuum \in BOOLEAN /\ setup.maxFaults \in Nat
      BY SetupTypes DEF IInv, TypeOK
<1>1. \A r \in Passes : Over(r) \in Passes /\ Over(r).owed = {} /\ Over(r).todo = {}
      BY DEF Over, Passes
<1>2. PICK r : inst' = [inst EXCEPT ![i] = r]
      BY DEF Tail, Reindex, Rebuild, SeesStop, PassFails, Crash, Become
<1>3. /\ r \in Passes
      /\ \/ r.owed = {} /\ r.todo = {}
         \/ /\ r.owed = inst[i].owed /\ r.mine = inst[i].mine
            /\ r.todo = inst[i].todo /\ r.lapsed = inst[i].lapsed
            /\ inst[i].pc \notin {"stats", "aggregate", "timeouts", "heartbeats"}
      <2>0. r = inst'[i]
            BY <1>0, <1>2 DEF TypeOK
      <2>1. CASE Tail(i)
            <3>1. r = [inst[i] EXCEPT !.elapsed = FALSE, !.pc = "reindex"] /\ inst[i].pc = "tail"
                  BY <1>0, <2>0, <2>1 DEF Tail, Become, TypeOK, At
            <3> QED BY <1>0, <3>1 DEF Passes
      <2>2. CASE Reindex(i)
            <3>1. \/ r = [inst[i] EXCEPT !.pc = "rebuild"]
                  \/ r = Over(inst[i])
                  BY <1>0, <2>0, <2>2 DEF Reindex, Become, TypeOK
            <3>2. inst[i].pc = "reindex"
                  BY <2>2 DEF Reindex, At
            <3>3. CASE r = [inst[i] EXCEPT !.pc = "rebuild"]
                  BY <1>0, <3>2, <3>3 DEF Passes
            <3> QED BY <1>0, <1>1, <3>1, <3>3
      <2>3. CASE Rebuild(i)
            <3>1. r = [Over(inst[i]) EXCEPT !.unavailable = i \in Wrapped]
                  BY <1>0, <2>0, <2>3 DEF Rebuild, Become, TypeOK
            <3>2. (i \in Wrapped) \in BOOLEAN
                  OBVIOUS
            <3>3. Over(inst[i]) \in Passes /\ Over(inst[i]).owed = {} /\ Over(inst[i]).todo = {}
                  BY <1>0, <1>1
            <3> QED BY <3>1, <3>2, <3>3 DEF Passes
      <2>4. CASE SeesStop(i) \/ PassFails(i)
            <3>1. \/ r = [inst[i] EXCEPT !.pc = "release"] /\ inst[i].pc = "walk"
                  \/ r = Over(inst[i])
                  BY <1>0, <2>0, <2>4 DEF SeesStop, PassFails, Become, TypeOK
            <3>2. CASE r = [inst[i] EXCEPT !.pc = "release"] /\ inst[i].pc = "walk"
                  BY <1>0, <3>2 DEF Passes
            <3> QED BY <1>0, <1>1, <3>1, <3>2
      <2>5. CASE Crash(i)
            <3>1. r = [Fresh EXCEPT !.life = "stopped"]
                  BY <1>0, <2>0, <2>5 DEF Crash, Become, TypeOK
            <3> QED BY <3>1, FreshPass DEF Fresh
      <2> QED BY <2>1, <2>2, <2>3, <2>4, <2>5
<1>4. /\ UNCHANGED <<setup, monitorDue, maintain, late, unswept, calls>>
      /\ statsLock' \in Instances \union {None} /\ faults' \in 0 .. setup.maxFaults
      BY <1>0 DEF Tail, Reindex, Rebuild, SeesStop, PassFails, Crash, shared, TypeOK
<1>5. backoff' \in BOOLEAN /\ reindexOn' \in BOOLEAN /\ bloated' \in BOOLEAN
      <2>1. backoff \in BOOLEAN /\ reindexOn \in BOOLEAN /\ bloated \in BOOLEAN
            BY <1>0 DEF TypeOK
      <2>2. \/ UNCHANGED backoff \/ backoff' \in BOOLEAN
            BY <1>0 DEF Tail, Reindex, Rebuild, SeesStop, PassFails, Crash, shared
      <2>3. \/ UNCHANGED reindexOn \/ reindexOn' \in BOOLEAN
            BY DEF Tail, Reindex, Rebuild, SeesStop, PassFails, Crash, shared
      <2>4. \/ UNCHANGED bloated \/ bloated' \in BOOLEAN
            BY DEF Tail, Reindex, Rebuild, SeesStop, PassFails, Crash, shared
      <2> QED BY <2>1, <2>2, <2>3, <2>4
<1>6. inst' \in [Instances -> Passes] /\ Alone(i) /\ inst'[i] = r
      BY <1>0, <1>2, <1>3, <1>4 DEF TypeOK, Alone
<1>7. TypeOK'
      BY <1>0, <1>4, <1>5, <1>6 DEF TypeOK
<1> QED BY <1>3, <1>4, <1>6, <1>7, EndedKeeps, CalmKeeps

-----------------------------------------------------------------------------
(* Time, and the jobs *)

\* An interval that ends takes the claim from the pass that has it, and marks the queue.
LEMMA ElapseStep ==
    ASSUME IInv, NEW q \in Queues, ClaimElapses(q)
    PROVE  IInv'
<1>0. TypeOK
      BY DEF IInv
<1>1. UNCHANGED <<setup, late, statsLock, backoff, reindexOn, bloated, faults, calls>>
      BY DEF ClaimElapses
<1>2. CASE UNCHANGED <<maintain, inst, unswept>> /\ monitorDue' = monitorDue \union {q}
      <2>1. TypeOK'
            BY <1>0, <1>1, <1>2 DEF TypeOK
      <2> QED BY <1>1, <1>2, <2>1 DEF IInv
<1>3. CASE /\ maintain[q] \in Instances /\ maintain' = [maintain EXCEPT ![q] = Due]
           /\ inst' = [i \in Instances |-> IF i = maintain[q] /\ q \in inst[i].todo
                                       THEN [inst[i] EXCEPT !.lapsed = @ \union {q}] ELSE inst[i]]
           /\ unswept' = unswept \union {q} /\ UNCHANGED monitorDue
      <2>1. ASSUME NEW i \in Instances
            PROVE  /\ inst'[i] \in Passes
                   /\ inst'[i].owed = inst[i].owed /\ inst'[i].mine = inst[i].mine
                   /\ inst'[i].pc = inst[i].pc /\ inst'[i].todo = inst[i].todo
                   /\ inst[i].lapsed \subseteq inst'[i].lapsed
                   /\ i = maintain[q] /\ q \in inst[i].todo => q \in inst'[i].lapsed
            BY <1>0, <1>3 DEF TypeOK, Passes
      <2>2. inst' \in [Instances -> Passes] /\ maintain' \in [Queues -> Instances \union {Due, None}]
            BY <1>0, <1>3, <2>1 DEF TypeOK
      <2>3. TypeOK'
            BY <1>0, <1>1, <1>3, <2>2 DEF TypeOK
      <2>4. ASSUME NEW i \in Instances
            PROVE  Owing(inst'[i], late') /\ Holding(i, inst'[i], maintain')
            <3>1. Owing(inst'[i], late')
                  BY <1>1, <2>1 DEF IInv, Owing
            <3>2. ASSUME NEW p \in inst'[i].todo \ inst'[i].lapsed
                  PROVE  maintain'[p] = i
                  <4>1. p \in inst[i].todo \ inst[i].lapsed /\ inst[i].todo \subseteq Queues
                        BY <1>0, <2>1 DEF TypeOK, Passes
                  <4>2. maintain[p] = i
                        BY <4>1 DEF IInv, Holding
                  <4>3. p # q
                        BY <2>1, <3>2, <4>1, <4>2
                  <4> QED BY <1>0, <1>3, <4>1, <4>2, <4>3 DEF TypeOK
            <3> QED BY <3>1, <3>2 DEF Holding
      <2> QED BY <2>3, <2>4 DEF IInv
<1> QED BY <1>2, <1>3 DEF ClaimElapses, Elapse

\* A job that comes to be late is nobody's debt yet.
LEMMA OverdueStep ==
    ASSUME IInv, NEW j \in Jobs, Overdue(j)
    PROVE  IInv'
<1>0. TypeOK /\ setup.maxFaults \in Nat
      BY SetupTypes DEF IInv
<1>1. /\ late' = late \union {j} /\ faults < setup.maxFaults /\ faults' = faults + 1
      /\ inst' = [i \in Instances |-> [inst[i] EXCEPT !.owed = @ \ {j}]]
      /\ UNCHANGED <<setup, monitorDue, maintain, statsLock, backoff, reindexOn, bloated, unswept, calls>>
      BY DEF Overdue
<1>2. ASSUME NEW i \in Instances
      PROVE  /\ inst'[i] \in Passes
             /\ inst'[i].owed = inst[i].owed \ {j} /\ inst'[i].mine = inst[i].mine
             /\ inst'[i].pc = inst[i].pc /\ inst'[i].todo = inst[i].todo /\ inst'[i].lapsed = inst[i].lapsed
      BY <1>0, <1>1 DEF TypeOK, Passes
<1>3. inst' \in [Instances -> Passes]
      BY <1>1, <1>2
<1>4. TypeOK'
      BY <1>0, <1>1, <1>3 DEF TypeOK
<1>5. \A i \in Instances : Owing(inst'[i], late') /\ Holding(i, inst'[i], maintain')
      BY <1>1, <1>2 DEF IInv, Owing, Holding
<1> QED BY <1>4, <1>5 DEF IInv

\* Every step keeps the invariant.
LEMMA NextIInv == IInv /\ [Next]_vars => IInv'
<1> SUFFICES ASSUME IInv, [Next]_vars PROVE IInv'
    OBVIOUS
<1>1. CASE UNCHANGED vars
      BY <1>1 DEF vars, shared, IInv, TypeOK
<1>2. CASE DeadlinePasses
      <2>1. backoff' \in BOOLEAN /\ reindexOn' \in BOOLEAN
            BY <1>2 DEF DeadlinePasses, Deadline, IInv, TypeOK
      <2>2. UNCHANGED <<setup, monitorDue, maintain, late, statsLock, bloated, unswept, inst, faults, calls>>
            BY <1>2 DEF DeadlinePasses
      <2>3. TypeOK'
            BY <2>1, <2>2 DEF IInv, TypeOK
      <2> QED BY <2>2, <2>3 DEF IInv
<1>3. CASE \E q \in Queues : ClaimElapses(q)
      BY <1>3, ElapseStep
<1>4. ASSUME NEW i \in Instances, Run(i) \/ Supervise(i) \/ PassFails(i) \/ Stop(i) \/ Crash(i)
      PROVE  IInv'
      BY <1>4, LifeStep, MonitorStep, StatsStep, ExpireStep, MaintainStep, WalkStep, ReleaseStep, TailStep
         DEF Run, Step
<1>5. CASE \E j \in Jobs : Overdue(j)
      BY <1>5, OverdueStep
<1> QED BY <1>1, <1>2, <1>3, <1>4, <1>5 DEF Next

-----------------------------------------------------------------------------
(* Theorems *)

\* The state is well typed, what a pass owes is what its sweeps have still to fail, and the
\* queues it walks carry its claim: the passes of onSupervise in boss.ts, however they
\* overlap, stop, fail or crash.
THEOREM CargoInvariant == Spec => []IInv
BY InitIInv, NextIInv, PTL DEF Spec

\* SweepsSound: a pass past its sweeps has failed every job that was late at its claim, in
\* batches of any size, and no two passes hold a queue's retention claim at once.
THEOREM SweepsTheorem == Spec => []SweepsSound
<1>1. IInv => ExpiryCompletes
      <2> SUFFICES ASSUME IInv, NEW i \in Instances,
                          inst[i].pc \in {"maintain", "walk", "release", "tail", "reindex", "rebuild"},
                          NEW j \in inst[i].owed \intersect late
                   PROVE  FALSE
          BY DEF ExpiryCompletes
      <2> QED BY DEF IInv, Owing
<1>2. IInv => OneSweepPerClaim
      BY DEF IInv, Holding, OneSweepPerClaim
<1>3. IInv => SweepsSound
      BY <1>1, <1>2 DEF SweepsSound
<1> QED BY <1>3, CargoInvariant, PTL

===============================================================================
