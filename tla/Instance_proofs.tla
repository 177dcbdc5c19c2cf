------------------------------ MODULE Instance_proofs ----------------------------
(* Proofs about one PgBoss object: its workers (Worker), for any sets of jobs and      *)
(* workers, any groups, limit and batch size, and any configuration; and, from "start() *)
(* and stop()" on, its start and stop with the schema's migration (Lifecycle).          *)
EXTENDS Worker, Contractor, FiniteSetTheorems, SequenceTheorems, TLAPS

-----------------------------------------------------------------------------
(* Attempts, the maps from jobs to retries *)

\* What an element of Attempts(n) is.
LEMMA AttemptFacts ==
    ASSUME NEW n, NEW a \in Attempts(n)
    PROVE  /\ DOMAIN a \subseteq Jobs
           /\ \A j \in DOMAIN a : a[j] \in 0 .. n
           /\ DOMAIN a = {} => a = None
<1>1. PICK S \in SUBSET Jobs : a \in [S -> 0 .. n]
      BY DEF Attempts
<1>2. DOMAIN a = S /\ a = [j \in S |-> a[j]]
      BY <1>1
<1>3. DOMAIN a = {} => a = None
      BY <1>2 DEF None
<1> QED BY <1>1, <1>2, <1>3

\* A map from some of the jobs is one.
LEMMA AttemptMap ==
    ASSUME NEW n, NEW S \in SUBSET Jobs, NEW a \in [S -> 0 .. n]
    PROVE  a \in Attempts(n)
BY DEF Attempts

LEMMA NoneFacts == \A n : None \in Attempts(n) /\ DOMAIN None = {}
<1> SUFFICES ASSUME NEW n PROVE None \in Attempts(n) /\ DOMAIN None = {}
    OBVIOUS
<1>1. None \in [{} -> 0 .. n]
      BY DEF None
<1>2. None \in Attempts(n)
      BY <1>1, AttemptMap
<1> QED BY <1>2 DEF None

-----------------------------------------------------------------------------
(* The workers *)

Idle == {"loop", "sleeping", "fetching", "claimed", "stopped"}
Holding == {"begin", "running", "returned", "rest", "committing", "catch", "failing", "overrun"}

\* What holds of a worker between any two of its statements.
Shape(r, n) ==
    /\ r \in Record(n)
    /\ r.owed => r.notified
    /\ r.pc = "sleeping" => ~r.owed
    /\ r.pc \in Idle => r.batch = None
    /\ r.pc \in Holding => r.batch # None
    /\ r.running => r.pc \in Holding
    /\ r.rest \subseteq DOMAIN r.batch
    /\ r.pc # "rest" => r.rest = {}
    /\ r.pc = "restoring" => \A j \in DOMAIN r.batch : j \in DOMAIN r.jobs /\ r.batch[j] = r.jobs[j]

Shaped ==
    /\ setup \in Setups
    /\ wk \in [Workers -> Record(setup.retryLimit)]
    /\ \A w \in Workers : Shape(wk[w], setup.retryLimit)

\* Retries stay within retry_limit: a row that was started waits only if one is left.
Retries ==
    /\ setup.retryLimit \in Nat
    /\ row \in [Jobs -> [state : States, retry : 0 .. setup.retryLimit, started : BOOLEAN]]
    /\ \A j \in Jobs : row[j].state = "queued" /\ row[j].started => row[j].retry < setup.retryLimit

\* One worker changes.
LEMMA OneChanges ==
    ASSUME Shaped, NEW w \in Workers, NEW r, Shape(r, setup.retryLimit), Become(w, r), UNCHANGED setup
    PROVE  Shaped'
<1>1. r \in Record(setup.retryLimit)
      BY DEF Shape
<1>2. wk' = [wk EXCEPT ![w] = r] /\ setup' = setup
      BY DEF Become
<1>3. wk' \in [Workers -> Record(setup.retryLimit)]
      BY <1>1, <1>2 DEF Shaped
<1>4. \A v \in Workers : Shape(wk'[v], setup.retryLimit)
      BY <1>2 DEF Shaped
<1> QED BY <1>2, <1>3, <1>4 DEF Shaped

\* The end of a round.
LEMMA RoundEnds ==
    ASSUME NEW w \in Workers, NEW n, NEW r \in Record(n), r.owed => r.notified, r.batch = None,
           r.rest = {}, ~r.running, EndRound(w, r)
    PROVE  \E q : /\ Become(w, q) /\ Shape(q, n)
                  /\ q.pc \in {"loop", "sleeping"} /\ q.batch = None
<1>1. ASSUME NEW p \in {"loop", "sleeping"}, p = "sleeping" => ~r.notified
      PROVE  Shape([r EXCEPT !.pc = p], n)
             /\ [r EXCEPT !.pc = p].pc = p /\ [r EXCEPT !.pc = p].batch = None
      <2>1. PICK q : q = [r EXCEPT !.pc = p]
            OBVIOUS
      <2>2. q \in Record(n) /\ q.pc = p /\ q.batch = None /\ q.rest = {} /\ q.owed = r.owed
            /\ q.notified = r.notified /\ q.running = r.running
            BY <2>1 DEF Record, Pcs
      <2> QED BY <1>1, <2>1, <2>2, NoneFacts DEF Shape, Idle, Holding
<1>2. CASE Become(w, [r EXCEPT !.pc = "loop"])
      BY <1>1, <1>2
<1>3. CASE ~r.notified /\ Become(w, [r EXCEPT !.pc = "sleeping"])
      BY <1>1, <1>3
<1> QED BY <1>2, <1>3 DEF EndRound

\* The start of #processJobs.
LEMMA Entered ==
    ASSUME NEW n, NEW r \in Record(n), r.owed => r.notified, r.batch # None,
           r.rest = {}, ~r.running
    PROVE  /\ Shape(Enter(r), n)
           /\ Enter(r).pc \in {"begin", "running", "failing"} /\ Enter(r).batch = r.batch
<1>1. PICK q, p : /\ p \in {"begin", "failing", "running"}
                  /\ q = [r EXCEPT !.ctl = TRUE, !.aborted = FALSE, !.pc = p, !.running = (p = "running")]
                  /\ q = Enter(r)
      BY DEF Enter
<1>2. q \in Record(n) /\ q.pc = p /\ q.running = (p = "running") /\ q.batch = r.batch /\ q.rest = r.rest
      /\ q.owed = r.owed /\ q.notified = r.notified
      BY <1>1 DEF Record, Pcs
<1> QED BY <1>1, <1>2 DEF Shape, Idle, Holding

\* The fetch.
LEMMA FetchShape ==
    ASSUME Shaped, Retries, NEW w \in Workers,
           FetchStart(w) \/ FetchClaim(w) \/ FetchFails(w)
    PROVE  Shaped'
<1> DEFINE n == setup.retryLimit
<1>0. wk[w] \in Record(n) /\ Shape(wk[w], n) /\ UNCHANGED setup
      BY DEF Shaped, FetchStart, FetchClaim, FetchFails
<1>1. CASE FetchStart(w)
      <2>1. PICK q : q = [wk[w] EXCEPT !.pc = "fetching", !.notified = FALSE, !.owed = FALSE,
                                       !.ignored = AtLocalCapacity]
            OBVIOUS
      <2>2. AtLocalCapacity \in SUBSET Groups
            BY DEF AtLocalCapacity
      <2>3. q \in Record(n) /\ q.pc = "fetching" /\ ~q.owed /\ q.batch = wk[w].batch /\ q.rest = wk[w].rest
            /\ q.running = wk[w].running
            BY <1>0, <2>1, <2>2 DEF Record, Pcs
      <2>4. Shape(q, n)
            BY <1>0, <1>1, <2>3 DEF Shape, Idle, Holding, FetchStart
      <2> QED BY <1>0, <1>1, <2>1, <2>4, OneChanges DEF FetchStart
<1>2. CASE FetchClaim(w)
      <2>1. PICK S \in SUBSET Jobs :
                /\ \A j \in S : row[j].state = "queued"
                /\ Become(w, [wk[w] EXCEPT !.pc = "claimed", !.ignored = {},
                                           !.fetched = [j \in S |-> Claimed(row[j]).retry]])
            BY <1>2 DEF FetchClaim, kSubset
      <2>2. PICK f : f = [j \in S |-> Claimed(row[j]).retry]
            OBVIOUS
      <2>3. f \in Attempts(n)
            <3>1. \A j \in S : Claimed(row[j]).retry \in 0 .. n
                  BY <2>1 DEF Retries, Claimed, Row
            <3> QED BY <2>2, <3>1, AttemptMap
      <2>4. PICK q : q = [wk[w] EXCEPT !.pc = "claimed", !.ignored = {}, !.fetched = f]
            OBVIOUS
      <2>5. q \in Record(n) /\ q.pc = "claimed" /\ q.owed = wk[w].owed /\ q.notified = wk[w].notified
            /\ q.batch = wk[w].batch /\ q.rest = wk[w].rest /\ q.running = wk[w].running
            BY <1>0, <2>3, <2>4 DEF Record, Pcs
      <2>6. Shape(q, n)
            BY <1>0, <1>2, <2>5 DEF Shape, Idle, Holding, FetchClaim, At
      <2>7. Become(w, q)
            BY <2>1, <2>2, <2>4
      <2> QED BY <1>0, <2>6, <2>7, OneChanges
<1>3. CASE FetchFails(w)
      <2>1. PICK q : q = [wk[w] EXCEPT !.fetched = None, !.ignored = {}]
            OBVIOUS
      <2>2. q \in Record(n) /\ q.owed = wk[w].owed /\ q.notified = wk[w].notified
            /\ q.batch = wk[w].batch /\ q.rest = wk[w].rest /\ q.running = wk[w].running
            BY <1>0, <2>1, NoneFacts DEF Record
      <2>3. q.batch = None /\ q.rest = {} /\ ~q.running
            BY <1>0, <1>3, <2>2, NoneFacts DEF Shape, Idle, Holding, FetchFails, At
      <2>4. EndRound(w, q)
            BY <1>3, <2>1 DEF FetchFails
      <2>5. PICK r : Become(w, r) /\ Shape(r, n)
            BY <1>0, <2>2, <2>3, <2>4, RoundEnds DEF Shape
      <2> QED BY <1>0, <2>5, OneChanges
<1> QED BY <1>1, <1>2, <1>3

\* The answer, and the excess.
LEMMA ReturnShape ==
    ASSUME Shaped, NEW w \in Workers,
           FetchReturn(w) \/ RestoreExcess(w) \/ RestoreReturn(w) \/ RestoreFails(w)
    PROVE  Shaped'
<1> DEFINE n == setup.retryLimit
<1>0. wk[w] \in Record(n) /\ Shape(wk[w], n) /\ UNCHANGED setup
      BY DEF Shaped, FetchReturn, RestoreExcess, RestoreReturn, RestoreFails
<1>1. CASE FetchReturn(w)
      <2> DEFINE S == DOMAIN wk[w].fetched
      <2>1. PICK A, b, q :
                /\ A \in SUBSET S
                /\ b = [j \in A |-> wk[w].fetched[j]]
                /\ q = [wk[w] EXCEPT !.fetched = None, !.jobs = wk[w].fetched, !.batch = b]
                /\ \/ S = {} /\ EndRound(w, q)
                   \/ S # {} /\ A = S /\ Become(w, Enter(q))
                   \/ S # A /\ Become(w, [q EXCEPT !.pc = "restoring"])
            BY <1>1 DEF FetchReturn
      <2>2. wk[w].fetched \in Attempts(n)
            BY <1>0 DEF Record
      <2>3. b \in Attempts(n) /\ DOMAIN b = A
            <3>1. A \in SUBSET Jobs /\ b \in [A -> 0 .. n]
                  BY <2>1, <2>2, AttemptFacts
            <3> QED BY <3>1, AttemptMap
      <2>4. q \in Record(n) /\ q.batch = b /\ q.jobs = wk[w].fetched /\ q.rest = wk[w].rest
            /\ q.running = wk[w].running /\ q.owed = wk[w].owed /\ q.notified = wk[w].notified
            BY <1>0, <2>1, <2>2, <2>3, NoneFacts DEF Record
      <2>5. q.rest = {} /\ ~q.running /\ (q.owed => q.notified)
            BY <1>0, <1>1, <2>4, NoneFacts DEF Shape, Idle, Holding, FetchReturn, At
      <2>6. CASE S = {} /\ EndRound(w, q)
            <3>1. q.batch = None
                  <4>1. A = {}
                        BY <2>1, <2>6
                  <4> QED BY <2>3, <2>4, <4>1, AttemptFacts
            <3>2. PICK r : Become(w, r) /\ Shape(r, n)
                  BY <2>4, <2>5, <2>6, <3>1, RoundEnds
            <3> QED BY <1>0, <3>2, OneChanges
      <2>7. CASE S # {} /\ A = S /\ Become(w, Enter(q))
            <3>1. q.batch # None
                  BY <2>3, <2>4, <2>7, NoneFacts
            <3>2. Shape(Enter(q), n)
                  BY <2>4, <2>5, <3>1, Entered
            <3> QED BY <1>0, <2>7, <3>2, OneChanges
      <2>8. CASE S # A /\ Become(w, [q EXCEPT !.pc = "restoring"])
            <3>1. PICK r : r = [q EXCEPT !.pc = "restoring"]
                  OBVIOUS
            <3>2. r \in Record(n) /\ r.pc = "restoring" /\ r.batch = b /\ r.jobs = wk[w].fetched
                  /\ r.rest = {} /\ ~r.running /\ (r.owed => r.notified)
                  BY <2>4, <2>5, <3>1 DEF Record, Pcs
            <3>3. \A j \in DOMAIN r.batch : j \in DOMAIN r.jobs /\ r.batch[j] = r.jobs[j]
                  BY <2>1, <2>3, <3>2
            <3>4. Shape(r, n)
                  BY <3>2, <3>3 DEF Shape, Idle, Holding
            <3> QED BY <1>0, <2>8, <3>1, <3>4, OneChanges
      <2> QED BY <2>1, <2>6, <2>7, <2>8
<1>2. CASE RestoreExcess(w)
      <2>1. PICK q : q = [wk[w] EXCEPT !.pc = "restored"]
            OBVIOUS
      <2>2. q \in Record(n) /\ q.pc = "restored" /\ q.owed = wk[w].owed /\ q.notified = wk[w].notified
            /\ q.batch = wk[w].batch /\ q.rest = wk[w].rest /\ q.running = wk[w].running
            BY <1>0, <2>1 DEF Record, Pcs
      <2>3. Shape(q, n)
            BY <1>0, <1>2, <2>2 DEF Shape, Idle, Holding, RestoreExcess, At
      <2> QED BY <1>0, <1>2, <2>1, <2>3, OneChanges DEF RestoreExcess
<1>3. CASE RestoreReturn(w)
      <2>1. PICK q : /\ q = [wk[w] EXCEPT !.jobs = wk[w].batch]
                     /\ \/ q.batch = None /\ EndRound(w, q)
                        \/ q.batch # None /\ Become(w, Enter(q))
            BY <1>3 DEF RestoreReturn
      <2>2. q \in Record(n) /\ q.owed = wk[w].owed /\ q.notified = wk[w].notified
            /\ q.batch = wk[w].batch /\ q.rest = wk[w].rest /\ q.running = wk[w].running
            BY <1>0, <2>1 DEF Record
      <2>3. q.rest = {} /\ ~q.running /\ (q.owed => q.notified)
            BY <1>0, <1>3, <2>2 DEF Shape, Idle, Holding, RestoreReturn, At
      <2>4. CASE q.batch = None /\ EndRound(w, q)
            <3>1. PICK r : Become(w, r) /\ Shape(r, n)
                  BY <2>2, <2>3, <2>4, RoundEnds
            <3> QED BY <1>0, <3>1, OneChanges
      <2>5. CASE q.batch # None /\ Become(w, Enter(q))
            <3>1. Shape(Enter(q), n)
                  BY <2>2, <2>3, <2>5, Entered
            <3> QED BY <1>0, <2>5, <3>1, OneChanges
      <2> QED BY <2>1, <2>4, <2>5
<1>4. CASE RestoreFails(w)
      <2>1. PICK q : q = [wk[w] EXCEPT !.batch = None] /\ EndRound(w, q)
            BY <1>4 DEF RestoreFails
      <2>2. q \in Record(n) /\ q.owed = wk[w].owed /\ q.notified = wk[w].notified
            /\ q.batch = None /\ q.rest = wk[w].rest /\ q.running = wk[w].running
            BY <1>0, <2>1, NoneFacts DEF Record
      <2>3. ~q.running /\ (q.owed => q.notified) /\ q.rest = {}
            BY <1>0, <1>4, <2>2 DEF Shape, Idle, Holding, RestoreFails, At
      <2>4. PICK r : Become(w, r) /\ Shape(r, n)
            BY <2>1, <2>2, <2>3, RoundEnds
      <2> QED BY <1>0, <2>4, OneChanges
<1> QED BY <1>1, <1>2, <1>3, <1>4

\* The finally blocks.
LEMMA AfterShape ==
    ASSUME Shaped, NEW w \in Workers, wk[w].pc \in Holding, NEW keep \in BOOLEAN, AfterBatch(w, keep),
           UNCHANGED setup
    PROVE  Shaped'
<1> DEFINE n == setup.retryLimit
<1>0. wk[w] \in Record(n) /\ Shape(wk[w], n) /\ UNCHANGED setup
      BY DEF Shaped
<1>1. PICK q, x : /\ x = (IF keep THEN wk[w].jobs ELSE None)
                  /\ q = [wk[w] EXCEPT !.ctl = FALSE, !.rest = {}, !.jobs = x]
                  /\ \/ q.running /\ ~q.stopping /\ Become(w, [q EXCEPT !.pc = "overrun", !.jobs = None])
                     \/ q.running /\ q.stopping /\ EndRound(w, [q EXCEPT !.batch = None, !.running = FALSE])
                     \/ ~q.running /\ EndRound(w, [q EXCEPT !.batch = None])
      BY DEF AfterBatch
<1>2. x \in Attempts(n)
      BY <1>0, <1>1, NoneFacts DEF Record
<1>3. q \in Record(n) /\ q.owed = wk[w].owed /\ q.notified = wk[w].notified /\ q.rest = {}
      /\ q.batch = wk[w].batch /\ q.running = wk[w].running
      BY <1>0, <1>1, <1>2 DEF Record
<1>4. (q.owed => q.notified) /\ q.batch # None
      BY <1>0, <1>3 DEF Shape, Holding
<1>5. CASE q.running /\ ~q.stopping /\ Become(w, [q EXCEPT !.pc = "overrun", !.jobs = None])
      <2>1. PICK r : r = [q EXCEPT !.pc = "overrun", !.jobs = None]
            OBVIOUS
      <2>2. r \in Record(n) /\ r.pc = "overrun" /\ r.rest = {} /\ r.batch = q.batch /\ r.owed = q.owed
            /\ r.notified = q.notified
            BY <1>3, <2>1, NoneFacts DEF Record, Pcs
      <2>3. Shape(r, n)
            BY <1>4, <2>2 DEF Shape, Idle, Holding
      <2> QED BY <1>0, <1>5, <2>1, <2>3, OneChanges
<1>6. ASSUME NEW p, p \in Record(n), p.batch = None, ~p.running, p.owed = q.owed, p.notified = q.notified,
             p.rest = {}, EndRound(w, p)
      PROVE  Shaped'
      <2>1. PICK r : Become(w, r) /\ Shape(r, n)
            BY <1>4, <1>6, RoundEnds
      <2> QED BY <1>0, <2>1, OneChanges
<1>7. CASE q.running /\ q.stopping /\ EndRound(w, [q EXCEPT !.batch = None, !.running = FALSE])
      <2>1. PICK p : p = [q EXCEPT !.batch = None, !.running = FALSE]
            OBVIOUS
      <2>2. p \in Record(n) /\ p.batch = None /\ ~p.running /\ p.owed = q.owed /\ p.notified = q.notified
            /\ p.rest = {}
            BY <1>3, <2>1, NoneFacts DEF Record
      <2> QED BY <1>6, <1>7, <2>1, <2>2
<1>8. CASE ~q.running /\ EndRound(w, [q EXCEPT !.batch = None])
      <2>1. PICK p : p = [q EXCEPT !.batch = None]
            OBVIOUS
      <2>2. p \in Record(n) /\ p.batch = None /\ ~p.running /\ p.owed = q.owed /\ p.notified = q.notified
            /\ p.rest = {}
            BY <1>3, <1>8, <2>1, NoneFacts DEF Record
      <2> QED BY <1>6, <1>8, <2>1, <2>2
<1> QED BY <1>1, <1>5, <1>7, <1>8

\* A worker that only moves on.
LEMMA MovesOn ==
    ASSUME Shaped, NEW w \in Workers, NEW p \in Holding, wk[w].pc \in Holding, wk[w].pc # "rest", p # "rest",
           NEW b \in BOOLEAN, Become(w, [wk[w] EXCEPT !.pc = p, !.running = b]), UNCHANGED setup
    PROVE  Shaped'
<1> DEFINE n == setup.retryLimit
<1>0. wk[w] \in Record(n) /\ Shape(wk[w], n)
      BY DEF Shaped
<1>1. PICK q : q = [wk[w] EXCEPT !.pc = p, !.running = b]
      OBVIOUS
<1>2. q \in Record(n) /\ q.pc = p /\ q.owed = wk[w].owed /\ q.notified = wk[w].notified
      /\ q.rest = wk[w].rest /\ q.batch = wk[w].batch
      BY <1>0, <1>1 DEF Record, Pcs, Holding
<1>3. Shape(q, n)
      BY <1>0, <1>2 DEF Shape, Idle, Holding
<1> QED BY <1>1, <1>3, OneChanges

\* A batch's way through #processJobs.
LEMMA BatchShape ==
    ASSUME Shaped, NEW w \in Workers,
           \/ StartHandler(w) \/ HandlerReturns(w) \/ RaceEnds(w)
           \/ CompleteBatch(w) \/ FailRest(w) \/ CompleteInTransaction(w)
           \/ Commit(w) \/ CommitAnswerLost(w) \/ SettleRaises(w) \/ Rollback(w)
           \/ FailBatch(w) \/ FailRaises(w) \/ OverrunReturns(w) \/ OverrunAbandoned(w)
    PROVE  Shaped'
<1> DEFINE n == setup.retryLimit
<1>0. wk[w] \in Record(n) /\ Shape(wk[w], n)
      BY DEF Shaped
<1>1. UNCHANGED setup
      BY DEF StartHandler, HandlerReturns, RaceEnds, CompleteBatch, FailRest, CompleteInTransaction, Commit,
             Commits, CommitAnswerLost, SettleRaises, Rollback, FailBatch, FailRaises, OverrunReturns,
             OverrunAbandoned
<1>2. ASSUME NEW p \in Holding, p # "rest", wk[w].pc \in Holding, wk[w].pc # "rest",
             Become(w, [wk[w] EXCEPT !.pc = p])
      PROVE  Shaped'
      <2>1. [wk[w] EXCEPT !.pc = p] = [wk[w] EXCEPT !.pc = p, !.running = wk[w].running]
            /\ wk[w].running \in BOOLEAN
            BY <1>0 DEF Record
      <2> QED BY <1>1, <1>2, <2>1, MovesOn
<1>3. CASE StartHandler(w)
      <2>1. wk[w].pc = "begin"
            BY <1>3 DEF StartHandler, At
      <2>2. CASE wk[w].graceExpired
            BY <1>2, <1>3, <2>1, <2>2 DEF StartHandler, Holding
      <2>3. CASE ~wk[w].graceExpired
            BY <1>1, <1>3, <2>1, <2>3, MovesOn DEF StartHandler, Holding
      <2> QED BY <2>2, <2>3
<1>4. CASE HandlerReturns(w)
      BY <1>1, <1>4, MovesOn DEF HandlerReturns, At, Holding, OnError
<1>5. CASE RaceEnds(w)
      BY <1>2, <1>5 DEF RaceEnds, At, Holding, OnError
<1>6. CASE CompleteBatch(w)
      <2>1. CASE AfterBatch(w, FALSE)
            BY <1>1, <1>6, <2>1, AfterShape DEF CompleteBatch, At, Holding
      <2>2. CASE ~AfterBatch(w, FALSE)
            <3>1. PICK C, q : /\ q = [wk[w] EXCEPT !.pc = "rest", !.rest = DOMAIN wk[w].batch \ C]
                              /\ Become(w, q) /\ wk[w].pc = "returned"
                  BY <1>6, <2>2 DEF CompleteBatch, At
            <3>2. DOMAIN wk[w].batch \in SUBSET Jobs
                  BY <1>0, AttemptFacts DEF Record
            <3>3. q \in Record(n) /\ q.pc = "rest" /\ q.owed = wk[w].owed /\ q.notified = wk[w].notified
                  /\ q.rest \subseteq DOMAIN wk[w].batch /\ q.batch = wk[w].batch
                  BY <1>0, <3>1, <3>2 DEF Record, Pcs
            <3>4. Shape(q, n)
                  BY <1>0, <3>1, <3>3 DEF Shape, Idle, Holding
            <3> QED BY <1>1, <3>1, <3>4, OneChanges
      <2> QED BY <2>1, <2>2
<1>7. CASE FailRest(w)
      BY <1>1, <1>7, AfterShape DEF FailRest, At, Holding
<1>8. CASE CompleteInTransaction(w)
      BY <1>2, <1>8 DEF CompleteInTransaction, At, Holding
<1>9. CASE Commit(w)
      BY <1>1, <1>9, AfterShape DEF Commit, Commits, At, Holding
<1>10. CASE CommitAnswerLost(w)
      BY <1>2, <1>10 DEF CommitAnswerLost, Commits, At, Holding
<1>11. CASE SettleRaises(w)
      <2>1. PICK q : q = [wk[w] EXCEPT !.pc = OnError, !.rest = {}]
            OBVIOUS
      <2>2. OnError \in {"catch", "failing"}
            BY DEF OnError
      <2>3. q \in Record(n) /\ q.pc = OnError /\ q.owed = wk[w].owed /\ q.notified = wk[w].notified
            /\ q.rest = {} /\ q.batch = wk[w].batch
            BY <1>0, <2>1, <2>2 DEF Record, Pcs
      <2>4. Shape(q, n)
            BY <1>0, <1>11, <2>2, <2>3 DEF Shape, Idle, Holding, SettleRaises
      <2> QED BY <1>1, <1>11, <2>1, <2>4, OneChanges DEF SettleRaises
<1>12. CASE Rollback(w)
      BY <1>2, <1>12 DEF Rollback, At, Holding
<1>13. CASE FailBatch(w) \/ FailRaises(w) \/ OverrunAbandoned(w)
      BY <1>1, <1>13, AfterShape DEF FailBatch, FailRaises, OverrunAbandoned, At, Holding
<1>14. CASE OverrunReturns(w)
      <2>1. PICK q : q = [wk[w] EXCEPT !.batch = None, !.running = FALSE] /\ EndRound(w, q)
            BY <1>14 DEF OverrunReturns
      <2>2. q \in Record(n) /\ q.owed = wk[w].owed /\ q.notified = wk[w].notified
            /\ q.batch = None /\ q.rest = wk[w].rest /\ ~q.running
            BY <1>0, <2>1, NoneFacts DEF Record
      <2>3. (q.owed => q.notified) /\ q.rest = {}
            BY <1>0, <1>14, <2>2 DEF Shape, OverrunReturns, At
      <2>4. PICK r : Become(w, r) /\ Shape(r, n)
            BY <2>1, <2>2, <2>3, RoundEnds
      <2> QED BY <1>1, <2>4, OneChanges
<1> QED BY <1>3, <1>4, <1>5, <1>6, <1>7, <1>8, <1>9, <1>10, <1>11, <1>12, <1>13, <1>14

\* A new worker.
LEMMA FreshShape ==
    ASSUME NEW n, NEW k \in Nat
    PROVE  /\ Shape(Fresh, n)
           /\ Shape([Fresh EXCEPT !.pc = "stopped"], n)
           /\ Shape([Fresh EXCEPT !.starts = k], n)
<1>1. ASSUME NEW r, r \in {Fresh, [Fresh EXCEPT !.pc = "stopped"], [Fresh EXCEPT !.starts = k]}
      PROVE  Shape(r, n)
      <2>1. r \in Record(n) /\ r.pc \in {"loop", "stopped"} /\ ~r.owed /\ r.batch = None /\ ~r.running
            /\ r.rest = {}
            <3>1. Fresh \in Record(n) /\ Fresh.pc = "loop" /\ ~Fresh.owed /\ Fresh.batch = None
                  /\ ~Fresh.running /\ Fresh.rest = {}
                  BY NoneFacts DEF Fresh, Record, Pcs
            <3>2. PICK f \in Record(n) : f = Fresh
                  BY <3>1
            <3>3. CASE r = [f EXCEPT !.pc = "stopped"]
                  BY <3>1, <3>2, <3>3 DEF Record, Pcs
            <3>4. CASE r = [f EXCEPT !.starts = k]
                  BY <3>1, <3>2, <3>4 DEF Record, Pcs
            <3> QED BY <1>1, <3>1, <3>2, <3>3, <3>4
      <2> QED BY <2>1, NoneFacts DEF Shape, Idle, Holding
<1> QED BY <1>1

\* A worker that is marked: woken, notified, stopped, past the grace or aborted.
LEMMA Marked ==
    ASSUME NEW n, NEW r, Shape(r, n), NEW q \in Record(n), q.pc = r.pc \/ (r.pc = "sleeping" /\ q.pc = "loop"),
           q.owed => q.notified, q.owed => r.owed \/ q.pc # "sleeping",
           q.batch = r.batch, q.jobs = r.jobs, q.rest = r.rest, q.running = r.running
    PROVE  Shape(q, n)
BY DEF Shape, Idle, Holding

\* Notifications, work() and offWork(), and the shutdown.
LEMMA MarkedShape ==
    ASSUME Shaped, UNCHANGED setup,
           \/ NotifyWorkers
           \/ \E S \in SUBSET Workers : StopWorkers(S)
           \/ wk' = [w \in Workers |-> [wk[w] EXCEPT !.graceExpired = TRUE]]
    PROVE  Shaped'
<1> DEFINE n == setup.retryLimit
<1>0. ASSUME NEW w \in Workers
      PROVE  /\ Woken(wk[w]) \in Record(n)
             /\ \/ Woken(wk[w]) = wk[w] /\ wk[w].pc # "sleeping"
                \/ Woken(wk[w]) = [wk[w] EXCEPT !.pc = "loop"] /\ wk[w].pc = "sleeping"
      <2>1. wk[w] \in Record(n)
            BY DEF Shaped
      <2> QED BY <2>1 DEF Woken, Record, Pcs
<1>1. \A w \in Workers : wk[w] \in Record(n) /\ Shape(wk[w], n)
      BY DEF Shaped
<1>2. CASE NotifyWorkers
      <2>1. ASSUME NEW w \in Workers
            PROVE  Shape(wk'[w], n)
            <3>1. CASE wk[w].pc = "stopped"
                  BY <1>1, <1>2, <3>1 DEF NotifyWorkers
            <3>2. CASE wk[w].pc # "stopped"
                  <4>1. PICK u : u = Woken(wk[w])
                        OBVIOUS
                  <4>2. wk'[w] = [u EXCEPT !.notified = TRUE, !.owed = TRUE]
                        BY <1>2, <3>2, <4>1 DEF NotifyWorkers
                  <4>3. u \in Record(n) /\ (u.pc = wk[w].pc \/ (wk[w].pc = "sleeping" /\ u.pc = "loop"))
                        /\ u.pc # "sleeping"
                        /\ u.batch = wk[w].batch /\ u.jobs = wk[w].jobs /\ u.rest = wk[w].rest
                        /\ u.running = wk[w].running
                        <5>1. CASE u = wk[w] /\ wk[w].pc # "sleeping"
                              BY <1>1, <5>1
                        <5>2. CASE u = [wk[w] EXCEPT !.pc = "loop"] /\ wk[w].pc = "sleeping"
                              BY <1>1, <5>2 DEF Record, Pcs
                        <5> QED BY <1>0, <4>1, <5>1, <5>2
                  <4>4. PICK q : q = [u EXCEPT !.notified = TRUE, !.owed = TRUE]
                        OBVIOUS
                  <4>5. q \in Record(n) /\ q.pc = u.pc /\ q.batch = u.batch /\ q.jobs = u.jobs
                        /\ q.rest = u.rest /\ q.running = u.running /\ q.notified
                        BY <4>3, <4>4 DEF Record
                  <4>6. Shape(q, n)
                        BY <1>1, <4>3, <4>5, Marked
                  <4> QED BY <4>2, <4>4, <4>6
            <3> QED BY <3>1, <3>2
      <2>2. wk' \in [Workers -> Record(n)]
            BY <1>2, <2>1 DEF NotifyWorkers, Shape
      <2> QED BY <2>1, <2>2 DEF Shaped
<1>3. ASSUME NEW S \in SUBSET Workers, StopWorkers(S)
      PROVE  Shaped'
      <2>1. ASSUME NEW w \in Workers
            PROVE  Shape(wk'[w], n)
            <3>1. CASE ~(w \in S /\ wk[w].pc # "stopped")
                  BY <1>1, <1>3, <3>1 DEF StopWorkers
            <3>2. CASE w \in S /\ wk[w].pc # "stopped"
                  <4>1. PICK u : u = Woken(wk[w])
                        OBVIOUS
                  <4>2. wk'[w] = [u EXCEPT !.stopping = TRUE]
                        BY <1>3, <3>2, <4>1 DEF StopWorkers
                  <4>3. u \in Record(n) /\ (u.pc = wk[w].pc \/ (wk[w].pc = "sleeping" /\ u.pc = "loop"))
                        /\ u.owed = wk[w].owed /\ u.notified = wk[w].notified
                        /\ u.batch = wk[w].batch /\ u.jobs = wk[w].jobs /\ u.rest = wk[w].rest
                        /\ u.running = wk[w].running
                        <5>1. CASE u = wk[w] /\ wk[w].pc # "sleeping"
                              BY <1>1, <5>1
                        <5>2. CASE u = [wk[w] EXCEPT !.pc = "loop"] /\ wk[w].pc = "sleeping"
                              BY <1>1, <5>2 DEF Record, Pcs
                        <5> QED BY <1>0, <4>1, <5>1, <5>2
                  <4>4. PICK q : q = [u EXCEPT !.stopping = TRUE]
                        OBVIOUS
                  <4>5. q \in Record(n) /\ q.pc = u.pc /\ q.batch = u.batch /\ q.jobs = u.jobs
                        /\ q.rest = u.rest /\ q.running = u.running /\ q.notified = u.notified
                        /\ q.owed = u.owed
                        BY <4>3, <4>4 DEF Record
                  <4>6. q.owed => q.notified
                        BY <1>1, <4>3, <4>5 DEF Shape
                  <4>7. Shape(q, n)
                        BY <1>1, <4>3, <4>5, <4>6, Marked
                  <4> QED BY <4>2, <4>4, <4>7
            <3> QED BY <3>1, <3>2
      <2>2. wk' \in [Workers -> Record(n)]
            BY <1>3, <2>1 DEF StopWorkers, Shape
      <2> QED BY <2>1, <2>2 DEF Shaped
<1>4. CASE wk' = [w \in Workers |-> [wk[w] EXCEPT !.graceExpired = TRUE]]
      <2>1. ASSUME NEW w \in Workers
            PROVE  Shape(wk'[w], n)
            <3>1. PICK q : q = [wk[w] EXCEPT !.graceExpired = TRUE]
                  OBVIOUS
            <3>2. q \in Record(n) /\ q.pc = wk[w].pc /\ q.batch = wk[w].batch /\ q.jobs = wk[w].jobs
                  /\ q.rest = wk[w].rest /\ q.running = wk[w].running /\ q.notified = wk[w].notified
                  /\ q.owed = wk[w].owed
                  BY <1>1, <3>1 DEF Record
            <3>3. q.owed => q.notified
                  BY <1>1, <3>2 DEF Shape
            <3>4. Shape(q, n)
                  BY <1>1, <3>2, <3>3, Marked
            <3> QED BY <1>4, <3>1, <3>4
      <2>2. wk' \in [Workers -> Record(n)]
            BY <1>4, <2>1 DEF Shape
      <2> QED BY <2>1, <2>2 DEF Shaped
<1> QED BY <1>2, <1>3, <1>4

\* The instance's other steps.
LEMMA OtherShape ==
    ASSUME Shaped,
           \/ \E w \in Workers : Exit(w) \/ OffWork(w) \/ Work(w) \/ FailWipFail(w) \/ FailWipAbort(w)
           \/ \E w \in Workers, j \in Jobs : HandlerSettles(w, j)
           \/ \E j \in Jobs : Send(j) \/ OtherCompletes(j) \/ Expire(j) \/ OtherClaims(j)
           \/ \E S \in SUBSET Jobs : LooseReturns(S)
           \/ Listen \/ ListenerDrops \/ Notified \/ Stop \/ GraceEnds \/ Close
    PROVE  Shaped'
<1> DEFINE n == setup.retryLimit
<1>1. \A w \in Workers : wk[w] \in Record(n) /\ Shape(wk[w], n)
      BY DEF Shaped
<1>2. CASE UNCHANGED <<setup, wk>>
      BY <1>2 DEF Shaped
<1>3. ASSUME NEW w \in Workers, Exit(w)
      PROVE  Shaped'
      <2>1. PICK q : q = [wk[w] EXCEPT !.pc = "stopped"]
            OBVIOUS
      <2>2. q \in Record(n) /\ q.pc = "stopped" /\ q.batch = wk[w].batch /\ q.jobs = wk[w].jobs
            /\ q.rest = wk[w].rest /\ q.running = wk[w].running /\ q.notified = wk[w].notified
            /\ q.owed = wk[w].owed
            BY <1>1, <2>1 DEF Record, Pcs
      <2>3. Shape(q, n)
            BY <1>1, <1>3, <2>2 DEF Shape, Idle, Holding, Exit, At
      <2> QED BY <1>3, <2>1, <2>3, OneChanges DEF Exit
<1>4. ASSUME NEW w \in Workers, Work(w)
      PROVE  Shaped'
      <2>1. PICK k \in Nat : k = wk[w].starts + 1
            BY <1>1 DEF Record
      <2> QED BY <1>4, <2>1, FreshShape, OneChanges DEF Work
<1>5. ASSUME NEW w \in Workers, FailWipAbort(w)
      PROVE  Shaped'
      <2>1. PICK q : q = [wk[w] EXCEPT !.aborted = @ \/ wk[w].ctl]
            OBVIOUS
      <2>2. q \in Record(n) /\ q.pc = wk[w].pc /\ q.batch = wk[w].batch /\ q.jobs = wk[w].jobs
            /\ q.rest = wk[w].rest /\ q.running = wk[w].running /\ q.notified = wk[w].notified
            /\ q.owed = wk[w].owed
            BY <1>1, <2>1 DEF Record
      <2>3. q.owed => q.notified
            BY <1>1, <2>2 DEF Shape
      <2>4. Shape(q, n)
            BY <1>1, <2>2, <2>3, Marked
      <2>5. wk' = [wk EXCEPT ![w] = q] /\ UNCHANGED setup
            BY <1>5, <2>1 DEF FailWipAbort
      <2> QED BY <2>4, <2>5, OneChanges DEF Become
<1>6. ASSUME NEW w \in Workers, OffWork(w)
      PROVE  Shaped'
      BY <1>6, MarkedShape DEF OffWork
<1>7. CASE Listen \/ Notified
      BY <1>7, MarkedShape DEF Listen, Notified
<1>8. CASE Stop \/ GraceEnds
      BY <1>8, MarkedShape DEF Stop, GraceEnds
<1>9. ASSUME ListenerDrops \/ Close \/ (\E S \in SUBSET Jobs : LooseReturns(S))
             \/ (\E w \in Workers : FailWipFail(w)) \/ \E w \in Workers, j \in Jobs : HandlerSettles(w, j)
      PROVE  UNCHANGED <<setup, wk>>
      BY <1>9 DEF ListenerDrops, Close, LooseReturns, FailWipFail, HandlerSettles
<1>10. ASSUME NEW j \in Jobs, Send(j) \/ OtherCompletes(j) \/ Expire(j) \/ OtherClaims(j)
       PROVE  UNCHANGED <<setup, wk>>
       BY <1>10 DEF Send, OtherCompletes, Expire, OtherClaims, OtherStep
<1> QED BY <1>2, <1>3, <1>4, <1>5, <1>6, <1>7, <1>8, <1>9, <1>10

\* The workers keep their shape.
LEMMA StepShape ==
    ASSUME Shaped, Retries, [Next]_vars
    PROVE  Shaped'
<1>1. CASE UNCHANGED vars
      BY <1>1 DEF vars, Shaped
<1>2. CASE Next
      BY <1>2, FetchShape, ReturnShape, BatchShape, OtherShape
         DEF Next, Step, Fault, WorkerStep, HandlerStep, ShutdownStep
<1> QED BY <1>1, <1>2

LEMMA InitShape == Init => Shaped /\ Retries
<1> SUFFICES ASSUME Init PROVE Shaped /\ Retries
    OBVIOUS
<1>1. setup \in Setups /\ setup.retryLimit \in Nat
      BY WorkerAssumption DEF Init
<1>2. Retries
      BY <1>1 DEF Init, Retries, Row, States
<1>3. ASSUME NEW w \in Workers
      PROVE  Shape(wk[w], setup.retryLimit)
      <2>1. wk[w] = Fresh \/ wk[w] = [Fresh EXCEPT !.pc = "stopped"]
            BY DEF Init
      <2> QED BY <2>1, FreshShape
<1>4. wk \in [Workers -> Record(setup.retryLimit)]
      BY <1>3 DEF Init, Shape
<1> QED BY <1>1, <1>2, <1>3, <1>4 DEF Shaped

-----------------------------------------------------------------------------
(* The job table *)

RowOK(r, n) ==
    /\ r \in [state : States, retry : 0 .. n, started : BOOLEAN]
    /\ r.state = "queued" /\ r.started => r.retry < n

\* Only active rows are claimed, and only active rows are changed by open transactions.
Rows ==
    /\ setup.retryLimit \in Nat
    /\ row \in [Jobs -> [state : States, retry : 0 .. setup.retryLimit, started : BOOLEAN]]
    /\ holder \in [Jobs -> Workers \cup {Other, Nobody}]
    /\ lock \in [Jobs -> Workers \cup {Nobody}]
    /\ \A j \in Jobs : /\ RowOK(row[j], setup.retryLimit)
                       /\ holder[j] # Nobody => row[j].state = "active"
                       /\ lock[j] # Nobody => row[j].state = "active"

LEMMA RowsRetries == Rows => Retries
BY DEF Rows, Retries, RowOK

\* A statement that neither claims for a worker of this instance nor moves a row that
\* is completed.
Kept ==
    \A j \in Jobs : /\ \/ row'[j] = row[j] /\ holder'[j] = holder[j]
                       \/ holder'[j] \in {Other, Nobody}
                    /\ row[j].state = "completed" => row'[j].state = "completed"

\* What the statements make of a row.
LEMMA RowFacts ==
    ASSUME NEW n \in Nat, n = setup.retryLimit, NEW r, RowOK(r, n)
    PROVE  /\ r.state = "active" => RowOK(Completed(r), n) /\ RowOK(Failed(r), n)
           /\ Completed(r).state = "completed"
           /\ r.state = "queued" => RowOK(Claimed(r), n) /\ Claimed(r).state = "active"
           /\ RowOK(Row("queued", r.retry, FALSE), n)
           /\ RowOK(Row("queued", 0, FALSE), n)
<1>0. r \in [state : States, retry : 0 .. n, started : BOOLEAN]
      /\ (r.state = "queued" /\ r.started => r.retry < n)
      BY DEF RowOK
<1>1. RowOK(Completed(r), n) /\ Completed(r).state = "completed"
      BY <1>0 DEF RowOK, Completed, States
<1>2. RowOK(Failed(r), n)
      BY <1>0 DEF RowOK, Failed, States
<1>3. r.state = "queued" => RowOK(Claimed(r), n) /\ Claimed(r).state = "active"
      BY <1>0 DEF RowOK, Claimed, Row, States
<1>4. RowOK(Row("queued", r.retry, FALSE), n) /\ RowOK(Row("queued", 0, FALSE), n)
      BY <1>0 DEF RowOK, Row, States
<1> QED BY <1>1, <1>2, <1>3, <1>4

\* Rows that are written, each to a row that may be, and are nobody's claim any more.
LEMMA WrittenRows ==
    ASSUME Rows, UNCHANGED setup, NEW S,
           row' = [j \in Jobs |-> row'[j]],
           \A j \in Jobs : IF j \in S THEN RowOK(row'[j], setup.retryLimit) ELSE row'[j] = row[j],
           holder' = [j \in Jobs |-> IF j \in S THEN Nobody ELSE holder[j]],
           lock' \in [Jobs -> Workers \cup {Nobody}],
           \A j \in Jobs : lock'[j] # Nobody => lock[j] # Nobody /\ j \notin S
    PROVE  Rows'
<1> DEFINE n == setup.retryLimit
<1>1. \A j \in Jobs : RowOK(row'[j], n)
      BY DEF Rows
<1>2. \A j \in Jobs : /\ holder'[j] # Nobody => row'[j].state = "active"
                      /\ lock'[j] # Nobody => row'[j].state = "active"
      BY DEF Rows
<1>3. \A j \in Jobs : row'[j] \in [state : States, retry : 0 .. n, started : BOOLEAN]
      BY <1>1 DEF RowOK
<1>4. row' \in [Jobs -> [state : States, retry : 0 .. n, started : BOOLEAN]]
      BY <1>3
<1>5. holder' \in [Jobs -> Workers \cup {Other, Nobody}]
      BY DEF Rows
<1>6. setup'.retryLimit = n /\ n \in Nat
      BY DEF Rows
<1> QED BY <1>1, <1>2, <1>4, <1>5, <1>6 DEF Rows

\* A fenced settle: the claims on S at the attempt that was fetched are over.
LEMMA SettledRows ==
    ASSUME Rows, UNCHANGED setup, NEW claim, NEW S \in SUBSET Jobs,
           Settle(claim, S, Completed) \/ Settle(claim, S, Failed)
    PROVE  /\ Rows' /\ Kept /\ UNCHANGED lock
           /\ \A j \in S : row[j].retry = claim[j] => holder'[j] \notin Workers
<1> DEFINE hit == {j \in S : Matches(claim, j)}
<1>0. UNCHANGED lock /\ hit \subseteq Jobs /\ (\A j \in hit : lock[j] = Nobody)
      /\ (Write(hit, Completed) \/ Write(hit, Failed))
      BY DEF Settle
<1>1. \A j \in hit : row[j].state = "active"
      BY DEF Matches
<1>2. \A j \in hit : RowOK(Completed(row[j]), setup.retryLimit) /\ RowOK(Failed(row[j]), setup.retryLimit)
      BY <1>0, <1>1, RowFacts DEF Rows
<1>3. lock' \in [Jobs -> Workers \cup {Nobody}] /\ \A j \in Jobs : lock'[j] # Nobody => lock[j] # Nobody /\ j \notin hit
      BY <1>0 DEF Rows
<1>4. Rows' /\ \A j \in Jobs : IF j \in hit THEN holder'[j] = Nobody
                               ELSE row'[j] = row[j] /\ holder'[j] = holder[j]
      <2>1. /\ row' = [j \in Jobs |-> row'[j]]
            /\ holder' = [j \in Jobs |-> IF j \in hit THEN Nobody ELSE holder[j]]
            /\ \A j \in Jobs : IF j \in hit THEN row'[j] = Completed(row[j]) \/ row'[j] = Failed(row[j])
                               ELSE row'[j] = row[j]
            BY <1>0 DEF Write
      <2>2. \A j \in Jobs : IF j \in hit THEN RowOK(row'[j], setup.retryLimit) ELSE row'[j] = row[j]
            BY <1>2, <2>1
      <2> HIDE DEF hit
      <2> QED BY <1>3, <2>1, <2>2, WrittenRows
<1>5. Kept
      BY <1>1, <1>4 DEF Kept
<1>6. ASSUME NEW j \in S, row[j].retry = claim[j]
      PROVE  holder'[j] \notin Workers
      <2>1. CASE j \in hit
            BY <1>4, <2>1, WorkerAssumption
      <2>2. CASE j \notin hit
            <3>1. row[j].state # "active"
                  BY <1>6, <2>2 DEF Matches
            <3> QED BY <1>4, <2>2, <3>1, WorkerAssumption DEF Rows
      <2> QED BY <2>1, <2>2
<1> QED BY <1>0, <1>4, <1>5, <1>6

\* Claims that are given up.
LEMMA GivenUpRows ==
    ASSUME Rows, NEW w \in Workers, GivesUp(w), UNCHANGED <<setup, row, lock>>
    PROVE  Rows' /\ Kept /\ \A j \in Jobs : holder'[j] # w
<1>1. holder' = [j \in Jobs |-> IF holder[j] = w THEN Nobody ELSE holder[j]]
      BY DEF GivesUp
<1>2. holder' \in [Jobs -> Workers \cup {Other, Nobody}]
      BY <1>1 DEF Rows
<1>3. \A j \in Jobs : holder'[j] # w /\ (holder'[j] = holder[j] \/ holder'[j] = Nobody)
      BY <1>1, WorkerAssumption
<1> QED BY <1>2, <1>3 DEF Rows, Kept

\* The steps of other instances and of supervisors, and sends.
LEMMA OtherRows ==
    ASSUME Rows, NEW j \in Jobs, Send(j) \/ OtherClaims(j) \/ OtherCompletes(j) \/ Expire(j)
    PROVE  Rows' /\ Kept /\ UNCHANGED <<setup, lock, wk, ghosts, lifeVars>>
<1> DEFINE n == setup.retryLimit
<1>0. UNCHANGED <<setup, lock, wk, ghosts, lifeVars>>
      BY DEF Send, OtherClaims, OtherCompletes, Expire, OtherStep
<1>1. RowOK(row[j], n) /\ n \in Nat
      BY DEF Rows
<1>2. ASSUME NEW r, RowOK(r, n), NEW h \in {Other, Nobody}, r.state = "active" \/ h = Nobody,
             row[j].state # "completed",
             lock[j] = Nobody,
             row' = [row EXCEPT ![j] = r], holder' = [holder EXCEPT ![j] = h]
      PROVE  Rows' /\ Kept
      <2>1. row' \in [Jobs -> [state : States, retry : 0 .. n, started : BOOLEAN]]
            BY <1>2 DEF Rows, RowOK
      <2>2. holder' \in [Jobs -> Workers \cup {Other, Nobody}]
            BY <1>2 DEF Rows
      <2>3. \A i \in Jobs : IF i = j THEN row'[i] = r /\ holder'[i] = h
                            ELSE row'[i] = row[i] /\ holder'[i] = holder[i]
            BY <1>2 DEF Rows
      <2>4. \A i \in Jobs : /\ RowOK(row'[i], n)
                            /\ holder'[i] # Nobody => row'[i].state = "active"
                            /\ lock[i] # Nobody => row'[i].state = "active"
            BY <1>2, <2>3 DEF Rows
      <2>5. Kept
            BY <1>2, <2>3 DEF Kept
      <2>6. lock' = lock /\ setup' = setup
            BY <1>0
      <2> QED BY <2>1, <2>2, <2>4, <2>5, <2>6 DEF Rows
<1>3. CASE Send(j)
      <2>1. row[j].state = "absent" /\ row' = [row EXCEPT ![j] = Row("queued", 0, FALSE)] /\ holder' = holder
            BY <1>3 DEF Send
      <2>2. holder[j] = Nobody /\ lock[j] = Nobody
            BY <2>1 DEF Rows
      <2>3. holder' = [holder EXCEPT ![j] = Nobody]
            BY <2>1, <2>2 DEF Rows
      <2> QED BY <1>0, <1>1, <1>2, <2>1, <2>2, <2>3, RowFacts
<1>4. CASE OtherClaims(j)
      <2>1. row[j].state = "queued" /\ lock[j] = Nobody
            /\ row' = [row EXCEPT ![j] = Claimed(row[j])] /\ holder' = [holder EXCEPT ![j] = Other]
            BY <1>4 DEF OtherClaims, OtherStep, Rows
      <2> QED BY <1>0, <1>1, <1>2, <2>1, RowFacts
<1>5. CASE OtherCompletes(j) \/ Expire(j)
      <2>1. row[j].state = "active" /\ lock[j] = Nobody /\ holder' = [holder EXCEPT ![j] = Nobody]
            /\ (row' = [row EXCEPT ![j] = Completed(row[j])] \/ row' = [row EXCEPT ![j] = Failed(row[j])])
            BY <1>5 DEF OtherCompletes, Expire, OtherStep, Rows
      <2> QED BY <1>0, <1>1, <1>2, <2>1, RowFacts
<1> QED BY <1>0, <1>3, <1>4, <1>5

\* A claim.
LEMMA ClaimRows ==
    ASSUME Rows, Shaped, NEW w \in Workers, FetchClaim(w)
    PROVE  /\ Rows'
           /\ \A j \in Jobs : \/ row'[j] = row[j] /\ holder'[j] = holder[j]
                              \/ /\ row[j].state = "queued" /\ holder'[j] = w
                                 /\ j \in DOMAIN wk'[w].fetched /\ wk'[w].fetched[j] = row'[j].retry
<1> DEFINE n == setup.retryLimit
<1>1. PICK S \in SUBSET Jobs :
          /\ \A j \in S : row[j].state = "queued"
          /\ row' = [j \in Jobs |-> IF j \in S THEN Claimed(row[j]) ELSE row[j]]
          /\ holder' = [j \in Jobs |-> IF j \in S THEN w ELSE holder[j]]
          /\ Become(w, [wk[w] EXCEPT !.pc = "claimed", !.ignored = {},
                                     !.fetched = [j \in S |-> Claimed(row[j]).retry]])
      BY DEF FetchClaim, kSubset
<1>2. \A j \in S : RowOK(Claimed(row[j]), n) /\ Claimed(row[j]).state = "active" /\ lock[j] = Nobody
      BY <1>1, RowFacts DEF Rows
<1>3. \A j \in Jobs : RowOK(row'[j], n)
      BY <1>1, <1>2 DEF Rows
<1>4. row' \in [Jobs -> [state : States, retry : 0 .. n, started : BOOLEAN]]
      BY <1>1, <1>3 DEF RowOK
<1>5. holder' \in [Jobs -> Workers \cup {Other, Nobody}]
      BY <1>1 DEF Rows
<1>6. \A j \in Jobs : /\ holder'[j] # Nobody => row'[j].state = "active"
                      /\ lock[j] # Nobody => row'[j].state = "active"
      BY <1>1, <1>2 DEF Rows
<1>7. Rows'
      BY <1>3, <1>4, <1>5, <1>6 DEF Rows, FetchClaim
<1>8. \A j \in S : j \in DOMAIN wk'[w].fetched /\ wk'[w].fetched[j] = row'[j].retry
      <2>1. PICK f : f = [j \in S |-> Claimed(row[j]).retry]
            OBVIOUS
      <2>2. wk[w] \in Record(n) /\ wk' = [wk EXCEPT ![w] = [wk[w] EXCEPT !.pc = "claimed", !.ignored = {},
                                                                     !.fetched = f]]
            BY <1>1, <2>1 DEF Shaped, Become
      <2>3. wk'[w].fetched = f
            BY <2>2 DEF Shaped, Record
      <2>4. \A j \in S : row'[j] = Claimed(row[j])
            BY <1>1
      <2> QED BY <2>1, <2>3, <2>4
<1>9. \A j \in Jobs : (row'[j] = row[j] /\ holder'[j] = holder[j]) \/ (j \in S /\ holder'[j] = w)
      BY <1>1
<1> QED BY <1>1, <1>7, <1>8, <1>9

\* The excess goes back, by id.
LEMMA RestoreRows ==
    ASSUME Rows, NEW w \in Workers, RestoreExcess(w)
    PROVE  /\ Rows' /\ UNCHANGED lock
           /\ \A j \in Jobs :
                 \/ row'[j] = row[j] /\ holder'[j] = holder[j]
                 \/ holder'[j] = Nobody /\ (j \in reset' \/ row[j].state = "active")
           /\ \A j \in DOMAIN wk[w].jobs \ DOMAIN wk[w].batch : j \in Jobs => holder'[j] = Nobody
<1> DEFINE X == DOMAIN wk[w].jobs \ DOMAIN wk[w].batch
           n == setup.retryLimit
<1>1. /\ \A j \in X : lock[j] = Nobody
      /\ row' = [j \in Jobs |-> IF j \in X THEN Row("queued", row[j].retry, FALSE) ELSE row[j]]
      /\ holder' = [j \in Jobs |-> IF j \in X THEN Nobody ELSE holder[j]]
      /\ reset' = reset \cup {j \in X : holder[j] # w}
      /\ UNCHANGED <<setup, lock>>
      BY DEF RestoreExcess, Write
<1>2. row' = [j \in Jobs |-> row'[j]]
      BY <1>1
<1>3. \A j \in Jobs : IF j \in X THEN RowOK(row'[j], n) ELSE row'[j] = row[j]
      BY <1>1, RowFacts DEF Rows
<1>4. lock' \in [Jobs -> Workers \cup {Nobody}] /\ \A j \in Jobs : lock'[j] # Nobody => lock[j] # Nobody /\ j \notin X
      BY <1>1 DEF Rows
<1>5. Rows'
      <2> HIDE DEF X
      <2> QED BY <1>1, <1>2, <1>3, <1>4, WrittenRows
<1>6. \A j \in X : j \in Jobs => holder'[j] = Nobody /\ (holder[j] # w => j \in reset')
      BY <1>1
<1>7. \A j \in Jobs : holder[j] = w => row[j].state = "active"
      BY WorkerAssumption DEF Rows
<1> QED BY <1>1, <1>5, <1>6, <1>7

\* COMMIT.
LEMMA CommitRows ==
    ASSUME Rows, NEW w \in Workers, Commits(w)
    PROVE  /\ Rows' /\ Kept /\ UNCHANGED setup
           /\ lock' = [j \in Jobs |-> IF lock[j] = w THEN Nobody ELSE lock[j]]
           /\ \A j \in Jobs : lock[j] = w =>
                 row[j].state = "active" /\ row'[j].state = "completed" /\ holder'[j] = Nobody
<1> DEFINE X == {j \in Jobs : lock[j] = w}
           n == setup.retryLimit
<1>1. /\ row' = [j \in Jobs |-> IF j \in X THEN Completed(row[j]) ELSE row[j]]
      /\ holder' = [j \in Jobs |-> IF j \in X THEN Nobody ELSE holder[j]]
      /\ lock' = [j \in Jobs |-> IF lock[j] = w THEN Nobody ELSE lock[j]]
      /\ UNCHANGED setup
      BY DEF Commits, Write, Unlock
<1>2. \A j \in X : row[j].state = "active"
      BY WorkerAssumption DEF Rows
<1>3. row' = [j \in Jobs |-> row'[j]]
      BY <1>1
<1>4. \A j \in Jobs : IF j \in X THEN RowOK(row'[j], n) /\ row'[j].state = "completed" ELSE row'[j] = row[j]
      BY <1>1, <1>2, RowFacts DEF Rows
<1>5. lock' \in [Jobs -> Workers \cup {Nobody}]
      BY <1>1 DEF Rows
<1>6. \A j \in Jobs : lock'[j] # Nobody => lock[j] # Nobody /\ j \notin X
      BY <1>1
<1>7. Rows'
      <2> HIDE DEF X
      <2> QED BY <1>1, <1>3, <1>4, <1>5, <1>6, WrittenRows
<1>8. Kept
      BY <1>1, <1>2, <1>4 DEF Kept
<1> QED BY <1>1, <1>2, <1>4, <1>7, <1>8

-----------------------------------------------------------------------------
(* Claims, locks and writes *)

\* Where a worker has a job it holds a claim on, with k retries: past the end of its
\* round, and when a handler has outrun its timeout, it holds none.
OwesAt(r, j, k) ==
    /\ r.pc \in {"claimed", "restoring", "restored"} \cup (Holding \ {"overrun"})
    /\ r.pc = "claimed" => j \in DOMAIN r.fetched /\ r.fetched[j] = k
    /\ r.pc = "restoring" => j \in DOMAIN r.jobs /\ r.jobs[j] = k
    /\ r.pc \in {"restored"} \cup Holding => j \in DOMAIN r.batch /\ r.batch[j] = k
    /\ r.pc = "rest" => j \in r.rest

Owing == \A w \in Workers, j \in Jobs : holder[j] = w => OwesAt(wk[w], j, row[j].retry)

\* A transaction that commits has changed every row of its batch.
Locked == \A w \in Workers : At(w, "committing") => \A j \in DOMAIN wk[w].batch : lock[j] = w

Written == writes \in [Jobs -> 0 .. 2] /\ reset \subseteq Jobs /\ WritesCommitOnce

Data == Rows /\ Owing /\ Locked /\ Written

\* One worker moves, and no claim of it is left behind.
LEMMA WorkerClaims ==
    ASSUME Shaped, Data, NEW w \in Workers, NEW r, Become(w, r), Kept,
           \A j \in Jobs, v \in Workers \ {w} : lock[j] = v => lock'[j] = v,
           \A j \in Jobs : holder'[j] = w => OwesAt(r, j, row[j].retry),
           r.pc = "committing" => \A j \in DOMAIN r.batch : lock'[j] = w
    PROVE  Owing' /\ Locked'
<1>1. wk'[w] = r /\ \A v \in Workers \ {w} : wk'[v] = wk[v]
      BY DEF Become, Shaped
<1>2. \A v \in Workers, j \in Jobs : holder'[j] = v => holder[j] = v /\ row'[j] = row[j]
      BY WorkerAssumption DEF Kept
<1>3. Owing'
      BY <1>1, <1>2 DEF Data, Owing
<1>4. \A v \in Workers : DOMAIN wk[v].batch \subseteq Jobs
      BY AttemptFacts DEF Shaped, Record
<1>5. Locked'
      BY <1>1, <1>4 DEF Data, Locked, At
<1> QED BY <1>3, <1>5

LEMMA WorkerData ==
    ASSUME Shaped, Data, NEW w \in Workers, NEW r, Become(w, r), Rows', Kept, UNCHANGED <<writes, reset>>,
           \A j \in Jobs, v \in Workers \ {w} : lock[j] = v => lock'[j] = v,
           \A j \in Jobs : holder'[j] = w => OwesAt(r, j, row[j].retry),
           r.pc = "committing" => \A j \in DOMAIN r.batch : lock'[j] = w
    PROVE  Data'
<1>1. Owing' /\ Locked'
      BY WorkerClaims
<1>2. Written'
      BY DEF Data, Written, WritesCommitOnce, Kept
<1> QED BY <1>1, <1>2 DEF Data

\* No worker moves, except that it is woken up.
LEMMA QuietData ==
    ASSUME Shaped, Data, Rows', Kept, UNCHANGED <<writes, reset>>,
           \A j \in Jobs, v \in Workers : lock[j] = v => lock'[j] = v,
           \A w \in Workers : /\ wk'[w].pc = wk[w].pc \/ (wk[w].pc = "sleeping" /\ wk'[w].pc = "loop")
                              /\ wk'[w].fetched = wk[w].fetched /\ wk'[w].jobs = wk[w].jobs
                              /\ wk'[w].batch = wk[w].batch /\ wk'[w].rest = wk[w].rest
    PROVE  Data'
<1>2. \A v \in Workers, j \in Jobs : holder'[j] = v => holder[j] = v /\ row'[j] = row[j]
      BY WorkerAssumption DEF Kept
<1>3. Owing'
      <2> SUFFICES ASSUME NEW w \in Workers, NEW j \in Jobs, holder'[j] = w
                   PROVE  OwesAt(wk[w], j, row[j].retry)'
          BY DEF Owing
      <2>1. OwesAt(wk[w], j, row[j].retry) /\ row'[j] = row[j]
            BY <1>2 DEF Data, Owing
      <2> QED BY <2>1 DEF OwesAt, Holding
<1>4. \A v \in Workers : DOMAIN wk[v].batch \subseteq Jobs
      BY AttemptFacts DEF Shaped, Record
<1>5. Locked'
      BY <1>4 DEF Data, Locked, At
<1>6. Written'
      BY DEF Data, Written, WritesCommitOnce, Kept
<1> QED BY <1>3, <1>5, <1>6 DEF Data

\* A statement that changes no row.
LEMMA SameRows ==
    ASSUME Rows, UNCHANGED <<setup, row, holder>>, lock' \in [Jobs -> Workers \cup {Nobody}],
           \A j \in Jobs : lock'[j] # Nobody => row[j].state = "active"
    PROVE  Rows' /\ Kept
BY DEF Rows, Kept

\* Where a round and a batch end.
LEMMA RoundPc ==
    ASSUME NEW w \in Workers, NEW n, NEW r \in Record(n), EndRound(w, r)
    PROVE  \E q : Become(w, q) /\ q.pc \in {"loop", "sleeping"} /\ q.batch = r.batch
<1>1. ASSUME NEW p
      PROVE  [r EXCEPT !.pc = p].pc = p /\ [r EXCEPT !.pc = p].batch = r.batch
      BY DEF Record
<1> QED BY <1>1 DEF EndRound

LEMMA AfterPc ==
    ASSUME Shaped, NEW w \in Workers, NEW keep \in BOOLEAN, AfterBatch(w, keep)
    PROVE  \E q : Become(w, q) /\ q.pc \in {"loop", "sleeping", "overrun"}
<1> DEFINE n == setup.retryLimit
<1>0. wk[w] \in Record(n)
      BY DEF Shaped
<1>1. PICK q, x : /\ x = (IF keep THEN wk[w].jobs ELSE None)
                  /\ q = [wk[w] EXCEPT !.ctl = FALSE, !.rest = {}, !.jobs = x]
                  /\ \/ Become(w, [q EXCEPT !.pc = "overrun", !.jobs = None])
                     \/ EndRound(w, [q EXCEPT !.batch = None, !.running = FALSE])
                     \/ EndRound(w, [q EXCEPT !.batch = None])
      BY DEF AfterBatch
<1>2. x \in Attempts(n)
      BY <1>0, <1>1, NoneFacts DEF Record
<1>3. q \in Record(n)
      BY <1>0, <1>1, <1>2 DEF Record
<1>4. PICK a, b, c : /\ a = [q EXCEPT !.pc = "overrun", !.jobs = None]
                     /\ b = [q EXCEPT !.batch = None, !.running = FALSE]
                     /\ c = [q EXCEPT !.batch = None]
      OBVIOUS
<1>5. a.pc = "overrun" /\ b \in Record(n) /\ c \in Record(n)
      BY <1>3, <1>4, NoneFacts DEF Record
<1> QED BY <1>1, <1>4, <1>5, RoundPc

\* The fetch.
LEMMA FetchData ==
    ASSUME Shaped, Data, NEW w \in Workers, FetchStart(w) \/ FetchClaim(w) \/ FetchFails(w)
    PROVE  Data'
<1> DEFINE n == setup.retryLimit
<1>0. wk[w] \in Record(n) /\ UNCHANGED <<setup, lock, writes, reset>>
      BY DEF Shaped, FetchStart, FetchClaim, FetchFails, db, ghosts
<1>1. CASE FetchStart(w)
      <2>1. PICK q : q = [wk[w] EXCEPT !.pc = "fetching", !.notified = FALSE, !.owed = FALSE,
                                       !.ignored = AtLocalCapacity]
            OBVIOUS
      <2>2. q.pc = "fetching"
            BY <1>0, <2>1 DEF Record
      <2>3. Become(w, q) /\ UNCHANGED <<row, holder>>
            BY <1>1, <2>1 DEF FetchStart, db
      <2>4. Rows' /\ Kept
            BY <1>0, <2>3, SameRows DEF Data, Rows
      <2>5. \A j \in Jobs : holder'[j] # w
            BY <1>1, <2>3 DEF FetchStart, Data, Owing, OwesAt, Holding
      <2> QED BY <1>0, <2>2, <2>3, <2>4, <2>5, WorkerData
<1>2. CASE FetchClaim(w)
      <2>1. Rows' /\ \A j \in Jobs : \/ row'[j] = row[j] /\ holder'[j] = holder[j]
                                     \/ /\ row[j].state = "queued" /\ holder'[j] = w
                                        /\ j \in DOMAIN wk'[w].fetched /\ wk'[w].fetched[j] = row'[j].retry
            BY <1>2, ClaimRows DEF Data
      <2>2. wk'[w].pc = "claimed" /\ (\A v \in Workers \ {w} : wk'[v] = wk[v]) /\ wk[w].pc = "fetching"
            <3>1. PICK f : wk' = [wk EXCEPT ![w] = [wk[w] EXCEPT !.pc = "claimed", !.ignored = {}, !.fetched = f]]
                  BY <1>2 DEF FetchClaim, Become
            <3> QED BY <1>0, <1>2, <3>1 DEF Shaped, Record, FetchClaim, At
      <2>3. \A j \in Jobs : holder[j] # w
            BY <2>2 DEF Data, Owing, OwesAt, Holding
      <2>4. Owing'
            BY <2>1, <2>2, <2>3 DEF Data, Owing, OwesAt, Holding
      <2>5. Locked'
            BY <1>0, <2>2 DEF Data, Locked, At
      <2>6. Written'
            BY <1>0, <2>1 DEF Data, Written, WritesCommitOnce
      <2> QED BY <2>1, <2>4, <2>5, <2>6 DEF Data
<1>3. CASE FetchFails(w)
      <2>1. PICK q : q = [wk[w] EXCEPT !.fetched = None, !.ignored = {}]
            OBVIOUS
      <2>2. q \in Record(n)
            BY <1>0, <2>1, NoneFacts DEF Record
      <2>3. PICK r : Become(w, r) /\ r.pc \in {"loop", "sleeping"}
            BY <1>3, <2>1, <2>2, RoundPc DEF FetchFails
      <2>4. Rows' /\ Kept /\ \A j \in Jobs : holder'[j] # w
            BY <1>0, <1>3, GivenUpRows DEF FetchFails, Data
      <2> QED BY <1>0, <2>3, <2>4, WorkerData
<1> QED BY <1>1, <1>2, <1>3

\* The answer, and the excess.
LEMMA ReturnData ==
    ASSUME Shaped, Data, NEW w \in Workers, FetchReturn(w) \/ RestoreReturn(w) \/ RestoreFails(w)
    PROVE  Data'
<1> DEFINE n == setup.retryLimit
<1>0. wk[w] \in Record(n) /\ Shape(wk[w], n) /\ UNCHANGED <<setup, lock, writes, reset>>
      BY DEF Shaped, FetchReturn, RestoreReturn, RestoreFails, db, ghosts
<1>1. ASSUME NEW q \in Record(n), q.rest = {}, q.batch # None, ~q.running, q.owed => q.notified,
             Become(w, Enter(q)), UNCHANGED <<row, holder>>,
             \A j \in Jobs : holder[j] = w => j \in DOMAIN q.batch /\ q.batch[j] = row[j].retry
      PROVE  Data'
      <2>1. PICK r : r = Enter(q)
            OBVIOUS
      <2>2. r.pc \in {"begin", "running", "failing"} /\ r.batch = q.batch
            BY <1>1, <2>1, Entered
      <2>3. Rows' /\ Kept
            BY <1>0, <1>1, SameRows DEF Data, Rows
      <2>4. \A j \in Jobs : holder'[j] = w => OwesAt(r, j, row[j].retry)
            BY <1>1, <2>2 DEF OwesAt, Holding
      <2> QED BY <1>0, <1>1, <2>1, <2>2, <2>3, <2>4, WorkerData
<1>2. CASE FetchReturn(w)
      <2> DEFINE S == DOMAIN wk[w].fetched
      <2>1. PICK A, b, q :
                /\ A \in SUBSET S
                /\ b = [j \in A |-> wk[w].fetched[j]]
                /\ q = [wk[w] EXCEPT !.fetched = None, !.jobs = wk[w].fetched, !.batch = b]
                /\ \/ S = {} /\ EndRound(w, q)
                   \/ S # {} /\ A = S /\ Become(w, Enter(q))
                   \/ S # A /\ Become(w, [q EXCEPT !.pc = "restoring"])
            BY <1>2 DEF FetchReturn
      <2>2. b \in Attempts(n) /\ DOMAIN b = A /\ wk[w].fetched \in Attempts(n)
            <3>1. wk[w].fetched \in Attempts(n)
                  BY <1>0 DEF Record
            <3>2. A \in SUBSET Jobs /\ b \in [A -> 0 .. n]
                  BY <2>1, <3>1, AttemptFacts
            <3> QED BY <3>1, <3>2, AttemptMap
      <2>3. q \in Record(n) /\ q.batch = b /\ q.jobs = wk[w].fetched /\ q.rest = wk[w].rest
            /\ q.running = wk[w].running /\ q.owed = wk[w].owed /\ q.notified = wk[w].notified
            BY <1>0, <2>1, <2>2, NoneFacts DEF Record
      <2>4. q.rest = {} /\ ~q.running /\ (q.owed => q.notified)
            BY <1>0, <1>2, <2>3, NoneFacts DEF Shape, Idle, Holding, FetchReturn, At
      <2>5. UNCHANGED <<row, holder>>
            BY <1>2 DEF FetchReturn, db
      <2>6. \A j \in Jobs : holder[j] = w => j \in S /\ wk[w].fetched[j] = row[j].retry
            BY <1>2 DEF Data, Owing, OwesAt, FetchReturn, At
      <2>7. Rows' /\ Kept
            BY <1>0, <2>5, SameRows DEF Data, Rows
      <2>8. CASE S = {} /\ EndRound(w, q)
            <3>1. PICK r : Become(w, r) /\ r.pc \in {"loop", "sleeping"}
                  BY <2>3, <2>8, RoundPc
            <3>2. \A j \in Jobs : holder'[j] # w
                  BY <2>5, <2>6, <2>8
            <3> QED BY <1>0, <2>7, <3>1, <3>2, WorkerData
      <2>9. CASE S # {} /\ A = S /\ Become(w, Enter(q))
            <3>1. q.batch # None
                  BY <2>2, <2>3, <2>9, NoneFacts
            <3>2. \A j \in Jobs : holder[j] = w => j \in DOMAIN q.batch /\ q.batch[j] = row[j].retry
                  BY <2>1, <2>2, <2>3, <2>6, <2>9
            <3> QED BY <1>1, <2>3, <2>4, <2>5, <2>9, <3>1, <3>2
      <2>10. CASE S # A /\ Become(w, [q EXCEPT !.pc = "restoring"])
            <3>1. PICK r : r = [q EXCEPT !.pc = "restoring"]
                  OBVIOUS
            <3>2. r.pc = "restoring" /\ r.jobs = wk[w].fetched
                  BY <2>3, <3>1 DEF Record
            <3>3. \A j \in Jobs : holder'[j] = w => OwesAt(r, j, row[j].retry)
                  BY <2>5, <2>6, <3>2 DEF OwesAt, Holding
            <3> QED BY <1>0, <2>7, <2>10, <3>1, <3>2, <3>3, WorkerData
      <2> QED BY <2>1, <2>8, <2>9, <2>10
<1>3. CASE RestoreReturn(w)
      <2>1. PICK q : /\ q = [wk[w] EXCEPT !.jobs = wk[w].batch]
                     /\ \/ q.batch = None /\ EndRound(w, q)
                        \/ q.batch # None /\ Become(w, Enter(q))
            BY <1>3 DEF RestoreReturn
      <2>2. q \in Record(n) /\ q.owed = wk[w].owed /\ q.notified = wk[w].notified
            /\ q.batch = wk[w].batch /\ q.rest = wk[w].rest /\ q.running = wk[w].running
            BY <1>0, <2>1 DEF Record
      <2>3. q.rest = {} /\ ~q.running /\ (q.owed => q.notified)
            BY <1>0, <1>3, <2>2 DEF Shape, Idle, Holding, RestoreReturn, At
      <2>4. \A j \in Jobs : holder[j] = w => j \in DOMAIN q.batch /\ q.batch[j] = row[j].retry
            BY <1>3, <2>2 DEF Data, Owing, OwesAt, RestoreReturn, At
      <2>5. UNCHANGED <<row, holder>>
            BY <1>3 DEF RestoreReturn, db
      <2>6. CASE q.batch = None /\ EndRound(w, q)
            <3>1. PICK r : Become(w, r) /\ r.pc \in {"loop", "sleeping"}
                  BY <2>2, <2>6, RoundPc
            <3>2. \A j \in Jobs : holder'[j] # w
                  BY <2>4, <2>5, <2>6, NoneFacts
            <3>3. Rows' /\ Kept
                  BY <1>0, <2>5, SameRows DEF Data, Rows
            <3> QED BY <1>0, <3>1, <3>2, <3>3, WorkerData
      <2>7. CASE q.batch # None /\ Become(w, Enter(q))
            BY <1>1, <2>2, <2>3, <2>4, <2>5, <2>7
      <2> QED BY <2>1, <2>6, <2>7
<1>4. CASE RestoreFails(w)
      <2>1. PICK q : q = [wk[w] EXCEPT !.batch = None] /\ EndRound(w, q)
            BY <1>4 DEF RestoreFails
      <2>2. q \in Record(n)
            BY <1>0, <2>1, NoneFacts DEF Record
      <2>3. PICK r : Become(w, r) /\ r.pc \in {"loop", "sleeping"}
            BY <2>1, <2>2, RoundPc
      <2>4. Rows' /\ Kept /\ \A j \in Jobs : holder'[j] # w
            BY <1>0, <1>4, GivenUpRows DEF RestoreFails, Data
      <2> QED BY <1>0, <2>3, <2>4, WorkerData
<1> QED BY <1>2, <1>3, <1>4

\* The excess goes back.
LEMMA RestoreData ==
    ASSUME Shaped, Data, NEW w \in Workers, RestoreExcess(w)
    PROVE  Data'
<1> DEFINE n == setup.retryLimit
<1>0. wk[w] \in Record(n) /\ Shape(wk[w], n) /\ wk[w].pc = "restoring"
      BY DEF Shaped, RestoreExcess, At
<1>1. Rows' /\ UNCHANGED lock
      /\ (\A j \in Jobs : \/ row'[j] = row[j] /\ holder'[j] = holder[j]
                          \/ holder'[j] = Nobody /\ (j \in reset' \/ row[j].state = "active"))
      /\ \A j \in DOMAIN wk[w].jobs \ DOMAIN wk[w].batch : j \in Jobs => holder'[j] = Nobody
      BY RestoreRows DEF Data
<1>2. wk'[w].pc = "restored" /\ wk'[w].batch = wk[w].batch /\ \A v \in Workers \ {w} : wk'[v] = wk[v]
      BY <1>0 DEF RestoreExcess, Become, Shaped, Record
<1>3. Owing'
      <2> SUFFICES ASSUME NEW v \in Workers, NEW j \in Jobs, holder'[j] = v
                   PROVE  OwesAt(wk[v], j, row[j].retry)'
          BY DEF Owing
      <2>1. holder[j] = v /\ row'[j] = row[j]
            BY <1>1, WorkerAssumption
      <2>2. CASE v # w
            BY <1>2, <2>1, <2>2 DEF Data, Owing
      <2>3. CASE v = w
            <3>1. j \in DOMAIN wk[w].jobs /\ wk[w].jobs[j] = row[j].retry
                  BY <1>0, <2>1, <2>3 DEF Data, Owing, OwesAt
            <3>2. j \in DOMAIN wk[w].batch
                  BY <1>1, <2>3, <3>1, WorkerAssumption
            <3>3. wk[w].batch[j] = wk[w].jobs[j]
                  BY <1>0, <3>2 DEF Shape
            <3> QED BY <1>2, <2>1, <2>3, <3>1, <3>2, <3>3 DEF OwesAt, Holding
      <2> QED BY <2>2, <2>3
<1>4. Locked'
      BY <1>1, <1>2 DEF Data, Locked, At
<1>5. Written'
      <2>1. writes' = writes /\ reset \subseteq reset' /\ reset' \subseteq Jobs
            <3>1. DOMAIN wk[w].jobs \subseteq Jobs
                  BY <1>0, AttemptFacts DEF Record
            <3> QED BY <3>1 DEF RestoreExcess, Data, Written
      <2> QED BY <1>1, <2>1 DEF Data, Written, WritesCommitOnce
<1> QED BY <1>1, <1>3, <1>4, <1>5 DEF Data

\* A worker moves on with its batch, and changes no row.
LEMMA MoveData ==
    ASSUME Shaped, Data, NEW w \in Workers, wk[w].pc \in Holding \ {"overrun"}, NEW q, Become(w, q),
           q.pc \in Holding \ {"overrun", "committing", "rest"}, q.batch = wk[w].batch,
           UNCHANGED <<setup, row, holder, writes, reset>>, lock' \in [Jobs -> Workers \cup {Nobody}],
           \A j \in Jobs : lock'[j] # Nobody => row[j].state = "active",
           \A j \in Jobs, v \in Workers \ {w} : lock[j] = v => lock'[j] = v
    PROVE  Data'
<1>1. Rows' /\ Kept
      BY SameRows DEF Data
<1>2. \A j \in Jobs : holder'[j] = w => OwesAt(q, j, row[j].retry)
      BY DEF Data, Owing, OwesAt, Holding
<1> QED BY <1>1, <1>2, WorkerData

\* A batch ends, and no claim of its worker is left.
LEMMA EndData ==
    ASSUME Shaped, Data, NEW w \in Workers, NEW keep \in BOOLEAN, AfterBatch(w, keep), Rows', Kept,
           UNCHANGED <<lock, writes, reset>>, \A j \in Jobs : holder'[j] # w
    PROVE  Data'
<1>1. PICK q : Become(w, q) /\ q.pc \in {"loop", "sleeping", "overrun"}
      BY AfterPc
<1> QED BY <1>1, WorkerData

\* The handler, and the steps before and after it that change no row.
LEMMA HandlerData ==
    ASSUME Shaped, Data, NEW w \in Workers,
           \/ StartHandler(w) \/ HandlerReturns(w) \/ RaceEnds(w) \/ SettleRaises(w) \/ Rollback(w)
           \/ \E j \in Jobs : HandlerSettles(w, j)
    PROVE  Data'
<1> DEFINE n == setup.retryLimit
<1>0. wk[w] \in Record(n) /\ UNCHANGED <<setup, row, holder, writes, reset>>
      BY DEF Shaped, StartHandler, HandlerReturns, RaceEnds, SettleRaises, Rollback, HandlerSettles, db, ghosts
<1>1. ASSUME NEW p \in Holding \ {"overrun", "committing", "rest"}, NEW b, NEW t,
             \/ Become(w, [wk[w] EXCEPT !.pc = p]) \/ Become(w, [wk[w] EXCEPT !.pc = p, !.running = b])
             \/ Become(w, [wk[w] EXCEPT !.pc = p, !.rest = t]),
             wk[w].pc \in Holding \ {"overrun"}, UNCHANGED lock
      PROVE  Data'
      <2>1. \E q : Become(w, q) /\ q.pc = p /\ q.batch = wk[w].batch
            <3>1. PICK x, y, z : /\ x = [wk[w] EXCEPT !.pc = p]
                                 /\ y = [wk[w] EXCEPT !.pc = p, !.running = b]
                                 /\ z = [wk[w] EXCEPT !.pc = p, !.rest = t]
                  OBVIOUS
            <3>2. \A q \in {x, y, z} : q.pc = p /\ q.batch = wk[w].batch
                  BY <1>0, <3>1 DEF Record
            <3> QED BY <1>1, <3>1, <3>2
      <2>2. PICK q : Become(w, q) /\ q.pc = p /\ q.batch = wk[w].batch
            BY <2>1
      <2> QED BY <1>0, <1>1, <2>2, MoveData DEF Data, Rows
<1>2. CASE StartHandler(w)
      BY <1>1, <1>2 DEF StartHandler, At, Holding, db
<1>3. CASE HandlerReturns(w) \/ RaceEnds(w)
      BY <1>1, <1>3 DEF HandlerReturns, RaceEnds, At, Holding, OnError, db
<1>4. CASE SettleRaises(w)
      BY <1>1, <1>4 DEF SettleRaises, Holding, OnError, db
<1>5. CASE Rollback(w)
      <2>1. PICK q : q = [wk[w] EXCEPT !.pc = "failing"]
            OBVIOUS
      <2>2. Become(w, q) /\ q.pc = "failing" /\ q.batch = wk[w].batch
            BY <1>0, <1>5, <2>1 DEF Rollback, Record
      <2>3. lock' = [j \in Jobs |-> IF lock[j] = w THEN Nobody ELSE lock[j]]
            BY <1>5 DEF Rollback, Unlock
      <2>4. lock' \in [Jobs -> Workers \cup {Nobody}]
            BY <2>3 DEF Data, Rows
      <2>5. \A j \in Jobs : lock'[j] # Nobody => row[j].state = "active"
            BY <2>3 DEF Data, Rows
      <2> QED BY <1>0, <1>5, <2>2, <2>3, <2>4, <2>5, MoveData DEF Rollback, At, Holding
<1>6. ASSUME NEW j \in Jobs, HandlerSettles(w, j)
      PROVE  Data'
      <2>1. lock' = [lock EXCEPT ![j] = w] /\ lock[j] = Nobody /\ row[j].state = "active" /\ UNCHANGED wk
            BY <1>6 DEF HandlerSettles, Matches
      <2>2. lock' \in [Jobs -> Workers \cup {Nobody}]
            BY <2>1 DEF Data, Rows
      <2>3. \A i \in Jobs : lock'[i] # Nobody => row[i].state = "active"
            BY <2>1 DEF Data, Rows
      <2>4. \A i \in Jobs, v \in Workers : lock[i] = v => lock'[i] = v
            BY <2>1, WorkerAssumption DEF Data, Rows
      <2>5. Rows' /\ Kept
            BY <1>0, <2>2, <2>3, SameRows DEF Data
      <2> QED BY <1>0, <2>1, <2>4, <2>5, QuietData
<1> QED BY <1>2, <1>3, <1>4, <1>5, <1>6

\* The settles outside a transaction.
LEMMA SettleData ==
    ASSUME Shaped, Data, NEW w \in Workers, CompleteBatch(w) \/ FailRest(w) \/ FailBatch(w)
    PROVE  Data'
<1> DEFINE n == setup.retryLimit
           S == DOMAIN wk[w].batch
<1>0. wk[w] \in Record(n) /\ S \subseteq Jobs /\ wk[w].rest \subseteq S /\ UNCHANGED <<setup, writes, reset>>
      BY AttemptFacts DEF Shaped, Shape, Record, CompleteBatch, FailRest, FailBatch, ghosts
<1>1. ASSUME NEW C \in SUBSET S, Settle(wk[w].batch, C, Completed) \/ Settle(wk[w].batch, C, Failed)
      PROVE  Rows' /\ Kept /\ UNCHANGED lock
             /\ \A j \in Jobs : holder'[j] = w => holder[j] = w /\ ~(j \in C /\ row[j].retry = wk[w].batch[j])
      <2>1. C \in SUBSET Jobs
            BY <1>0
      <2>2. /\ Rows' /\ Kept /\ UNCHANGED lock
            /\ \A j \in C : row[j].retry = wk[w].batch[j] => holder'[j] \notin Workers
            BY <1>0, <1>1, <2>1, SettledRows DEF Data
      <2>3. \A j \in Jobs : holder'[j] = w => holder[j] = w
            BY <2>2, WorkerAssumption DEF Kept
      <2> QED BY <2>2, <2>3
<1>2. \A j \in Jobs : /\ holder[j] = w /\ wk[w].pc \in Holding => j \in S /\ row[j].retry = wk[w].batch[j]
                      /\ holder[j] = w /\ wk[w].pc = "rest" => j \in wk[w].rest
      BY DEF Data, Owing, OwesAt
<1>3. ASSUME NEW C \in SUBSET S, Settle(wk[w].batch, C, Completed) \/ Settle(wk[w].batch, C, Failed),
             AfterBatch(w, FALSE), wk[w].pc \in Holding, C = S \/ (wk[w].pc = "rest" /\ C = wk[w].rest)
      PROVE  Data'
      <2>1. Rows' /\ Kept /\ UNCHANGED lock /\ \A j \in Jobs : holder'[j] # w
            BY <1>1, <1>2, <1>3
      <2> QED BY <1>0, <1>3, <2>1, EndData
<1>4. CASE CompleteBatch(w)
      <2>1. PICK C \in SUBSET S :
                /\ Settle(wk[w].batch, C, Completed)
                /\ \/ C = S /\ AfterBatch(w, FALSE)
                   \/ C # S /\ Become(w, [wk[w] EXCEPT !.pc = "rest", !.rest = S \ C])
            BY <1>4 DEF CompleteBatch
      <2>2. wk[w].pc = "returned"
            BY <1>4 DEF CompleteBatch, At
      <2>3. CASE C = S /\ AfterBatch(w, FALSE)
            BY <1>3, <2>1, <2>2, <2>3 DEF Holding
      <2>4. CASE C # S /\ Become(w, [wk[w] EXCEPT !.pc = "rest", !.rest = S \ C])
            <3>1. PICK q : q = [wk[w] EXCEPT !.pc = "rest", !.rest = S \ C]
                  OBVIOUS
            <3>2. q.pc = "rest" /\ q.rest = S \ C /\ q.batch = wk[w].batch
                  BY <1>0, <3>1 DEF Record
            <3>3. Rows' /\ Kept /\ UNCHANGED lock
                  /\ \A j \in Jobs : holder'[j] = w => holder[j] = w /\ ~(j \in C /\ row[j].retry = wk[w].batch[j])
                  BY <1>1, <2>1
            <3>4. \A j \in Jobs : holder'[j] = w => OwesAt(q, j, row[j].retry)
                  BY <1>2, <2>2, <3>2, <3>3 DEF OwesAt, Holding
            <3> QED BY <1>0, <2>4, <3>1, <3>2, <3>3, <3>4, WorkerData
      <2> QED BY <2>1, <2>3, <2>4
<1>5. CASE FailRest(w)
      BY <1>0, <1>3, <1>5 DEF FailRest, At, Holding
<1>6. CASE FailBatch(w)
      BY <1>3, <1>6 DEF FailBatch, At, Holding
<1> QED BY <1>4, <1>5, <1>6

\* A claim that is given up, a handler that returns late or is abandoned.
LEMMA LateData ==
    ASSUME Shaped, Data, NEW w \in Workers, FailRaises(w) \/ OverrunReturns(w) \/ OverrunAbandoned(w)
    PROVE  Data'
<1> DEFINE n == setup.retryLimit
<1>0. wk[w] \in Record(n) /\ UNCHANGED <<setup, row, lock, writes, reset>>
      BY DEF Shaped, FailRaises, OverrunReturns, OverrunAbandoned, db, ghosts
<1>1. CASE FailRaises(w)
      <2>1. Rows' /\ Kept /\ \A j \in Jobs : holder'[j] # w
            BY <1>0, <1>1, GivenUpRows DEF FailRaises, Data
      <2> QED BY <1>0, <1>1, <2>1, EndData DEF FailRaises
<1>2. CASE OverrunReturns(w) \/ OverrunAbandoned(w)
      <2>1. UNCHANGED holder /\ wk[w].pc = "overrun"
            BY <1>2 DEF OverrunReturns, OverrunAbandoned, At, db
      <2>2. \A j \in Jobs : holder'[j] # w
            BY <2>1 DEF Data, Owing, OwesAt, Holding
      <2>3. Rows' /\ Kept
            BY <1>0, <2>1, SameRows DEF Data, Rows
      <2>4. CASE OverrunAbandoned(w)
            BY <1>0, <2>2, <2>3, <2>4, EndData DEF OverrunAbandoned
      <2>5. CASE OverrunReturns(w)
            <3>1. PICK q : q = [wk[w] EXCEPT !.batch = None, !.running = FALSE] /\ EndRound(w, q)
                  BY <2>5 DEF OverrunReturns
            <3>2. q \in Record(n)
                  BY <1>0, <3>1, NoneFacts DEF Record
            <3>3. PICK r : Become(w, r) /\ r.pc \in {"loop", "sleeping"}
                  BY <3>1, <3>2, RoundPc
            <3> QED BY <1>0, <2>2, <2>3, <3>3, WorkerData
      <2> QED BY <1>2, <2>4, <2>5
<1> QED BY <1>1, <1>2

\* The transaction.
LEMMA TransactionData ==
    ASSUME Shaped, Data, NEW w \in Workers,
           CompleteInTransaction(w) \/ Commit(w) \/ CommitAnswerLost(w)
    PROVE  Data'
<1> DEFINE n == setup.retryLimit
           S == DOMAIN wk[w].batch
<1>0. wk[w] \in Record(n) /\ S \subseteq Jobs
      BY AttemptFacts DEF Shaped, Record
<1>1. CASE CompleteInTransaction(w)
      <2> DEFINE own == {j \in S : lock[j] = w}
                 hit == {j \in S \ own : Matches(wk[w].batch, j)}
                 held == ~wk[w].aborted /\ hit \cup own = S
      <2>0. wk[w].pc = "returned" /\ UNCHANGED <<setup, row, holder, writes, reset>>
            BY <1>1 DEF CompleteInTransaction, At, ghosts
      <2>1. PICK p : /\ p = (IF held THEN "committing" ELSE "catch")
                     /\ Become(w, [wk[w] EXCEPT !.pc = p])
            BY <1>1 DEF CompleteInTransaction
      <2>2. lock' = [j \in Jobs |-> IF held /\ j \in hit THEN w ELSE lock[j]]
            /\ (wk[w].aborted \/ \A j \in hit : lock[j] = Nobody)
            BY <1>1 DEF CompleteInTransaction
      <2>3. lock' \in [Jobs -> Workers \cup {Nobody}]
            BY <2>2 DEF Data, Rows
      <2>4. \A j \in hit : row[j].state = "active"
            BY DEF Matches
      <2>5. \A j \in Jobs : lock'[j] # Nobody => row[j].state = "active"
            BY <2>2, <2>4 DEF Data, Rows
      <2>6. \A j \in Jobs, v \in Workers \ {w} : lock[j] = v => lock'[j] = v
            BY <2>2, WorkerAssumption
      <2>7. Rows' /\ Kept
            BY <2>0, <2>3, <2>5, SameRows DEF Data
      <2>8. PICK q : q = [wk[w] EXCEPT !.pc = p]
            OBVIOUS
      <2>9. q.pc = p /\ q.batch = wk[w].batch
            BY <1>0, <2>8 DEF Record
      <2>10. \A j \in Jobs : holder'[j] = w => OwesAt(q, j, row[j].retry)
             <3>1. \A j \in Jobs : holder[j] = w => j \in S /\ wk[w].batch[j] = row[j].retry
                   BY <2>0 DEF Data, Owing, OwesAt, Holding
             <3>2. p \in {"committing", "catch"}
                   BY <2>1
             <3> QED BY <2>0, <2>9, <3>1, <3>2 DEF OwesAt, Holding
      <2>11. q.pc = "committing" => \A j \in DOMAIN q.batch : lock'[j] = w
             <3>1. q.pc = "committing" => held
                   BY <2>1, <2>9
             <3>2. held => \A j \in S : j \in Jobs /\ (j \in hit \/ lock[j] = w)
                   BY <1>0
             <3> QED BY <2>2, <2>9, <3>1, <3>2
      <2> QED BY <2>0, <2>1, <2>6, <2>7, <2>8, <2>10, <2>11, WorkerData
<1>2. CASE Commit(w) \/ CommitAnswerLost(w)
      <2>0. Commits(w) /\ wk[w].pc = "committing"
            BY <1>2 DEF Commit, CommitAnswerLost, Commits, At
      <2>1. /\ Rows' /\ Kept /\ UNCHANGED setup
            /\ lock' = [j \in Jobs |-> IF lock[j] = w THEN Nobody ELSE lock[j]]
            /\ \A j \in Jobs : lock[j] = w =>
                  row[j].state = "active" /\ row'[j].state = "completed" /\ holder'[j] = Nobody
            BY <2>0, CommitRows DEF Data
      <2>2. \A j \in S : lock[j] = w
            BY <2>0 DEF Data, Locked, At
      <2>3. \A j \in Jobs : holder'[j] # w
            <3>1. \A j \in Jobs : holder[j] = w => j \in S
                  BY <2>0 DEF Data, Owing, OwesAt, Holding
            <3> QED BY <2>1, <2>2, <3>1, WorkerAssumption DEF Kept
      <2>4. Written'
            <3>1. /\ writes' = [j \in Jobs |-> IF j \in S /\ writes[j] < 2 THEN writes[j] + 1 ELSE writes[j]]
                  /\ reset' = reset
                  BY <2>0 DEF Commits
            <3>2. writes' \in [Jobs -> 0 .. 2]
                  BY <3>1 DEF Data, Written
            <3>3. ASSUME NEW j \in Jobs \ reset, writes'[j] > 0
                  PROVE  writes'[j] = 1 /\ row'[j].state = "completed"
                  <4>1. CASE j \in S
                        <5>1. row[j].state = "active" /\ row'[j].state = "completed"
                              BY <2>1, <2>2, <4>1
                        <5>2. writes[j] = 0
                              BY <5>1 DEF Data, Written, WritesCommitOnce
                        <5> QED BY <3>1, <4>1, <5>1, <5>2
                  <4>2. CASE j \notin S
                        BY <2>1, <3>1, <3>3, <4>2 DEF Data, Written, WritesCommitOnce, Kept
                  <4> QED BY <4>1, <4>2
            <3> QED BY <3>1, <3>2, <3>3 DEF Data, Written, WritesCommitOnce
      <2>5. PICK q : Become(w, q) /\ q.pc \in {"loop", "sleeping", "overrun", "catch"}
            <3>1. CASE Commit(w)
                  BY <3>1, AfterPc DEF Commit
            <3>2. CASE CommitAnswerLost(w)
                  <4>1. PICK q : q = [wk[w] EXCEPT !.pc = "catch"]
                        OBVIOUS
                  <4> QED BY <1>0, <3>2, <4>1 DEF CommitAnswerLost, Record
            <3> QED BY <1>2, <3>1, <3>2
      <2>6. \A j \in Jobs, v \in Workers \ {w} : lock[j] = v => lock'[j] = v
            BY <2>1
      <2>7. Owing' /\ Locked'
            BY <2>1, <2>3, <2>5, <2>6, WorkerClaims
      <2> QED BY <2>1, <2>4, <2>7 DEF Data
<1> QED BY <1>1, <1>2

\* The instance's other steps.
LEMMA OtherData ==
    ASSUME Shaped, Data,
           \/ \E w \in Workers : Exit(w) \/ OffWork(w) \/ Work(w) \/ FailWipFail(w) \/ FailWipAbort(w)
           \/ \E j \in Jobs : Send(j) \/ OtherCompletes(j) \/ Expire(j) \/ OtherClaims(j)
           \/ \E S \in SUBSET Jobs : LooseReturns(S)
           \/ Listen \/ ListenerDrops \/ Notified \/ Stop \/ GraceEnds \/ Close
    PROVE  Data'
<1> DEFINE n == setup.retryLimit
<1>1. \A w \in Workers : wk[w] \in Record(n) /\ DOMAIN wk[w].jobs \subseteq Jobs
      BY AttemptFacts DEF Shaped, Record
<1>2. ASSUME UNCHANGED <<setup, row, lock, holder>>
      PROVE  Rows' /\ Kept /\ \A j \in Jobs, v \in Workers : lock[j] = v => lock'[j] = v
      BY <1>2, SameRows DEF Data, Rows
<1>3. ASSUME NEW w \in Workers, Exit(w) \/ Work(w)
      PROVE  Data'
      <2>1. PICK q : Become(w, q) /\ q.pc \in {"stopped", "loop"}
            <3>1. CASE Exit(w)
                  <4>1. PICK q : q = [wk[w] EXCEPT !.pc = "stopped"]
                        OBVIOUS
                  <4> QED BY <1>1, <1>3, <3>1, <4>1 DEF Exit, Record
            <3>2. CASE Work(w)
                  <4>1. PICK q : q = [Fresh EXCEPT !.starts = wk[w].starts + 1]
                        OBVIOUS
                  <4>2. q.pc = "loop"
                        BY <4>1 DEF Fresh
                  <4> QED BY <3>2, <4>1, <4>2 DEF Work
            <3> QED BY <1>3, <3>1, <3>2
      <2>2. UNCHANGED <<setup, row, lock, holder, writes, reset>> /\ wk[w].pc \in {"loop", "stopped"}
            BY <1>3 DEF Exit, Work, At, db, ghosts
      <2>3. \A j \in Jobs : holder'[j] # w
            BY <2>2 DEF Data, Owing, OwesAt, Holding
      <2> QED BY <1>2, <2>1, <2>2, <2>3, WorkerData
<1>4. ASSUME UNCHANGED <<setup, row, lock, holder, writes, reset>>,
             \A w \in Workers :
                 \/ wk'[w] = wk[w]
                 \/ \E u : /\ u = wk[w] \/ (u = [wk[w] EXCEPT !.pc = "loop"] /\ wk[w].pc = "sleeping")
                           /\ \/ wk'[w] = [u EXCEPT !.stopping = TRUE]
                              \/ wk'[w] = [u EXCEPT !.notified = TRUE, !.owed = TRUE]
                              \/ wk'[w] = [u EXCEPT !.graceExpired = TRUE]
                              \/ wk'[w] = [u EXCEPT !.aborted = @ \/ wk[w].ctl]
      PROVE  Data'
      <2>1. ASSUME NEW w \in Workers
            PROVE  /\ wk'[w].pc = wk[w].pc \/ (wk[w].pc = "sleeping" /\ wk'[w].pc = "loop")
                   /\ wk'[w].fetched = wk[w].fetched /\ wk'[w].jobs = wk[w].jobs
                   /\ wk'[w].batch = wk[w].batch /\ wk'[w].rest = wk[w].rest
            <3>1. CASE wk'[w] = wk[w]
                  BY <3>1
            <3>2. CASE wk'[w] # wk[w]
                  <4>1. PICK u : /\ u = wk[w] \/ (u = [wk[w] EXCEPT !.pc = "loop"] /\ wk[w].pc = "sleeping")
                                 /\ \/ wk'[w] = [u EXCEPT !.stopping = TRUE]
                                    \/ wk'[w] = [u EXCEPT !.notified = TRUE, !.owed = TRUE]
                                    \/ wk'[w] = [u EXCEPT !.graceExpired = TRUE]
                                    \/ wk'[w] = [u EXCEPT !.aborted = @ \/ wk[w].ctl]
                        BY <1>4, <3>2
                  <4>2. /\ u.pc = wk[w].pc \/ (wk[w].pc = "sleeping" /\ u.pc = "loop")
                        /\ u.fetched = wk[w].fetched /\ u.jobs = wk[w].jobs
                        /\ u.batch = wk[w].batch /\ u.rest = wk[w].rest /\ u \in Record(n)
                        <5>1. CASE u = wk[w]
                              BY <1>1, <5>1
                        <5>2. CASE u = [wk[w] EXCEPT !.pc = "loop"] /\ wk[w].pc = "sleeping"
                              BY <1>1, <5>2 DEF Record, Pcs
                        <5> QED BY <4>1, <5>1, <5>2
                  <4>3. PICK q : q = wk'[w]
                        OBVIOUS
                  <4>4. /\ q.pc = u.pc /\ q.fetched = u.fetched /\ q.jobs = u.jobs
                        /\ q.batch = u.batch /\ q.rest = u.rest
                        BY <4>1, <4>2, <4>3 DEF Record
                  <4> QED BY <4>2, <4>3, <4>4
            <3> QED BY <3>1, <3>2
      <2> QED BY <1>2, <1>4, <2>1, QuietData
<1>5. CASE Listen \/ Notified \/ Stop \/ GraceEnds \/ \E w \in Workers : OffWork(w) \/ FailWipAbort(w)
      <2>1. UNCHANGED <<setup, row, lock, holder, writes, reset>>
            BY <1>5 DEF Listen, Notified, Stop, GraceEnds, OffWork, FailWipAbort, db, ghosts
      <2>2. ASSUME NEW w \in Workers
            PROVE  Woken(wk[w]) = wk[w] \/ (Woken(wk[w]) = [wk[w] EXCEPT !.pc = "loop"] /\ wk[w].pc = "sleeping")
            BY DEF Woken
      <2>3. CASE NotifyWorkers
            BY <1>4, <2>1, <2>2, <2>3 DEF NotifyWorkers
      <2>4. ASSUME NEW S \in SUBSET Workers, StopWorkers(S)
            PROVE  Data'
            BY <1>4, <2>1, <2>2, <2>4 DEF StopWorkers
      <2>5. CASE GraceEnds
            BY <1>4, <2>1, <2>5 DEF GraceEnds
      <2>6. ASSUME NEW w \in Workers, FailWipAbort(w)
            PROVE  Data'
            <3>1. wk' = [wk EXCEPT ![w] = [wk[w] EXCEPT !.aborted = @ \/ wk[w].ctl]]
                  BY <2>6 DEF FailWipAbort, Shaped
            <3>2. \A v \in Workers : IF v = w THEN wk'[v] = [wk[w] EXCEPT !.aborted = @ \/ wk[w].ctl]
                                     ELSE wk'[v] = wk[v]
                  BY <3>1 DEF Shaped
            <3> QED BY <1>4, <2>1, <3>2
      <2>7. CASE \E w \in Workers : OffWork(w)
            BY <2>4, <2>7 DEF OffWork
      <2> QED BY <1>5, <2>3, <2>4, <2>5, <2>6, <2>7 DEF Listen, Notified, Stop
<1>6. CASE ListenerDrops \/ Close \/ \E S \in SUBSET Jobs : LooseReturns(S)
      <2>1. UNCHANGED <<setup, row, lock, holder, writes, reset, wk>>
            BY <1>6 DEF ListenerDrops, Close, LooseReturns, db, ghosts
      <2> QED BY <1>4, <2>1
<1>7. ASSUME NEW j \in Jobs, Send(j) \/ OtherCompletes(j) \/ Expire(j) \/ OtherClaims(j)
      PROVE  Data'
      <2>1. Rows' /\ Kept /\ UNCHANGED <<lock, writes, reset, wk>>
            BY <1>7, OtherRows DEF Data, ghosts
      <2> QED BY <2>1, QuietData
<1>8. ASSUME NEW w \in Workers, FailWipFail(w)
      PROVE  Data'
      <2>1. UNCHANGED <<setup, writes, reset, wk>>
            /\ (Settle(wk[w].jobs, DOMAIN wk[w].jobs, Failed) \/ UNCHANGED <<row, lock, holder>>)
            BY <1>8 DEF FailWipFail, ghosts, db
      <2>2. Rows' /\ Kept /\ UNCHANGED lock
            BY <1>1, <1>2, <2>1, SettledRows DEF Data
      <2> QED BY <2>1, <2>2, QuietData
<1> QED BY <1>3, <1>5, <1>6, <1>7, <1>8

-----------------------------------------------------------------------------
(* The slots of the local groups, counted *)

\* The jobs of a group in the batches B of the workers, and in the abandoned handlers L.
HeldOf(B, g) == UNION {{w} \X Grouped(B[w], g) : w \in Workers}
LooseOf(L, g) == UNION {({S} \X (1 .. L[S])) \X Grouped(S, g) : S \in SUBSET Jobs}

\* What one batch adds to the count.
LEMMA TokensOf ==
    ASSUME NEW S \in SUBSET Jobs, NEW x, NEW g
    PROVE  /\ IsFiniteSet({x} \X Grouped(S, g)) /\ Cardinality({x} \X Grouped(S, g)) = InGroup(S, g)
           /\ InGroup(S, g) \in Nat
           /\ S = {} => InGroup(S, g) = 0
<1>1. IsFiniteSet(Grouped(S, g))
      BY WorkerAssumption, FS_Subset DEF Grouped
<1>2. InGroup(S, g) \in Nat
      BY <1>1, FS_CardinalityType DEF InGroup
<1>3. IsFiniteSet({x}) /\ Cardinality({x}) = 1
      BY FS_Singleton
<1>4. /\ IsFiniteSet({x} \X Grouped(S, g))
      /\ Cardinality({x} \X Grouped(S, g)) = Cardinality({x}) * Cardinality(Grouped(S, g))
      BY <1>1, <1>3, FS_Product
<1>5. S = {} => InGroup(S, g) = 0
      BY FS_EmptySet DEF InGroup, Grouped
<1> QED BY <1>2, <1>3, <1>4, <1>5 DEF InGroup

\* Sets that have nothing in common.
LEMMA CountApart ==
    ASSUME NEW H, NEW T, IsFiniteSet(H), IsFiniteSet(T), H \cap T = {}
    PROVE  /\ IsFiniteSet(H \cup T)
           /\ Cardinality(H \cup T) = Cardinality(H) + Cardinality(T)
           /\ Cardinality(H) \in Nat /\ Cardinality(T) \in Nat
<1>1. /\ IsFiniteSet(H \cup T)
      /\ Cardinality(H \cup T) = Cardinality(H) + Cardinality(T) - Cardinality(H \cap T)
      BY FS_Union
<1>2. Cardinality(H \cap T) = 0
      BY FS_EmptySet
<1>3. Cardinality(H) \in Nat /\ Cardinality(T) \in Nat
      BY FS_CardinalityType
<1> QED BY <1>1, <1>2, <1>3

\* The batches together are finite.
LEMMA HeldFinite ==
    ASSUME NEW B \in [Workers -> SUBSET Jobs], NEW g
    PROVE  IsFiniteSet(HeldOf(B, g)) /\ Cardinality(HeldOf(B, g)) \in Nat
<1>1. HeldOf(B, g) \subseteq Workers \X Jobs
      BY DEF HeldOf, Grouped
<1>2. IsFiniteSet(Workers \X Jobs)
      BY WorkerAssumption, FS_Product
<1>3. IsFiniteSet(HeldOf(B, g))
      BY <1>1, <1>2, FS_Subset
<1> QED BY <1>3, FS_CardinalityType

\* A worker takes a batch.
LEMMA HeldPut ==
    ASSUME NEW B \in [Workers -> SUBSET Jobs], NEW w \in Workers, B[w] = {}, NEW S \in SUBSET Jobs, NEW g
    PROVE  Cardinality(HeldOf([B EXCEPT ![w] = S], g)) = Cardinality(HeldOf(B, g)) + InGroup(S, g)
<1>1. PICK C \in [Workers -> SUBSET Jobs] : C = [B EXCEPT ![w] = S]
      OBVIOUS
<1>2. \A v \in Workers : C[v] = IF v = w THEN S ELSE B[v]
      BY <1>1
<1>3. PICK T : T = {w} \X Grouped(S, g)
      OBVIOUS
<1>4. HeldOf(C, g) = HeldOf(B, g) \cup T
      <2>1. \A x \in HeldOf(C, g) : x \in HeldOf(B, g) \cup T
            BY <1>2, <1>3 DEF HeldOf, Grouped
      <2>2. \A x \in HeldOf(B, g) : x \in HeldOf(C, g)
            <3> SUFFICES ASSUME NEW v \in Workers, NEW x \in {v} \X Grouped(B[v], g)
                         PROVE  x \in HeldOf(C, g)
                BY DEF HeldOf
            <3>1. B[v] # {}
                  BY DEF Grouped
            <3>2. C[v] = B[v]
                  BY <1>2, <3>1
            <3> QED BY <3>2 DEF HeldOf
      <2>3. T \subseteq HeldOf(C, g)
            BY <1>2, <1>3 DEF HeldOf
      <2> QED BY <2>1, <2>2, <2>3
<1>5. HeldOf(B, g) \cap T = {}
      <2> SUFFICES ASSUME NEW x, x \in HeldOf(B, g), x \in T PROVE FALSE
          OBVIOUS
      <2>1. PICK v \in Workers : x \in {v} \X Grouped(B[v], g)
            BY DEF HeldOf
      <2>2. v = w
            BY <1>3, <2>1
      <2> QED BY <2>1, <2>2 DEF Grouped
<1>6. IsFiniteSet(HeldOf(B, g)) /\ IsFiniteSet(T) /\ Cardinality(T) = InGroup(S, g)
      BY <1>3, HeldFinite, TokensOf
<1> QED BY <1>1, <1>4, <1>5, <1>6, CountApart

\* A worker gives its batch back.
LEMMA HeldTake ==
    ASSUME NEW B \in [Workers -> SUBSET Jobs], NEW w \in Workers, NEW g
    PROVE  Cardinality(HeldOf(B, g)) = Cardinality(HeldOf([B EXCEPT ![w] = {}], g)) + InGroup(B[w], g)
<1>1. PICK C \in [Workers -> SUBSET Jobs] : C = [B EXCEPT ![w] = {}]
      OBVIOUS
<1>2. C[w] = {} /\ B[w] \in SUBSET Jobs
      BY <1>1
<1>3. B = [C EXCEPT ![w] = B[w]]
      <2>1. \A v \in Workers : [C EXCEPT ![w] = B[w]][v] = B[v]
            BY <1>1
      <2>2. [C EXCEPT ![w] = B[w]] \in [Workers -> SUBSET Jobs]
            BY <1>2
      <2> QED BY <2>1, <2>2
<1>4. Cardinality(HeldOf([C EXCEPT ![w] = B[w]], g)) = Cardinality(HeldOf(C, g)) + InGroup(B[w], g)
      BY <1>2, HeldPut
<1> QED BY <1>1, <1>3, <1>4

\* A handler is abandoned, and one returns.
LEMMA LoosePut ==
    ASSUME NEW L \in [SUBSET Jobs -> Nat], NEW S \in SUBSET Jobs, NEW g, IsFiniteSet(LooseOf(L, g))
    PROVE  /\ IsFiniteSet(LooseOf([L EXCEPT ![S] = @ + 1], g))
           /\ Cardinality(LooseOf([L EXCEPT ![S] = @ + 1], g)) = Cardinality(LooseOf(L, g)) + InGroup(S, g)
<1>0. L[S] + 1 \in Nat
      OBVIOUS
<1>1. PICK M \in [SUBSET Jobs -> Nat] : M = [L EXCEPT ![S] = @ + 1]
      BY <1>0
<1>2. \A R \in SUBSET Jobs : M[R] = IF R = S THEN L[S] + 1 ELSE L[R]
      BY <1>1
<1>3. PICK k \in Nat : k = L[S] + 1
      OBVIOUS
<1>4. PICK T : T = {<<S, k>>} \X Grouped(S, g)
      OBVIOUS
<1>5. LooseOf(M, g) = LooseOf(L, g) \cup T
      <2>1. ASSUME NEW x \in LooseOf(M, g)
            PROVE  x \in LooseOf(L, g) \cup T
            <3>1. PICK R \in SUBSET Jobs : x \in ({R} \X (1 .. M[R])) \X Grouped(R, g)
                  BY <2>1 DEF LooseOf
            <3>2. PICK n \in 1 .. M[R], j \in Grouped(R, g) : x = <<<<R, n>>, j>>
                  BY <3>1
            <3>3. CASE n \in 1 .. L[R]
                  <4>1. x \in ({R} \X (1 .. L[R])) \X Grouped(R, g)
                        BY <3>2, <3>3
                  <4> QED BY <4>1 DEF LooseOf
            <3>4. CASE n \notin 1 .. L[R]
                  <4>1. L[R] \in Nat /\ L[S] \in Nat
                        OBVIOUS
                  <4>2. R = S /\ n = k
                        BY <1>2, <1>3, <3>2, <3>4, <4>1
                  <4> QED BY <1>4, <3>2, <4>2
            <3> QED BY <3>3, <3>4
      <2>2. ASSUME NEW x \in LooseOf(L, g)
            PROVE  x \in LooseOf(M, g)
            <3>1. PICK R \in SUBSET Jobs : x \in ({R} \X (1 .. L[R])) \X Grouped(R, g)
                  BY <2>2 DEF LooseOf
            <3>2. PICK n \in 1 .. L[R], j \in Grouped(R, g) : x = <<<<R, n>>, j>>
                  BY <3>1
            <3>3. n \in 1 .. M[R]
                  <4>1. L[R] \in Nat /\ L[S] \in Nat
                        OBVIOUS
                  <4> QED BY <1>2, <3>2, <4>1
            <3>4. x \in ({R} \X (1 .. M[R])) \X Grouped(R, g)
                  BY <3>2, <3>3
            <3> QED BY <3>4 DEF LooseOf
      <2>3. ASSUME NEW x \in T
            PROVE  x \in LooseOf(M, g)
            <3>1. k \in 1 .. M[S]
                  BY <1>2, <1>3
            <3>2. x \in ({S} \X (1 .. M[S])) \X Grouped(S, g)
                  BY <1>4, <2>3, <3>1
            <3> QED BY <3>2 DEF LooseOf
      <2> QED BY <2>1, <2>2, <2>3
<1>6. LooseOf(L, g) \cap T = {}
      <2> SUFFICES ASSUME NEW x, x \in LooseOf(L, g), x \in T PROVE FALSE
          OBVIOUS
      <2>1. PICK R \in SUBSET Jobs : x \in ({R} \X (1 .. L[R])) \X Grouped(R, g)
            BY DEF LooseOf
      <2>2. PICK n \in 1 .. L[R], j \in Grouped(R, g) : x = <<<<R, n>>, j>>
            BY <2>1
      <2>3. R = S /\ n = k
            BY <1>4, <2>2
      <2>4. L[S] \in Nat
            OBVIOUS
      <2> QED BY <1>3, <2>2, <2>3, <2>4
<1>7. IsFiniteSet(T) /\ Cardinality(T) = InGroup(S, g)
      BY <1>4, TokensOf
<1>8. IsFiniteSet(LooseOf(M, g)) /\ Cardinality(LooseOf(M, g)) = Cardinality(LooseOf(L, g)) + InGroup(S, g)
      <2>1. PICK H : H = LooseOf(L, g)
            OBVIOUS
      <2>2. /\ IsFiniteSet(H \cup T)
            /\ Cardinality(H \cup T) = Cardinality(H) + Cardinality(T)
            BY <1>6, <1>7, <2>1, CountApart
      <2> QED BY <1>5, <1>7, <2>1, <2>2
<1> QED BY <1>1, <1>8

LEMMA LooseTake ==
    ASSUME NEW L \in [SUBSET Jobs -> Nat], NEW S \in SUBSET Jobs, L[S] > 0, NEW g, IsFiniteSet(LooseOf(L, g))
    PROVE  /\ [L EXCEPT ![S] = @ - 1] \in [SUBSET Jobs -> Nat]
           /\ IsFiniteSet(LooseOf([L EXCEPT ![S] = @ - 1], g))
           /\ Cardinality(LooseOf(L, g)) = Cardinality(LooseOf([L EXCEPT ![S] = @ - 1], g)) + InGroup(S, g)
<1>1. L[S] - 1 \in Nat
      OBVIOUS
<1>2. PICK M \in [SUBSET Jobs -> Nat] : M = [L EXCEPT ![S] = @ - 1]
      BY <1>1
<1>3. \A R \in SUBSET Jobs : M[R] = IF R = S THEN L[S] - 1 ELSE L[R]
      BY <1>2
<1>4. LooseOf(M, g) \subseteq LooseOf(L, g)
      <2> SUFFICES ASSUME NEW x \in LooseOf(M, g) PROVE x \in LooseOf(L, g)
          OBVIOUS
      <2>1. PICK R \in SUBSET Jobs : x \in ({R} \X (1 .. M[R])) \X Grouped(R, g)
            BY DEF LooseOf
      <2>2. PICK n \in 1 .. M[R], j \in Grouped(R, g) : x = <<<<R, n>>, j>>
            BY <2>1
      <2>3. n \in 1 .. L[R]
            <3>1. L[R] \in Nat /\ L[S] \in Nat
                  OBVIOUS
            <3> QED BY <1>3, <2>2, <3>1
      <2>4. x \in ({R} \X (1 .. L[R])) \X Grouped(R, g)
            BY <2>2, <2>3
      <2> QED BY <2>4 DEF LooseOf
<1>5. IsFiniteSet(LooseOf(M, g))
      BY <1>4, FS_Subset
<1>6. L = [M EXCEPT ![S] = @ + 1]
      <2>1. L[S] \in Nat /\ M[S] + 1 = L[S]
            BY <1>3
      <2> QED BY <1>2, <2>1
<1>7. Cardinality(LooseOf([M EXCEPT ![S] = @ + 1], g)) = Cardinality(LooseOf(M, g)) + InGroup(S, g)
      BY <1>5, LoosePut
<1> QED BY <1>2, <1>5, <1>6, <1>7

\* Which jobs each worker has in its batch.
Batches == [w \in Workers |-> DOMAIN wk[w].batch]

\* A group's slots are the jobs in the batches and in the abandoned handlers, and there
\* are no more than the limit unless a batch was admitted after the limit was dropped.
Counted ==
    /\ loose \in [SUBSET Jobs -> Nat]
    /\ limited \in BOOLEAN /\ unlimited \in BOOLEAN
    /\ \A g \in Groups : IsFiniteSet(LooseOf(loose, g))
    /\ slots = [g \in Groups |-> Cardinality(HeldOf(Batches, g)) + Cardinality(LooseOf(loose, g))]
    /\ unlimited \/ \A g \in Groups : slots[g] <= LocalLimit

LEMMA BatchesType == Shaped => Batches \in [Workers -> SUBSET Jobs]
BY AttemptFacts DEF Shaped, Record, Batches

LEMMA SlotsType ==
    ASSUME Shaped, Counted
    PROVE  slots \in [Groups -> Nat]
<1>1. \A g \in Groups : Cardinality(HeldOf(Batches, g)) \in Nat /\ Cardinality(LooseOf(loose, g)) \in Nat
      BY BatchesType, HeldFinite, FS_CardinalityType DEF Counted
<1> QED BY <1>1 DEF Counted

\* No batch and no handler begins or ends.
LEMMA SameCounts ==
    ASSUME Counted, UNCHANGED <<slots, loose, unlimited>>, limited' \in BOOLEAN,
           \A w \in Workers : DOMAIN wk'[w].batch = DOMAIN wk[w].batch
    PROVE  Counted'
<1>1. Batches' = Batches
      BY DEF Batches
<1> QED BY <1>1 DEF Counted

\* A worker's batch ends, and its slots are free again.
LEMMA SlotsFreed ==
    ASSUME Shaped, Counted, NEW w \in Workers, slots' = SlotsWithout(DOMAIN wk[w].batch),
           UNCHANGED <<loose, limited, unlimited>>, NEW r, Become(w, r), r.batch = None
    PROVE  Counted'
<1>1. Batches \in [Workers -> SUBSET Jobs] /\ Batches[w] = DOMAIN wk[w].batch
      BY BatchesType DEF Batches
<1>2. Batches' = [Batches EXCEPT ![w] = {}]
      BY NoneFacts DEF Batches, Become, Shaped
<1>3. slots \in [Groups -> Nat]
      BY SlotsType
<1>4. ASSUME NEW g \in Groups
      PROVE  /\ slots'[g] = Cardinality(HeldOf(Batches', g)) + Cardinality(LooseOf(loose, g))
             /\ slots'[g] <= slots[g] /\ slots'[g] \in Int
      <2>1. Cardinality(HeldOf(Batches, g)) = Cardinality(HeldOf(Batches', g)) + InGroup(Batches[w], g)
            BY <1>1, <1>2, HeldTake
      <2>2. slots[g] = Cardinality(HeldOf(Batches, g)) + Cardinality(LooseOf(loose, g))
            BY DEF Counted
      <2>3. slots'[g] = slots[g] - InGroup(Batches[w], g)
            BY <1>1 DEF SlotsWithout
      <2>4. InGroup(Batches[w], g) \in Nat
            BY <1>1, TokensOf
      <2>5. Batches' \in [Workers -> SUBSET Jobs]
            BY <1>1, <1>2
      <2>6. Cardinality(HeldOf(Batches', g)) \in Nat
            BY <2>5, HeldFinite
      <2>7. Cardinality(LooseOf(loose, g)) \in Nat
            BY FS_CardinalityType DEF Counted
      <2> QED BY <2>1, <2>2, <2>3, <2>4, <2>6, <2>7
<1>5. slots' = [g \in Groups |-> Cardinality(HeldOf(Batches', g)) + Cardinality(LooseOf(loose, g))]
      BY <1>4 DEF SlotsWithout
<1>6. unlimited \/ \A g \in Groups : slots'[g] <= LocalLimit
      <2> SUFFICES ASSUME ~unlimited, NEW g \in Groups PROVE slots'[g] <= LocalLimit
          OBVIOUS
      <2>1. slots'[g] <= slots[g] /\ slots[g] <= LocalLimit
            BY <1>4 DEF Counted
      <2> QED BY <1>3, <1>4, <2>1, WorkerAssumption
<1> QED BY <1>5, <1>6 DEF Counted

\* A batch ends but its handler goes on.
LEMMA SlotsAbandoned ==
    ASSUME Shaped, Counted, NEW w \in Workers, loose' = [loose EXCEPT ![DOMAIN wk[w].batch] = @ + 1],
           UNCHANGED <<slots, limited, unlimited>>, NEW r, Become(w, r), r.batch = None
    PROVE  Counted'
<1> DEFINE S == DOMAIN wk[w].batch
<1>1. Batches \in [Workers -> SUBSET Jobs] /\ Batches[w] = S /\ S \in SUBSET Jobs
      <2>1. Batches \in [Workers -> SUBSET Jobs] /\ Batches[w] = S
            BY BatchesType DEF Batches
      <2> QED BY <2>1
<1>2. Batches' = [Batches EXCEPT ![w] = {}]
      BY NoneFacts DEF Batches, Become, Shaped
<1>3. loose' \in [SUBSET Jobs -> Nat]
      BY <1>1 DEF Counted
<1>4. ASSUME NEW g \in Groups
      PROVE  /\ IsFiniteSet(LooseOf(loose', g))
             /\ slots[g] = Cardinality(HeldOf(Batches', g)) + Cardinality(LooseOf(loose', g))
      <2>1. Cardinality(HeldOf(Batches, g)) = Cardinality(HeldOf(Batches', g)) + InGroup(Batches[w], g)
            BY <1>1, <1>2, HeldTake
      <2>2. slots[g] = Cardinality(HeldOf(Batches, g)) + Cardinality(LooseOf(loose, g))
            BY DEF Counted
      <2>3. /\ IsFiniteSet(LooseOf(loose', g))
            /\ Cardinality(LooseOf(loose', g)) = Cardinality(LooseOf(loose, g)) + InGroup(S, g)
            BY <1>1, LoosePut DEF Counted
      <2>4. InGroup(S, g) \in Nat
            BY <1>1, TokensOf
      <2>5. Batches' \in [Workers -> SUBSET Jobs]
            BY <1>1, <1>2
      <2>6. Cardinality(HeldOf(Batches', g)) \in Nat
            BY <2>5, HeldFinite
      <2>7. Cardinality(LooseOf(loose, g)) \in Nat
            BY FS_CardinalityType DEF Counted
      <2> QED BY <1>1, <2>1, <2>2, <2>3, <2>4, <2>6, <2>7
<1>5. slots' = [g \in Groups |-> Cardinality(HeldOf(Batches', g)) + Cardinality(LooseOf(loose', g))]
      <2>1. slots = [g \in Groups |-> slots[g]] /\ slots' = slots
            BY DEF Counted
      <2> QED BY <1>4, <2>1
<1> QED BY <1>3, <1>4, <1>5 DEF Counted

\* An abandoned handler returns.
LEMMA LooseCount ==
    ASSUME Shaped, Counted, NEW S \in SUBSET Jobs, LooseReturns(S)
    PROVE  Counted'
<1>1. /\ loose[S] > 0 /\ loose' = [loose EXCEPT ![S] = @ - 1] /\ slots' = SlotsWithout(S)
      /\ UNCHANGED <<wk, limited, unlimited>>
      BY DEF LooseReturns
<1>2. Batches' = Batches
      BY <1>1 DEF Batches
<1>3. slots \in [Groups -> Nat]
      BY SlotsType
<1>4. ASSUME NEW g \in Groups
      PROVE  /\ loose' \in [SUBSET Jobs -> Nat]
             /\ IsFiniteSet(LooseOf(loose', g))
             /\ slots'[g] = Cardinality(HeldOf(Batches, g)) + Cardinality(LooseOf(loose', g))
             /\ slots'[g] <= slots[g] /\ slots'[g] \in Int
      <2>1. slots[g] = Cardinality(HeldOf(Batches, g)) + Cardinality(LooseOf(loose, g))
            BY DEF Counted
      <2>2. /\ loose' \in [SUBSET Jobs -> Nat] /\ IsFiniteSet(LooseOf(loose', g))
            /\ Cardinality(LooseOf(loose, g)) = Cardinality(LooseOf(loose', g)) + InGroup(S, g)
            BY <1>1, LooseTake DEF Counted
      <2>3. InGroup(S, g) \in Nat
            BY TokensOf
      <2>4. Cardinality(HeldOf(Batches, g)) \in Nat
            BY BatchesType, HeldFinite
      <2>5. Cardinality(LooseOf(loose', g)) \in Nat
            BY <2>2, FS_CardinalityType
      <2>6. slots'[g] = slots[g] - InGroup(S, g)
            BY <1>1 DEF SlotsWithout
      <2> QED BY <2>1, <2>2, <2>3, <2>4, <2>5, <2>6
<1>5. loose' \in [SUBSET Jobs -> Nat]
      <2>1. loose[S] - 1 \in Nat
            BY <1>1 DEF Counted
      <2> QED BY <1>1, <2>1 DEF Counted
<1>6. slots' = [g \in Groups |-> Cardinality(HeldOf(Batches', g)) + Cardinality(LooseOf(loose', g))]
      BY <1>1, <1>2, <1>4 DEF SlotsWithout
<1>7. unlimited \/ \A g \in Groups : slots'[g] <= LocalLimit
      <2> SUFFICES ASSUME ~unlimited, NEW g \in Groups PROVE slots'[g] <= LocalLimit
          OBVIOUS
      <2>1. slots'[g] <= slots[g] /\ slots[g] <= LocalLimit
            BY <1>4 DEF Counted
      <2> QED BY <1>3, <1>4, <2>1, WorkerAssumption
<1> QED BY <1>1, <1>4, <1>5, <1>6, <1>7 DEF Counted

\* The answer of a fetch: the groups admit what fits.
LEMMA AdmitCount ==
    ASSUME Shaped, Counted, NEW w \in Workers, FetchReturn(w)
    PROVE  Counted'
<1> DEFINE n == setup.retryLimit
           S == DOMAIN wk[w].fetched
<1>0. wk[w] \in Record(n) /\ Shape(wk[w], n) /\ wk[w].pc = "claimed" /\ S \subseteq Jobs
      BY AttemptFacts DEF Shaped, Record, FetchReturn, At
<1>1. PICK A, b, q :
          /\ A \in SUBSET S /\ Admits(S, A)
          /\ b = [j \in A |-> wk[w].fetched[j]]
          /\ q = [wk[w] EXCEPT !.fetched = None, !.jobs = wk[w].fetched, !.batch = b]
          /\ slots' = [g \in Groups |-> slots[g] + InGroup(A, g)]
          /\ unlimited' = (unlimited \/ (~limited /\ \E g \in Groups : slots'[g] > LocalLimit))
          /\ \/ S = {} /\ EndRound(w, q)
             \/ S # {} /\ A = S /\ Become(w, Enter(q))
             \/ S # A /\ Become(w, [q EXCEPT !.pc = "restoring"])
      BY DEF FetchReturn
<1>2. DOMAIN b = A /\ b \in Attempts(n) /\ wk[w].fetched \in Attempts(n)
      <2>1. wk[w].fetched \in Attempts(n)
            BY <1>0 DEF Record
      <2>2. A \in SUBSET Jobs /\ b \in [A -> 0 .. n]
            BY <1>1, <2>1, AttemptFacts
      <2> QED BY <2>1, <2>2, AttemptMap
<1>3. q \in Record(n) /\ q.batch = b
      BY <1>0, <1>1, <1>2, NoneFacts DEF Record
<1>4. PICK r : Become(w, r) /\ r.batch = b
      <2>1. CASE S = {} /\ EndRound(w, q)
            BY <1>3, <2>1, RoundPc
      <2>2. CASE Become(w, Enter(q))
            <3>1. PICK p, x : x = [q EXCEPT !.ctl = TRUE, !.aborted = FALSE, !.pc = p, !.running = (p = "running")]
                              /\ x = Enter(q)
                  BY DEF Enter
            <3>2. x.batch = b
                  BY <1>3, <3>1 DEF Record
            <3> QED BY <2>2, <3>1, <3>2
      <2>3. CASE Become(w, [q EXCEPT !.pc = "restoring"])
            <3>1. PICK x : x = [q EXCEPT !.pc = "restoring"]
                  OBVIOUS
            <3>2. x.batch = b
                  BY <1>3, <3>1 DEF Record
            <3> QED BY <2>3, <3>1, <3>2
      <2> QED BY <1>1, <2>1, <2>2, <2>3
<1>5. Batches \in [Workers -> SUBSET Jobs] /\ Batches[w] = {}
      BY <1>0, BatchesType, NoneFacts DEF Batches, Shape, Idle
<1>6. Batches' = [Batches EXCEPT ![w] = A]
      BY <1>2, <1>4 DEF Batches, Become, Shaped
<1>7. slots \in [Groups -> Nat] /\ UNCHANGED <<loose, limited>>
      BY SlotsType DEF FetchReturn
<1>8. ASSUME NEW g \in Groups
      PROVE  /\ slots'[g] = Cardinality(HeldOf(Batches', g)) + Cardinality(LooseOf(loose, g))
             /\ InGroup(A, g) \in Nat /\ slots'[g] = slots[g] + InGroup(A, g)
      <2>1. A \in SUBSET Jobs
            BY <1>0, <1>1
      <2>2. Cardinality(HeldOf(Batches', g)) = Cardinality(HeldOf(Batches, g)) + InGroup(A, g)
            BY <1>5, <1>6, <2>1, HeldPut
      <2>3. slots[g] = Cardinality(HeldOf(Batches, g)) + Cardinality(LooseOf(loose, g))
            BY DEF Counted
      <2>4. InGroup(A, g) \in Nat
            BY <2>1, TokensOf
      <2>5. Cardinality(HeldOf(Batches, g)) \in Nat
            BY <1>5, HeldFinite
      <2>6. Cardinality(LooseOf(loose, g)) \in Nat
            BY FS_CardinalityType DEF Counted
      <2>7. slots'[g] = slots[g] + InGroup(A, g)
            BY <1>1
      <2> QED BY <2>2, <2>3, <2>4, <2>5, <2>6, <2>7
<1>9. slots' = [g \in Groups |-> Cardinality(HeldOf(Batches', g)) + Cardinality(LooseOf(loose, g))]
      BY <1>1, <1>8
<1>10. unlimited' \/ \A g \in Groups : slots'[g] <= LocalLimit
      <2> SUFFICES ASSUME ~unlimited', NEW g \in Groups PROVE slots'[g] <= LocalLimit
          OBVIOUS
      <2>1. LocalLimit \in Nat /\ slots[g] \in Nat /\ slots[g] <= LocalLimit /\ slots'[g] \in Nat
            BY <1>1, <1>7, <1>8, WorkerAssumption DEF Counted
      <2>2. CASE limited
            <3>1. Limit = LocalLimit
                  BY <2>2 DEF Limit
            <3>2. InGroup(S, g) \in Nat
                  BY <1>0, TokensOf
            <3>3. PICK room : /\ room = (IF slots[g] < LocalLimit THEN LocalLimit - slots[g] ELSE 0)
                              /\ InGroup(A, g) = IF InGroup(S, g) < room THEN InGroup(S, g) ELSE room
                  BY <1>1, <3>1 DEF Admits
            <3>4. InGroup(A, g) <= room /\ room \in Nat
                  BY <2>1, <3>2, <3>3
            <3> QED BY <1>8, <2>1, <3>3, <3>4
      <2>3. CASE ~limited
            <3>1. ~(slots'[g] > LocalLimit)
                  BY <1>1, <2>3, Zenon
            <3> QED BY <2>1, <3>1
      <2> QED BY <2>2, <2>3
<1>11. unlimited' \in BOOLEAN
      BY <1>1 DEF Counted
<1> QED BY <1>7, <1>9, <1>10, <1>11 DEF Counted

\* The finally blocks.
LEMMA AfterCount ==
    ASSUME Shaped, Counted, NEW w \in Workers, NEW keep \in BOOLEAN, AfterBatch(w, keep),
           UNCHANGED <<limited, unlimited>>
    PROVE  Counted'
<1> DEFINE n == setup.retryLimit
<1>0. wk[w] \in Record(n)
      BY DEF Shaped
<1>1. PICK q, x : /\ x = (IF keep THEN wk[w].jobs ELSE None)
                  /\ q = [wk[w] EXCEPT !.ctl = FALSE, !.rest = {}, !.jobs = x]
      OBVIOUS
<1>2. x \in Attempts(n)
      BY <1>0, <1>1, NoneFacts DEF Record
<1>3. q \in Record(n) /\ q.batch = wk[w].batch
      BY <1>0, <1>1, <1>2 DEF Record
<1>4. \/ Become(w, [q EXCEPT !.pc = "overrun", !.jobs = None]) /\ UNCHANGED <<slots, loose>>
      \/ /\ EndRound(w, [q EXCEPT !.batch = None, !.running = FALSE])
         /\ loose' = [loose EXCEPT ![DOMAIN q.batch] = @ + 1] /\ UNCHANGED slots
      \/ /\ EndRound(w, [q EXCEPT !.batch = None])
         /\ slots' = SlotsWithout(DOMAIN q.batch) /\ UNCHANGED loose
      BY <1>1 DEF AfterBatch
<1>5. CASE Become(w, [q EXCEPT !.pc = "overrun", !.jobs = None]) /\ UNCHANGED <<slots, loose>>
      <2>1. PICK r : r = [q EXCEPT !.pc = "overrun", !.jobs = None]
            OBVIOUS
      <2>2. r.batch = wk[w].batch
            BY <1>3, <2>1 DEF Record
      <2>3. \A v \in Workers : DOMAIN wk'[v].batch = DOMAIN wk[v].batch
            BY <1>5, <2>1, <2>2 DEF Become, Shaped
      <2> QED BY <1>5, <2>3, SameCounts DEF Counted
<1>6. CASE /\ EndRound(w, [q EXCEPT !.batch = None, !.running = FALSE])
           /\ loose' = [loose EXCEPT ![DOMAIN q.batch] = @ + 1] /\ UNCHANGED slots
      <2>1. PICK p : p = [q EXCEPT !.batch = None, !.running = FALSE]
            OBVIOUS
      <2>2. p \in Record(n) /\ p.batch = None
            BY <1>3, <2>1, NoneFacts DEF Record
      <2>3. EndRound(w, p)
            BY <1>6, <2>1
      <2>4. PICK r : Become(w, r) /\ r.batch = p.batch
            BY <2>2, <2>3, RoundPc
      <2> QED BY <1>3, <1>6, <2>2, <2>4, SlotsAbandoned
<1>7. CASE /\ EndRound(w, [q EXCEPT !.batch = None])
           /\ slots' = SlotsWithout(DOMAIN q.batch) /\ UNCHANGED loose
      <2>1. PICK p : p = [q EXCEPT !.batch = None]
            OBVIOUS
      <2>2. p \in Record(n) /\ p.batch = None
            BY <1>3, <2>1, NoneFacts DEF Record
      <2>3. EndRound(w, p)
            BY <1>7, <2>1
      <2>4. PICK r : Become(w, r) /\ r.batch = p.batch
            BY <2>2, <2>3, RoundPc
      <2> QED BY <1>3, <1>7, <2>2, <2>4, SlotsFreed
<1> QED BY <1>4, <1>5, <1>6, <1>7

\* The steps that end a batch.
LEMMA EndCount ==
    ASSUME Shaped, Counted, NEW w \in Workers,
           \/ RestoreFails(w) \/ OverrunReturns(w) \/ OverrunAbandoned(w) \/ FailRest(w) \/ FailBatch(w)
           \/ FailRaises(w) \/ Commit(w) \/ CompleteBatch(w)
    PROVE  Counted'
<1> DEFINE n == setup.retryLimit
<1>0. wk[w] \in Record(n)
      BY DEF Shaped
<1>1. UNCHANGED <<limited, unlimited>>
      BY DEF RestoreFails, OverrunReturns, OverrunAbandoned, FailRest, FailBatch, FailRaises, Commit, Commits,
             CompleteBatch
<1>2. CASE RestoreFails(w) \/ OverrunReturns(w)
      <2>1. \E q \in Record(n) : q.batch = None /\ EndRound(w, q)
            <3>1. PICK x, y : x = [wk[w] EXCEPT !.batch = None]
                              /\ y = [wk[w] EXCEPT !.batch = None, !.running = FALSE]
                  OBVIOUS
            <3>2. x \in Record(n) /\ y \in Record(n) /\ x.batch = None /\ y.batch = None
                  BY <1>0, <3>1, NoneFacts DEF Record
            <3>3. EndRound(w, x) \/ EndRound(w, y)
                  BY <1>2, <3>1 DEF RestoreFails, OverrunReturns
            <3> QED BY <3>2, <3>3
      <2>2. PICK r : Become(w, r) /\ r.batch = None
            BY <2>1, RoundPc
      <2>3. slots' = SlotsWithout(DOMAIN wk[w].batch) /\ UNCHANGED loose
            BY <1>2 DEF RestoreFails, OverrunReturns
      <2> QED BY <1>1, <2>2, <2>3, SlotsFreed
<1>3. CASE AfterBatch(w, TRUE) \/ AfterBatch(w, FALSE)
      BY <1>1, <1>3, AfterCount
<1>4. CASE CompleteBatch(w) /\ ~AfterBatch(w, FALSE)
      <2>1. PICK t, q : /\ q = [wk[w] EXCEPT !.pc = "rest", !.rest = t] /\ Become(w, q)
                        /\ UNCHANGED <<slots, loose>>
            BY <1>4 DEF CompleteBatch
      <2>2. q.batch = wk[w].batch
            BY <1>0, <2>1 DEF Record
      <2>3. \A v \in Workers : DOMAIN wk'[v].batch = DOMAIN wk[v].batch
            BY <2>1, <2>2 DEF Become, Shaped
      <2> QED BY <1>1, <2>1, <2>3, SameCounts DEF Counted
<1> QED BY <1>2, <1>3, <1>4 DEF OverrunAbandoned, FailRest, FailBatch, FailRaises, Commit

\* The other steps leave batches and slots alone.
LEMMA OtherCount ==
    ASSUME Shaped, Counted,
           \/ \E w \in Workers :
                 \/ FetchStart(w) \/ FetchClaim(w) \/ FetchFails(w) \/ RestoreExcess(w) \/ RestoreReturn(w)
                 \/ StartHandler(w) \/ HandlerReturns(w) \/ RaceEnds(w) \/ CompleteInTransaction(w)
                 \/ CommitAnswerLost(w) \/ SettleRaises(w) \/ Rollback(w)
                 \/ Exit(w) \/ OffWork(w) \/ Work(w) \/ FailWipFail(w) \/ FailWipAbort(w)
           \/ \E w \in Workers, j \in Jobs : HandlerSettles(w, j)
           \/ \E j \in Jobs : Send(j) \/ OtherCompletes(j) \/ Expire(j) \/ OtherClaims(j)
           \/ Listen \/ ListenerDrops \/ Notified \/ Stop \/ GraceEnds \/ Close
    PROVE  Counted'
<1> DEFINE n == setup.retryLimit
<1>1. \A w \in Workers : wk[w] \in Record(n)
      BY DEF Shaped
<1>2. UNCHANGED <<slots, loose, unlimited>> /\ limited' \in BOOLEAN
      BY DEF FetchStart, FetchClaim, FetchFails, RestoreExcess, RestoreReturn, StartHandler, HandlerReturns,
             RaceEnds, CompleteInTransaction, CommitAnswerLost, Commits, SettleRaises, Rollback, Exit, OffWork,
             Work, FailWipFail, FailWipAbort, HandlerSettles, Send, OtherCompletes, Expire, OtherClaims,
             OtherStep, Listen, ListenerDrops, Notified, Stop, GraceEnds, Close, Counted, groupVars
<1>3. ASSUME \A w \in Workers : DOMAIN wk'[w].batch = DOMAIN wk[w].batch
      PROVE  Counted'
      BY <1>2, <1>3, SameCounts
<1>4. ASSUME NEW w \in Workers, NEW q, Become(w, q), DOMAIN q.batch = DOMAIN wk[w].batch
      PROVE  Counted'
      <2>1. \A v \in Workers : DOMAIN wk'[v].batch = DOMAIN wk[v].batch
            BY <1>4 DEF Become, Shaped
      <2> QED BY <1>3, <2>1
<1>5. ASSUME NEW w \in Workers, FetchStart(w) \/ FetchClaim(w) \/ FetchFails(w)
      PROVE  Counted'
      <2>1. CASE FetchStart(w)
            <3>1. PICK q : q = [wk[w] EXCEPT !.pc = "fetching", !.notified = FALSE, !.owed = FALSE,
                                             !.ignored = AtLocalCapacity]
                  OBVIOUS
            <3>2. q.batch = wk[w].batch
                  BY <1>1, <3>1 DEF Record
            <3> QED BY <1>4, <2>1, <3>1, <3>2 DEF FetchStart
      <2>2. CASE FetchClaim(w)
            <3>1. PICK f, q : q = [wk[w] EXCEPT !.pc = "claimed", !.ignored = {}, !.fetched = f] /\ Become(w, q)
                  BY <2>2 DEF FetchClaim
            <3>2. q.batch = wk[w].batch
                  BY <1>1, <3>1 DEF Record
            <3> QED BY <1>4, <3>1, <3>2
      <2>3. CASE FetchFails(w)
            <3>1. PICK q : q = [wk[w] EXCEPT !.fetched = None, !.ignored = {}] /\ EndRound(w, q)
                  BY <2>3 DEF FetchFails
            <3>2. q \in Record(n) /\ q.batch = wk[w].batch
                  BY <1>1, <3>1, NoneFacts DEF Record
            <3>3. EndRound(w, q)
                  BY <3>1
            <3>4. PICK r : Become(w, r) /\ r.batch = q.batch
                  BY <3>2, <3>3, RoundPc
            <3> QED BY <1>4, <3>2, <3>4
      <2> QED BY <1>5, <2>1, <2>2, <2>3
<1>6. ASSUME NEW w \in Workers, RestoreReturn(w)
      PROVE  Counted'
      <2>1. PICK q : q = [wk[w] EXCEPT !.jobs = wk[w].batch] /\ (EndRound(w, q) \/ Become(w, Enter(q)))
            BY <1>6 DEF RestoreReturn
      <2>2. q \in Record(n) /\ q.batch = wk[w].batch
            BY <1>1, <2>1 DEF Record
      <2>3. CASE EndRound(w, q)
            <3>1. PICK r : Become(w, r) /\ r.batch = wk[w].batch
                  BY <2>2, <2>3, RoundPc
            <3> QED BY <1>4, <3>1
      <2>4. CASE Become(w, Enter(q))
            <3>1. PICK p, x : x = [q EXCEPT !.ctl = TRUE, !.aborted = FALSE, !.pc = p, !.running = (p = "running")]
                              /\ x = Enter(q)
                  BY DEF Enter
            <3>2. x.batch = wk[w].batch
                  BY <2>2, <3>1 DEF Record
            <3> QED BY <1>4, <2>4, <3>1, <3>2
      <2> QED BY <2>1, <2>3, <2>4
<1>7. ASSUME NEW w \in Workers, NEW p, NEW b, NEW t,
             \/ Become(w, [wk[w] EXCEPT !.pc = p]) \/ Become(w, [wk[w] EXCEPT !.pc = p, !.running = b])
             \/ Become(w, [wk[w] EXCEPT !.pc = p, !.rest = t]) \/ Become(w, [wk[w] EXCEPT !.aborted = b])
      PROVE  Counted'
      <2>1. PICK x, y, z, u : /\ x = [wk[w] EXCEPT !.pc = p] /\ y = [wk[w] EXCEPT !.pc = p, !.running = b]
                              /\ z = [wk[w] EXCEPT !.pc = p, !.rest = t] /\ u = [wk[w] EXCEPT !.aborted = b]
            OBVIOUS
      <2>2. \A q \in {x, y, z, u} : q.batch = wk[w].batch
            BY <1>1, <2>1 DEF Record
      <2> QED BY <1>4, <1>7, <2>1, <2>2
<1>8. ASSUME NEW w \in Workers,
             \/ RestoreExcess(w) \/ StartHandler(w) \/ HandlerReturns(w) \/ RaceEnds(w) \/ SettleRaises(w)
             \/ CompleteInTransaction(w) \/ CommitAnswerLost(w) \/ Rollback(w) \/ Exit(w)
      PROVE  Counted'
      BY <1>7, <1>8 DEF RestoreExcess, StartHandler, HandlerReturns, RaceEnds, SettleRaises,
                        CompleteInTransaction, CommitAnswerLost, Rollback, Exit
<1>9. ASSUME NEW w \in Workers, Work(w)
      PROVE  Counted'
      <2>1. PICK q : q = [Fresh EXCEPT !.starts = wk[w].starts + 1]
            OBVIOUS
      <2>2. q.batch = None
            BY <2>1 DEF Fresh
      <2>3. wk[w].batch = None
            BY <1>9 DEF Work, At, Shaped, Shape, Idle
      <2> QED BY <1>4, <1>9, <2>1, <2>2, <2>3 DEF Work
<1>10. ASSUME NEW w \in Workers, FailWipAbort(w)
       PROVE  Counted'
       <2>1. wk' = [wk EXCEPT ![w] = [wk[w] EXCEPT !.aborted = wk[w].aborted \/ wk[w].ctl]]
             BY <1>10 DEF FailWipAbort, Shaped
       <2>2. Become(w, [wk[w] EXCEPT !.aborted = wk[w].aborted \/ wk[w].ctl])
             BY <2>1 DEF Become
       <2> QED BY <1>7, <2>2
<1>11. ASSUME UNCHANGED wk
       PROVE  Counted'
       BY <1>3, <1>11
<1>12. ASSUME NEW w \in Workers
       PROVE  /\ Woken(wk[w]).batch = wk[w].batch /\ Woken(wk[w]) \in Record(n)
       BY <1>1 DEF Woken, Record, Pcs
<1>13. CASE NotifyWorkers
       <2>1. ASSUME NEW w \in Workers
             PROVE  DOMAIN wk'[w].batch = DOMAIN wk[w].batch
             <3>1. PICK u, q : u = Woken(wk[w]) /\ q = [u EXCEPT !.notified = TRUE, !.owed = TRUE]
                   OBVIOUS
             <3>2. q.batch = wk[w].batch
                   BY <1>12, <3>1 DEF Record
             <3>3. wk'[w] = wk[w] \/ wk'[w] = q
                   BY <1>13, <3>1 DEF NotifyWorkers
             <3> QED BY <3>2, <3>3
       <2> QED BY <1>3, <2>1
<1>14. ASSUME NEW S \in SUBSET Workers, StopWorkers(S)
       PROVE  Counted'
       <2>1. ASSUME NEW w \in Workers
             PROVE  DOMAIN wk'[w].batch = DOMAIN wk[w].batch
             <3>1. PICK u, q : u = Woken(wk[w]) /\ q = [u EXCEPT !.stopping = TRUE]
                   OBVIOUS
             <3>2. q.batch = wk[w].batch
                   BY <1>12, <3>1 DEF Record
             <3>3. wk'[w] = wk[w] \/ wk'[w] = q
                   BY <1>14, <3>1 DEF StopWorkers
             <3> QED BY <3>2, <3>3
       <2> QED BY <1>3, <2>1
<1>15. CASE GraceEnds
       <2>1. ASSUME NEW w \in Workers
             PROVE  DOMAIN wk'[w].batch = DOMAIN wk[w].batch
             <3>1. PICK q : q = [wk[w] EXCEPT !.graceExpired = TRUE]
                   OBVIOUS
             <3>2. q.batch = wk[w].batch
                   BY <1>1, <3>1 DEF Record
             <3> QED BY <1>15, <3>1, <3>2 DEF GraceEnds
       <2> QED BY <1>3, <2>1
<1>16. CASE Listen \/ Notified \/ Stop \/ \E w \in Workers : OffWork(w)
       BY <1>13, <1>14, <1>16 DEF Listen, Notified, Stop, OffWork
<1>17. ASSUME NEW w \in Workers, FailWipFail(w) \/ \E j \in Jobs : HandlerSettles(w, j)
       PROVE  Counted'
       BY <1>11, <1>17 DEF FailWipFail, HandlerSettles
<1>18. ASSUME NEW j \in Jobs, Send(j) \/ OtherCompletes(j) \/ Expire(j) \/ OtherClaims(j)
       PROVE  Counted'
       BY <1>11, <1>18 DEF Send, OtherCompletes, Expire, OtherClaims, OtherStep
<1>19. CASE ListenerDrops \/ Close
       BY <1>11, <1>19 DEF ListenerDrops, Close
<1> QED BY <1>5, <1>6, <1>8, <1>9, <1>10, <1>15, <1>16, <1>17, <1>18, <1>19

-----------------------------------------------------------------------------
(* The invariant, and the theorems *)

\* A pool that is closed has no worker left.
Closed ==
    /\ life \in {"up", "stopped", "failing", "closed"}
    /\ life = "closed" => \A w \in Workers : At(w, "stopped")

\* The values of the variables that no other part is about.
OtherTypes ==
    /\ listening \in BOOLEAN /\ notice \in BOOLEAN /\ faults \in Nat
    /\ todo \in [Workers -> {"none", "fail", "abort"}]

IInv == Shaped /\ Data /\ Counted /\ Closed /\ OtherTypes

\* A worker that has left its loop comes back only by work().
LEMMA StoppedStays ==
    ASSUME Shaped, NEW w \in Workers, wk[w].pc = "stopped", life # "up", [Next]_vars
    PROVE  wk'[w].pc = "stopped"
<1>1. ASSUME NEW v \in Workers, v # w, NEW q, Become(v, q)
      PROVE  wk'[w] = wk[w]
      BY <1>1 DEF Become, Shaped
<1>2. ASSUME NEW v \in Workers, v # w, NEW q, EndRound(v, q)
      PROVE  wk'[w] = wk[w]
      BY <1>1, <1>2 DEF EndRound
<1>3. ASSUME NEW v \in Workers, v # w, NEW keep, AfterBatch(v, keep)
      PROVE  wk'[w] = wk[w]
      BY <1>1, <1>2, <1>3 DEF AfterBatch
<1>4. ASSUME NEW v \in Workers, WorkerStep(v)
      PROVE  wk'[w] = wk[w]
      <2>1. v # w
            BY <1>4 DEF WorkerStep, FetchStart, FetchClaim, FetchReturn, RestoreExcess, RestoreReturn,
               StartHandler, RaceEnds, CompleteBatch, FailRest, CompleteInTransaction, Commit, Commits, Rollback,
               FailBatch, OverrunAbandoned, Exit, At
      <2>2. CASE FetchStart(v) \/ FetchClaim(v) \/ FetchReturn(v) \/ RestoreExcess(v) \/ RestoreReturn(v)
            BY <1>1, <1>2, <2>1, <2>2 DEF FetchStart, FetchClaim, FetchReturn, RestoreExcess, RestoreReturn
      <2>3. CASE StartHandler(v) \/ RaceEnds(v) \/ CompleteBatch(v) \/ FailRest(v)
            BY <1>1, <1>3, <2>1, <2>3 DEF StartHandler, RaceEnds, CompleteBatch, FailRest
      <2>4. CASE CompleteInTransaction(v) \/ Commit(v) \/ Rollback(v) \/ FailBatch(v) \/ OverrunAbandoned(v) \/ Exit(v)
            BY <1>1, <1>3, <2>1, <2>4 DEF CompleteInTransaction, Commit, Rollback, FailBatch, OverrunAbandoned, Exit
      <2> QED BY <1>4, <2>2, <2>3, <2>4 DEF WorkerStep
<1>5. ASSUME NEW v \in Workers, HandlerStep(v)
      PROVE  wk'[w] = wk[w]
      <2>1. CASE \E j \in Jobs : HandlerSettles(v, j)
            BY <2>1 DEF HandlerSettles
      <2>2. CASE HandlerReturns(v) \/ OverrunReturns(v)
            BY <1>1, <1>2, <2>2 DEF HandlerReturns, OverrunReturns, At
      <2> QED BY <1>5, <2>1, <2>2 DEF HandlerStep
<1>6. ASSUME NEW v \in Workers,
             FetchFails(v) \/ RestoreFails(v) \/ SettleRaises(v) \/ FailRaises(v) \/ CommitAnswerLost(v)
      PROVE  wk'[w] = wk[w]
      <2>1. v # w
            BY <1>6 DEF FetchFails, RestoreFails, SettleRaises, FailRaises, CommitAnswerLost, Commits, At
      <2> QED BY <1>1, <1>2, <1>3, <1>6, <2>1 DEF FetchFails, RestoreFails, SettleRaises, FailRaises, CommitAnswerLost
<1>7. CASE NotifyWorkers
      BY <1>7 DEF NotifyWorkers
<1>8. CASE ShutdownStep
      <2>1. wk[w] \in Record(setup.retryLimit)
            BY DEF Shaped
      <2>2. CASE GraceEnds
            <3>1. wk'[w] = [wk[w] EXCEPT !.graceExpired = TRUE]
                  BY <2>2 DEF GraceEnds
            <3> QED BY <2>1, <3>1 DEF Record
      <2>3. ASSUME NEW v \in Workers, FailWipAbort(v)
            PROVE  wk'[w].pc = "stopped"
            <3>1. wk' = [wk EXCEPT ![v] = [wk[v] EXCEPT !.aborted = wk[v].aborted \/ wk[v].ctl]]
                  BY <2>3 DEF FailWipAbort, Shaped
            <3>2. CASE v # w
                  BY <3>1, <3>2 DEF Shaped
            <3>3. CASE v = w
                  BY <2>1, <3>1, <3>3 DEF Shaped, Record
            <3> QED BY <3>2, <3>3
      <2>4. CASE Close \/ \E v \in Workers : FailWipFail(v)
            BY <2>4 DEF Close, FailWipFail
      <2> QED BY <1>8, <2>2, <2>3, <2>4 DEF ShutdownStep
<1>9. ASSUME NEW j \in Jobs, Send(j) \/ OtherCompletes(j) \/ Expire(j) \/ OtherClaims(j)
      PROVE  wk' = wk
      BY <1>9 DEF Send, OtherCompletes, Expire, OtherClaims, OtherStep
<1>10. CASE ListenerDrops \/ \E S \in SUBSET Jobs : LooseReturns(S)
       BY <1>10 DEF ListenerDrops, LooseReturns
<1>11. CASE Step
       BY <1>4, <1>5, <1>7, <1>8, <1>9, <1>10, <1>11 DEF Step, OffWork, Work, Listen, Notified, Stop
<1>12. CASE Fault
       BY <1>6, <1>9, <1>10, <1>12 DEF Fault
<1> QED BY <1>11, <1>12 DEF Next, vars

\* The initial states.
LEMMA Initially == Init => IInv
<1> SUFFICES ASSUME Init PROVE IInv
    OBVIOUS
<1>1. Shaped /\ setup.retryLimit \in Nat
      BY InitShape DEF Retries
<1>2. Rows
      BY <1>1 DEF Init, Rows, RowOK, Row, States
<1>3. Owing
      BY WorkerAssumption DEF Init, Owing
<1>4. \A w \in Workers : wk[w].pc \in {"loop", "stopped"} /\ wk[w].batch = None
      <2>1. Fresh.pc = "loop" /\ Fresh.batch = None
            BY DEF Fresh
      <2>2. [Fresh EXCEPT !.pc = "stopped"].pc = "stopped" /\ [Fresh EXCEPT !.pc = "stopped"].batch = None
            BY DEF Fresh
      <2> QED BY <2>1, <2>2 DEF Init
<1>5. Locked
      BY <1>4 DEF Locked, At
<1>6. Written
      BY DEF Init, Written, WritesCommitOnce
<1>7. Counted
      <2>1. loose \in [SUBSET Jobs -> Nat] /\ limited \in BOOLEAN /\ unlimited \in BOOLEAN
            BY DEF Init
      <2>2. ASSUME NEW g \in Groups
            PROVE  /\ IsFiniteSet(LooseOf(loose, g)) /\ Cardinality(LooseOf(loose, g)) = 0
                   /\ Cardinality(HeldOf(Batches, g)) = 0
            <3>1. \A S \in SUBSET Jobs : 1 .. loose[S] = {}
                  BY DEF Init
            <3>2. LooseOf(loose, g) = {}
                  BY <3>1 DEF LooseOf
            <3>3. HeldOf(Batches, g) = {}
                  BY <1>4, NoneFacts DEF HeldOf, Batches, Grouped
            <3> QED BY <3>2, <3>3, FS_EmptySet
      <2>3. slots = [g \in Groups |-> 0]
            BY DEF Init
      <2>4. slots = [g \in Groups |-> Cardinality(HeldOf(Batches, g)) + Cardinality(LooseOf(loose, g))]
            BY <2>2, <2>3
      <2>5. \A g \in Groups : slots[g] <= LocalLimit
            BY <2>3, WorkerAssumption
      <2> QED BY <2>1, <2>2, <2>4, <2>5 DEF Counted
<1>8. Closed /\ OtherTypes
      BY DEF Init, Closed, OtherTypes
<1> QED BY <1>1, <1>2, <1>3, <1>5, <1>6, <1>7, <1>8 DEF IInv, Data

\* The steps.
LEMMA Inductive ==
    ASSUME IInv, [Next]_vars
    PROVE  IInv'
<1>1. Shaped'
      BY StepShape, RowsRetries DEF IInv, Data
<1>2. CASE UNCHANGED vars
      <2>1. Data'
            <3>1. UNCHANGED <<setup, row, lock, holder, writes, reset, wk>>
                  BY <1>2 DEF vars, db, ghosts
            <3> QED BY <3>1 DEF IInv, Data, Rows, Owing, Locked, Written, WritesCommitOnce, At
      <2>2. Counted'
            <3>1. UNCHANGED <<slots, loose, limited, unlimited, wk>>
                  BY <1>2 DEF vars, groupVars
            <3> QED BY <3>1, SameCounts DEF IInv, Counted
      <2>3. Closed' /\ OtherTypes'
            BY <1>2 DEF vars, lifeVars, listenVars, IInv, Closed, OtherTypes, At
      <2> QED BY <1>1, <2>1, <2>2, <2>3 DEF IInv
<1>3. CASE Next
      <2>1. Data'
            BY <1>3, FetchData, ReturnData, RestoreData, HandlerData, SettleData, LateData, TransactionData, OtherData
               DEF IInv, Next, Step, Fault, WorkerStep, HandlerStep, ShutdownStep
      <2>2. Counted'
            BY <1>3, AdmitCount, EndCount, LooseCount, OtherCount
               DEF IInv, Next, Step, Fault, WorkerStep, HandlerStep, ShutdownStep
      <2>3. Closed'
            <3>1. \/ life' = life
                  \/ life = "up" /\ life' = "stopped"
                  \/ life = "stopped" /\ life' = "failing"
                  \/ life = "failing" /\ life' = "closed" /\ (\A w \in Workers : At(w, "stopped")) /\ UNCHANGED wk
                  <4>1. CASE Close \/ Stop \/ GraceEnds
                        BY <4>1 DEF Close, Stop, GraceEnds
                  <4>2. CASE Listen \/ Notified \/ ListenerDrops \/ \E S \in SUBSET Jobs : LooseReturns(S)
                        BY <4>2 DEF Listen, Notified, ListenerDrops, LooseReturns, lifeVars
                  <4>3. ASSUME NEW j \in Jobs, Send(j) \/ OtherCompletes(j) \/ Expire(j) \/ OtherClaims(j)
                        PROVE  life' = life
                        BY <4>3 DEF Send, OtherCompletes, Expire, OtherClaims, OtherStep, lifeVars
                  <4>4. ASSUME NEW w \in Workers, WorkerStep(w)
                        PROVE  life' = life
                        BY <4>4 DEF WorkerStep, FetchStart, FetchClaim, FetchReturn, RestoreExcess, RestoreReturn,
                           StartHandler, RaceEnds, CompleteBatch, FailRest, CompleteInTransaction, Commit, Commits,
                           Rollback, FailBatch, OverrunAbandoned, Exit, lifeVars
                  <4>5. ASSUME NEW w \in Workers,
                               \/ HandlerStep(w) \/ OffWork(w) \/ Work(w) \/ FailWipFail(w) \/ FailWipAbort(w)
                               \/ FetchFails(w) \/ RestoreFails(w) \/ SettleRaises(w) \/ FailRaises(w) \/ CommitAnswerLost(w)
                        PROVE  life' = life
                        BY <4>5 DEF HandlerStep, HandlerReturns, OverrunReturns, HandlerSettles, OffWork, Work,
                           FailWipFail, FailWipAbort, FetchFails, RestoreFails, SettleRaises, FailRaises,
                           CommitAnswerLost, Commits, lifeVars
                  <4> QED BY <1>3, <4>1, <4>2, <4>3, <4>4, <4>5 DEF Next, Step, Fault, ShutdownStep
            <3> QED BY <3>1, StoppedStays DEF IInv, Closed, At
      <2>4. OtherTypes'
            <3>1. faults' \in Nat
                  BY <1>3 DEF IInv, OtherTypes, Next
            <3>2. CASE Close \/ Stop \/ GraceEnds \/ Listen \/ Notified \/ ListenerDrops
                  BY <3>1, <3>2 DEF IInv, OtherTypes, Close, Stop, GraceEnds, Listen, Notified, ListenerDrops,
                                    listenVars, lifeVars
            <3>3. ASSUME UNCHANGED <<listening, todo>>, notice' \in {notice, listening, TRUE}
                  PROVE  OtherTypes'
                  BY <3>1, <3>3 DEF IInv, OtherTypes
            <3>4. ASSUME NEW j \in Jobs, Send(j) \/ OtherCompletes(j) \/ Expire(j) \/ OtherClaims(j)
                  PROVE  UNCHANGED <<listening, todo>> /\ notice' \in {notice, listening, TRUE}
                  BY <3>4 DEF Send, OtherCompletes, Expire, OtherClaims, OtherStep, lifeVars, listenVars, IInv,
                              OtherTypes
            <3>5. CASE \E S \in SUBSET Jobs : LooseReturns(S)
                  BY <3>3, <3>5 DEF LooseReturns, lifeVars, listenVars
            <3>6. ASSUME NEW w \in Workers, WorkerStep(w)
                  PROVE  UNCHANGED <<listening, notice, todo>>
                  BY <3>6 DEF WorkerStep, FetchStart, FetchClaim, FetchReturn, RestoreExcess, RestoreReturn,
                     StartHandler, RaceEnds, CompleteBatch, FailRest, CompleteInTransaction, Commit, Commits,
                     Rollback, FailBatch, OverrunAbandoned, Exit, lifeVars, listenVars
            <3>7. ASSUME NEW w \in Workers,
                         \/ HandlerStep(w) \/ OffWork(w) \/ Work(w)
                         \/ FetchFails(w) \/ RestoreFails(w) \/ SettleRaises(w) \/ FailRaises(w) \/ CommitAnswerLost(w)
                  PROVE  UNCHANGED <<listening, notice, todo>>
                  BY <3>7 DEF HandlerStep, HandlerReturns, OverrunReturns, HandlerSettles, OffWork, Work,
                     FetchFails, RestoreFails, SettleRaises, FailRaises, CommitAnswerLost, Commits, lifeVars, listenVars
            <3>8. ASSUME NEW w \in Workers, FailWipFail(w) \/ FailWipAbort(w)
                  PROVE  OtherTypes'
                  BY <3>1, <3>8 DEF FailWipFail, FailWipAbort, listenVars, IInv, OtherTypes
            <3> QED BY <1>3, <3>2, <3>3, <3>4, <3>5, <3>6, <3>7, <3>8 DEF Next, Step, Fault, ShutdownStep
      <2> QED BY <1>1, <2>1, <2>2, <2>3, <2>4 DEF IInv
<1> QED BY <1>2, <1>3

\* The inductive invariant: what a worker holds at each of its statements, which rows are
\* claimed and locked, how the slots of a group are made up, and what the close of the
\* pool waits for (worker.ts, manager.ts, index.ts).
THEOREM WorkerInvariant == Spec => []IInv
<1>1. IInv /\ [Next]_vars => IInv'
      BY Inductive
<1> QED BY Initially, <1>1, PTL DEF Spec

\* The values of the variables: no row's retry_count passes its retry_limit, and a handler
\* runs on a batch that is not empty.
THEOREM TypeCorrect == Spec => []TypeOK
<1>1. IInv => TypeOK
      <2> SUFFICES ASSUME IInv PROVE TypeOK
          OBVIOUS
      <2>1. slots \in [Groups -> Nat]
            BY SlotsType DEF IInv
      <2>2. \A w \in Workers : wk[w].running => wk[w].batch # None
            BY DEF IInv, Shaped, Shape
      <2> QED BY <2>1, <2>2 DEF TypeOK, IInv, Shaped, Data, Rows, Counted, Written, Closed, OtherTypes
<1> QED BY <1>1, WorkerInvariant, PTL

\* LocalGroupSlots: localGroupConcurrency bounds the handlers of a group, those that outran
\* their timeout or were abandoned by a stop included, and no slot is lost or freed twice,
\* however batches end (#trackLocalGroupStart, #trackLocalGroupEnd).
THEOREM LocalGroupSlotsTheorem == Spec => []LocalGroupSlots
<1>1. IInv => LocalGroupBound
      <2> SUFFICES ASSUME IInv, ~unlimited, NEW g \in Groups PROVE Handlers(g) <= LocalLimit
          BY DEF LocalGroupBound
      <2>1. Batches \in [Workers -> SUBSET Jobs]
            BY BatchesType DEF IInv
      <2>2. RunningIn(g) \subseteq HeldOf(Batches, g)
            BY DEF RunningIn, HeldOf, Batches
      <2>3. IsFiniteSet(HeldOf(Batches, g)) /\ Cardinality(HeldOf(Batches, g)) \in Nat
            BY <2>1, HeldFinite
      <2>4. Cardinality(RunningIn(g)) <= Cardinality(HeldOf(Batches, g)) /\ Cardinality(RunningIn(g)) \in Nat
            BY <2>2, <2>3, FS_Subset, FS_CardinalityType
      <2>5. LooseIn(g) = LooseOf(loose, g) /\ Cardinality(LooseOf(loose, g)) \in Nat
            BY FS_CardinalityType DEF LooseIn, LooseOf, IInv, Counted
      <2>6. slots[g] = Cardinality(HeldOf(Batches, g)) + Cardinality(LooseOf(loose, g)) /\ slots[g] <= LocalLimit
            BY DEF IInv, Counted
      <2> QED BY <2>3, <2>4, <2>5, <2>6, WorkerAssumption DEF Handlers
<1>2. IInv => NoSlotLeak
      <2> SUFFICES ASSUME IInv, \A w \in Workers : wk[w].batch = None, \A S \in SUBSET Jobs : loose[S] = 0,
                          NEW g \in Groups
                   PROVE  slots[g] = 0
          BY DEF NoSlotLeak
      <2>1. \A S \in SUBSET Jobs : 1 .. loose[S] = {}
            OBVIOUS
      <2>2. LooseOf(loose, g) = {}
            BY <2>1 DEF LooseOf
      <2>3. HeldOf(Batches, g) = {}
            BY NoneFacts DEF HeldOf, Batches, Grouped
      <2>4. Cardinality(HeldOf(Batches, g)) = 0 /\ Cardinality(LooseOf(loose, g)) = 0
            BY <2>2, <2>3, FS_EmptySet
      <2>5. slots[g] = Cardinality(HeldOf(Batches, g)) + Cardinality(LooseOf(loose, g))
            BY DEF IInv, Counted
      <2> QED BY <2>4, <2>5
<1>3. IInv => LocalGroupSlots
      BY <1>1, <1>2 DEF LocalGroupSlots
<1> QED BY <1>3, WorkerInvariant, PTL

\* NoSleepOnNotice: a notification is never slept on, also when it came while a fetch or a
\* handler ran (worker.ts, the notified flag).
THEOREM NoSleepOnNoticeTheorem == Spec => []NoSleepOnNotice
<1>1. IInv => NoSleepOnNotice
      BY DEF IInv, Shaped, Shape, NoSleepOnNotice, At
<1> QED BY <1>1, WorkerInvariant, PTL

\* WritesSettled: the writes of a transactional handler are committed at most once per job
\* and only with its completion, and when the pool is closed no job is active under a claim
\* of the instance (#processJobs, failWip() and stop()).
THEOREM WritesSettledTheorem == Spec => []WritesSettled
<1>1. IInv => WritesSettled
      <2> SUFFICES ASSUME IInv PROVE WritesSettled
          OBVIOUS
      <2>1. WritesCommitOnce
            BY DEF IInv, Data, Written
      <2>2. ASSUME life = "closed", NEW j \in Jobs, NEW w \in Workers, holder[j] = w
            PROVE  FALSE
            <3>1. wk[w].pc = "stopped"
                  BY <2>2 DEF IInv, Closed, At
            <3>2. OwesAt(wk[w], j, row[j].retry)
                  BY <2>2 DEF IInv, Data, Owing
            <3> QED BY <3>1, <3>2 DEF OwesAt, Holding
      <2> QED BY <2>1, <2>2 DEF WritesSettled, NothingLeftAtClose
<1> QED BY <1>1, WorkerInvariant, PTL

-----------------------------------------------------------------------------
(* start() and stop(): proofs about Lifecycle and the Contractor inside it, for any *)
(* number of processes, calls, attempts and failures, and any version of the        *)
(* schema.  Lifecycle's own names are prefixed L!, and what it assumes of its       *)
(* constants is the hypothesis Assumed.                                             *)

CONSTANTS Me, Calls, MaxAttempts, MaxFailures, MaxPasses, NoCall

VARIABLES call, started, stopped, starting, stopping, opened, flag, armed, handle, passing, failures, passes,
          halfway, over, early

L == INSTANCE Lifecycle WITH None <- NoCall

Assumed == L!LifecycleAssumption

startVars == L!vars

-----------------------------------------------------------------------------
(* The contractors *)

\* The schema is found at one version and only ever moves to the release's, and what a
\* contractor remembers of it is good enough for what it does next.
Contracted ==
    /\ version \in 0 .. SchemaVersion
    /\ contract \in [Procs -> {"idle", "probe", "read", "create", "migrate", "done", "failed"}]
    /\ found \in [Procs -> 0 .. SchemaVersion]
    /\ applied = [v \in L!Steps |-> IF v <= version THEN 1 ELSE 0]
    /\ \A p \in Procs :
          /\ contract[p] = "create" => version \in {0, SchemaVersion}
          /\ contract[p] = "migrate" => found[p] = version \/ version = SchemaVersion
          /\ contract[p] = "done" => version = SchemaVersion

\* The initial states.
LEMMA ContractorInitially == L!ContractorInit => Contracted
BY ContractorAssumption DEF L!ContractorInit, Contracted, L!Steps

\* A step of a contractor.
LEMMA ContractorStepKeeps ==
    ASSUME Contracted, NEW p \in Procs,
           L!ContractorStart(p) \/ L!ContractorStep(p) \/ L!ContractorFails(p)
    PROVE  Contracted' /\ (version = SchemaVersion => version' = SchemaVersion)
<1> USE ContractorAssumption
<1>1. CASE L!ContractorStart(p) \/ L!IsInstalled(p) \/ L!ContractorFails(p)
      BY <1>1 DEF Contracted, L!ContractorStart, L!IsInstalled, L!ContractorFails, L!To
<1>2. CASE L!ReadVersion(p)
      BY <1>2 DEF Contracted, L!ReadVersion, L!To
<1>3. CASE L!Create(p)
      <2>1. version \in {0, SchemaVersion} /\ version' = SchemaVersion
            BY <1>3 DEF Contracted, L!Create
      <2>2. applied' = [v \in L!Steps |-> IF v <= version' THEN 1 ELSE 0]
            BY <1>3, <2>1 DEF Contracted, L!Create, L!Steps
      <2> QED BY <1>3, <2>1, <2>2 DEF Contracted, L!Create, L!To
<1>4. CASE L!Migrate(p)
      <2>1. (found[p] = version \/ version = SchemaVersion) /\ version' = SchemaVersion
            BY <1>4 DEF Contracted, L!Migrate
      <2>2. applied' = [v \in L!Steps |-> IF v <= version' THEN 1 ELSE 0]
            BY <1>4, <2>1 DEF Contracted, L!Migrate, L!Steps
      <2> QED BY <1>4, <2>1, <2>2 DEF Contracted, L!Migrate, L!To
<1> QED BY <1>1, <1>2, <1>3, <1>4 DEF L!ContractorStep

-----------------------------------------------------------------------------
(* The object *)

Stages == {"open", "schema", "manager", "notifier", "boss", "navigator", "timekeeper", "bam", "registrar",
           "end", "backoff", "failed"}

\* Past its schema step a start has the schema at its version, and so has the object.
StartIsContracted ==
    /\ starting = NoCall \/ starting \in [at : Stages, attempt : Nat, attempts : Nat, cancelled : BOOLEAN]
    /\ starting # NoCall /\ starting.at \notin {"open", "schema", "backoff", "failed"}
          => version = SchemaVersion
    /\ started => version = SchemaVersion

StartInv == Contracted /\ StartIsContracted

\* The steps that a contractor takes no part in.
LEMMA QuietStart ==
    ASSUME Assumed, StartInv, UNCHANGED L!schemaVars, StartIsContracted'
    PROVE  StartInv'
BY DEF StartInv, Contracted, L!schemaVars, L!Steps

\* The calls.
LEMMA CallKeeps ==
    ASSUME Assumed, StartInv, NEW c \in Calls,
           L!CallStart(c) \/ L!Resume(c) \/ \E close \in BOOLEAN : L!CallStop(c, close)
    PROVE  StartInv'
<1> USE DEF Assumed, L!LifecycleAssumption, Stages
<1>1. UNCHANGED L!schemaVars
      BY DEF L!CallStart, L!Resume, L!CallStop
<1>2. StartIsContracted'
      <2>1. CASE UNCHANGED <<started, starting>>
            BY <1>1, <2>1 DEF StartInv, StartIsContracted, L!schemaVars
      <2>2. CASE L!BeginStart(c)
            <3>1. CASE UNCHANGED L!object
                  BY <2>1, <3>1 DEF L!object
            <3>2. CASE ~UNCHANGED L!object
                  <4>0. /\ UNCHANGED <<started, stopping>>
                        /\ \E n \in 1 .. MaxAttempts :
                              starting' = [at |-> "open", attempt |-> 1, attempts |-> n, cancelled |-> FALSE]
                        BY <2>2, <3>2 DEF L!BeginStart
                  <4>1. PICK n \in 1 .. MaxAttempts :
                            starting' = [at |-> "open", attempt |-> 1, attempts |-> n, cancelled |-> FALSE]
                        BY <4>0
                  <4> QED BY <4>0, <1>1, <3>2, <4>1 DEF StartInv, StartIsContracted, L!schemaVars
            <3> QED BY <3>1, <3>2
      <2>3. CASE starting # NoCall /\ starting' = [starting EXCEPT !.cancelled = TRUE] /\ UNCHANGED started
            <3>1. starting' \in [at : Stages, attempt : Nat, attempts : Nat, cancelled : BOOLEAN]
                  /\ starting'.at = starting.at
                  BY <2>3 DEF StartInv, StartIsContracted
            <3> QED BY <1>1, <2>3, <3>1 DEF StartInv, StartIsContracted, L!schemaVars
      <2>4. ASSUME NEW close \in BOOLEAN, L!BeginStop(c, close)
            PROVE  UNCHANGED <<started, starting>>
            BY <2>4 DEF L!BeginStop, L!object
      <2>5. CASE L!CallStart(c)
            BY <2>1, <2>2, <2>5 DEF L!CallStart, L!object
      <2>6. CASE L!Resume(c)
            <3>1. L!BeginStart(c) \/ L!BeginStop(c, call[c].close)
                  BY <2>6 DEF L!Resume
            <3>2. CASE L!BeginStop(c, call[c].close)
                  BY <2>1, <3>2 DEF L!BeginStop, L!object
            <3> QED BY <2>2, <3>1, <3>2
      <2>7. ASSUME NEW close \in BOOLEAN, L!CallStop(c, close)
            PROVE  StartIsContracted'
            BY <2>1, <2>3, <2>4, <2>7 DEF L!CallStop
      <2> QED BY <2>5, <2>6, <2>7
<1> QED BY <1>1, <1>2, QuietStart

\* The steps of a start.
LEMMA StartStepKeeps ==
    ASSUME Assumed, StartInv, L!StartStep
    PROVE  StartInv'
<1> USE DEF Assumed, L!LifecycleAssumption, Stages
<1>1. CASE L!Open
      <2>1. Contracted'
            BY <1>1, ContractorStepKeeps DEF L!Open, StartInv
      <2>2. UNCHANGED version
            BY <1>1 DEF L!Open, L!ContractorStart
      <2>3. starting # NoCall /\ starting' = [starting EXCEPT !.at = "schema"] /\ UNCHANGED started
            BY <1>1 DEF L!Open, L!At, L!StepTo
      <2>4. StartIsContracted'
            BY <2>2, <2>3 DEF StartInv, StartIsContracted
      <2> QED BY <2>1, <2>4 DEF StartInv
<1>2. CASE L!SchemaReady
      <2>1. starting # NoCall /\ starting' = [starting EXCEPT !.at = "manager"] /\ contract[Me] = "done"
            /\ UNCHANGED L!schemaVars /\ UNCHANGED started
            BY <1>2 DEF L!SchemaReady, L!At, L!StepTo
      <2>2. StartIsContracted'
            BY <2>1 DEF StartInv, StartIsContracted, Contracted, L!schemaVars
      <2> QED BY <2>1, <2>2, QuietStart
<1>3. ASSUME NEW s \in Stages, starting # NoCall, starting.at \notin {"open", "schema", "backoff", "failed"},
             starting' = [starting EXCEPT !.at = s], UNCHANGED <<started, L!schemaVars>>
      PROVE  StartInv'
      <2>1. StartIsContracted'
            BY <1>3 DEF StartInv, StartIsContracted, L!schemaVars
      <2> QED BY <1>3, <2>1, QuietStart
<1>4. CASE L!ManagerStart
      <2>1. starting # NoCall /\ starting.at = "manager" /\ starting' = [starting EXCEPT !.at = "notifier"]
            /\ UNCHANGED <<started, L!schemaVars>>
            BY <1>4 DEF L!ManagerStart, L!At, L!StepTo
      <2> QED BY <1>3, <2>1
<1>5. ASSUME NEW c \in L!Components, L!ComponentStart(c)
      PROVE  StartInv'
      <2>1. L!NextStart(c) \in Stages
            <3>1. c \in {"notifier", "boss", "navigator", "timekeeper", "bam", "registrar"}
                  BY <1>5 DEF L!ComponentStart, L!Components
            <3>2. \E i \in 1 .. 8 : L!StartOrder[i] = c \/ c = "registrar"
                  <4>1. L!StartOrder[4] = "notifier" /\ L!StartOrder[5] = "boss" /\ L!StartOrder[6] = "navigator"
                        /\ L!StartOrder[7] = "timekeeper" /\ L!StartOrder[8] = "bam"
                        BY DEF L!StartOrder
                  <4> QED BY <3>1, <4>1
            <3>3. Len(L!StartOrder) = 9 /\ L!StartOrder[9] = "registrar" /\ \A i \in 1 .. 9 : L!StartOrder[i] \in Stages
                  <4>1. L!StartOrder \in Seq(Stages) /\ Len(L!StartOrder) = 9 /\ L!StartOrder[9] = "registrar"
                        BY DEF L!StartOrder
                  <4> QED BY <4>1, ElementOfSeq
            <3>4. CASE c = "registrar"
                  BY <3>4 DEF L!NextStart
            <3>5. CASE c # "registrar"
                  <4>1. PICK k : k = CHOOSE i \in 1 .. Len(L!StartOrder) : L!StartOrder[i] = c
                        OBVIOUS
                  <4>2. k \in 1 .. 9 /\ L!StartOrder[k] = c
                        <5>1. \E i \in 1 .. Len(L!StartOrder) : L!StartOrder[i] = c
                              BY <3>2, <3>3, <3>5
                        <5> QED BY <3>3, <4>1, <5>1
                  <4>3. k + 1 \in 1 .. 9
                        BY <3>3, <3>5, <4>2
                  <4>4. L!NextStart(c) = L!StartOrder[k + 1]
                        BY <3>5, <4>1 DEF L!NextStart, L!After
                  <4> QED BY <3>3, <4>3, <4>4
            <3> QED BY <3>4, <3>5
      <2>2. starting # NoCall /\ starting.at = c /\ starting' = [starting EXCEPT !.at = L!NextStart(c)]
            /\ UNCHANGED <<started, L!schemaVars>>
            BY <1>5 DEF L!ComponentStart, L!At, L!StepTo
      <2>3. PICK s \in Stages : s = L!NextStart(c)
            BY <2>1
      <2>4. c \notin {"open", "schema", "backoff", "failed"}
            BY DEF L!Components
      <2> QED BY <1>3, <2>2, <2>3, <2>4
<1>6. ASSUME NEW s \in {"failed", "backoff"}, starting # NoCall, starting' = [starting EXCEPT !.at = s],
             UNCHANGED <<started, L!schemaVars>>
      PROVE  StartInv'
      <2>1. StartIsContracted'
            BY <1>6 DEF StartInv, StartIsContracted, L!schemaVars
      <2> QED BY <1>6, <2>1, QuietStart
<1>7. ASSUME NEW refused \in BOOLEAN, L!SchemaFails(refused)
      PROVE  StartInv'
      BY <1>6, <1>7 DEF L!SchemaFails, L!StartFails, L!StepTo, L!At
<1>8. CASE L!TimekeeperFails
      BY <1>6, <1>8 DEF L!TimekeeperFails, L!StartFails, L!StepTo, L!At
<1>9. CASE L!BackoffEnds
      <2>1. starting # NoCall /\ UNCHANGED <<started, L!schemaVars>>
            /\ \/ starting' = [starting EXCEPT !.at = "failed"]
               \/ starting' = [starting EXCEPT !.at = "open", !.attempt = @ + 1]
            BY <1>9 DEF L!BackoffEnds, L!At
      <2>2. starting' \in [at : Stages, attempt : Nat, attempts : Nat, cancelled : BOOLEAN]
            /\ starting'.at \in {"open", "failed"}
            <3>0. starting \in [at : Stages, attempt : Nat, attempts : Nat, cancelled : BOOLEAN]
                  BY <2>1 DEF StartInv, StartIsContracted
            <3>1. CASE starting' = [starting EXCEPT !.at = "failed"]
                  BY <3>0, <3>1
            <3>2. CASE starting' = [starting EXCEPT !.at = "open", !.attempt = @ + 1]
                  <4>1. starting.attempt + 1 \in Nat
                        BY <3>0
                  <4> QED BY <3>0, <3>2, <4>1
            <3> QED BY <2>1, <3>1, <3>2
      <2>3. StartIsContracted'
            BY <2>1, <2>2 DEF StartInv, StartIsContracted, L!schemaVars
      <2> QED BY <2>1, <2>3, QuietStart
<1>10. CASE L!StartEnds
      <2>1. starting # NoCall /\ starting.at \in {"end", "failed"} /\ starting' = NoCall
            /\ started' = (started \/ L!At("end")) /\ UNCHANGED L!schemaVars
            BY <1>10 DEF L!StartEnds, L!At
      <2>2. started' => version = SchemaVersion
            BY <2>1 DEF StartInv, StartIsContracted, L!At
      <2>3. StartIsContracted'
            BY <2>1, <2>2 DEF StartIsContracted, L!schemaVars
      <2> QED BY <2>1, <2>3, QuietStart
<1> QED BY <1>1, <1>2, <1>4, <1>5, <1>7, <1>8, <1>9, <1>10 DEF L!StartStep

\* The other steps.
LEMMA StopKeeps ==
    ASSUME Assumed, StartInv, L!StopStep \/ \E c \in L!Passers : L!Pass(c) \/ L!PassEnds(c)
    PROVE  StartInv'
<1>1. UNCHANGED <<L!schemaVars, starting>> /\ (started' => started)
      <2>1. ASSUME NEW c \in L!Components, L!ComponentStop(c) \/ L!PassWaitedFor(c)
            PROVE  UNCHANGED <<L!schemaVars, starting, started>>
            BY <2>1 DEF L!ComponentStop, L!PassWaitedFor
      <2>2. CASE L!Drain \/ L!Close
            BY <2>2 DEF L!Drain, L!Close
      <2>3. ASSUME NEW c \in L!Passers, L!Pass(c) \/ L!PassEnds(c)
            PROVE  UNCHANGED <<L!schemaVars, starting, started>>
            BY <2>3 DEF L!Pass, L!PassEnds, L!object
      <2> QED BY <2>1, <2>2, <2>3 DEF L!StopStep
<1>2. StartIsContracted'
      BY <1>1 DEF StartInv, StartIsContracted, L!schemaVars
<1> QED BY <1>1, <1>2, QuietStart

\* The contractors.
LEMMA ContractsKeep ==
    ASSUME Assumed, StartInv, NEW p \in Procs, L!Contracts(p) \/ L!PeerStarts(p)
    PROVE  StartInv'
<1>1. Contracted' /\ (version = SchemaVersion => version' = SchemaVersion)
      BY ContractorStepKeeps DEF L!Contracts, L!PeerStarts, StartInv
<1>2. UNCHANGED <<started, starting>>
      BY DEF L!Contracts, L!PeerStarts, L!object
<1> QED BY <1>1, <1>2 DEF StartInv, StartIsContracted

-----------------------------------------------------------------------------
(* Theorems *)

\* The inductive invariant: the schema, what the contractors of contractor.ts remember of
\* it between their statements, and how far each start() has come.
THEOREM ContractedInvariant ==
    ASSUME Assumed
    PROVE  L!Spec => []StartInv
<1>1. L!Init => StartInv
      BY ContractorInitially DEF L!Init, StartInv, StartIsContracted
<1>2. StartInv /\ [L!Next]_startVars => StartInv'
      <2> SUFFICES ASSUME StartInv, [L!Next]_startVars PROVE StartInv'
          OBVIOUS
      <2>1. CASE UNCHANGED L!vars
            <3>1. UNCHANGED <<L!schemaVars, starting, started>>
                  BY <2>1 DEF L!vars, L!schemaVars
            <3>2. StartIsContracted'
                  BY <3>1 DEF StartInv, StartIsContracted, L!schemaVars
            <3> QED BY <3>1, <3>2, QuietStart
      <2> QED BY <2>1, CallKeeps, StartStepKeeps, StopKeeps, ContractsKeep DEF L!Next, startVars
<1> QED BY <1>1, <1>2, PTL DEF L!Spec, startVars

\* AppliedOnce: the advisory lock and the division by zero of assertMigration keep every
\* version's commands from being applied twice, however many processes start at once.
THEOREM AppliedOnceTheorem ==
    ASSUME Assumed
    PROVE  L!Spec => []AppliedOnce
<1>1. StartInv => AppliedOnce
      BY DEF StartInv, Contracted, AppliedOnce, Steps, L!Steps
<1> QED BY <1>1, ContractedInvariant, PTL

\* An object that says it is started has the schema at the release's version, whatever
\* failed, was tried again or was won by a peer on the way (index.ts, #doStart).
THEOREM StartedIsMigrated ==
    ASSUME Assumed
    PROVE  L!Spec => [](started => version = SchemaVersion)
<1>1. StartInv => (started => version = SchemaVersion)
      BY DEF StartInv, StartIsContracted
<1> QED BY <1>1, ContractedInvariant, PTL

===================================================================================
