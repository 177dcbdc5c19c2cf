--------------------------- MODULE KeyPolicies_proofs ---------------------------
(* Proofs about KeyPolicies, for every set of jobs and workers, every batch size  *)
(* and every way of giving keys to jobs, about the clock of a test and about the  *)
(* crash counts of the instance table.                                            *)
EXTENDS MCKeyPolicies, FiniteSetTheorems, WellFoundedInduction, TLAPS

-----------------------------------------------------------------------------
(* Types. *)

AllStates == States \cup {"absent"}

LEMMA FailedStateType ==
    ASSUME TypeOK, NEW j \in Jobs, NEW r
    PROVE  FailedState(j, r) \in AllStates
BY DEF FailedState, TypeOK, AllStates, States, Live, Queued

LEMMA RankedSubset ==
    ASSUME NEW N, NEW R \in RankedBatches(N)
    PROVE  R \subseteq N
BY DEF RankedBatches

LEMMA GivenBackSubset ==
    ASSUME NEW E, NEW G \in GivenBack(E)
    PROVE  G \subseteq E /\ ~RestoreRefused(G)
BY DEF GivenBack, RestoreRefused

\* What a settle that fails writes.
LEMMA FailTypeOK ==
    ASSUME TypeOK, NEW F \in SUBSET Jobs, Fail(F)
    PROVE  /\ state' \in [Jobs -> AllStates]
           /\ due' \in [Jobs -> BOOLEAN]
           /\ owner' \in [Jobs -> Workers \cup {NoWorker}]
           /\ raced' \in [Workers -> BOOLEAN]
           /\ \A j \in Jobs : owner'[j] # NoWorker => state'[j] = "active"
           /\ \A j \in Jobs \ F : state'[j] = state[j] /\ due'[j] = due[j]
<1>1. PICK R \in SUBSET F :
        state' = [j \in Jobs |-> IF j \in F THEN FailedState(j, j \in R) ELSE state[j]]
      BY DEF Fail
<1>2. state \in [Jobs -> AllStates] /\ owner \in [Jobs -> Workers \cup {NoWorker}]
        /\ due \in [Jobs -> BOOLEAN]
        /\ \A j \in Jobs : owner[j] # NoWorker => state[j] = "active"
      BY DEF TypeOK, AllStates
<1>3. ASSUME NEW j \in Jobs
      PROVE  state'[j] \in AllStates /\ (j \notin F => state'[j] = state[j])
  <2>1. FailedState(j, j \in R) \in AllStates
        BY FailedStateType
  <2> QED BY <1>1, <1>2, <2>1
<1>4. state' \in [Jobs -> AllStates]
      BY <1>1, <1>3
<1>5. due' \in [Jobs -> BOOLEAN] /\ \A j \in Jobs \ F : due'[j] = due[j]
  <2>1. PICK later \in BOOLEAN :
            due' = [j \in Jobs |-> due[j] /\ (j \in F /\ state'[j] = "retry" => ~later)]
        BY DEF Fail
  <2>2. \A j \in Jobs \ F : due'[j] = due[j]
        BY <1>2, <2>1
  <2>3. due' \in [Jobs -> BOOLEAN]
        BY <2>1
  <2> QED BY <2>2, <2>3
<1>6. owner' \in [Jobs -> Workers \cup {NoWorker}]
        /\ \A j \in Jobs : owner'[j] = IF j \in F THEN NoWorker ELSE owner[j]
      BY <1>2 DEF Fail
<1>7. raced' \in [Workers -> BOOLEAN]
      BY DEF Fail, Committed
<1> QED BY <1>2, <1>3, <1>4, <1>5, <1>6, <1>7

\* The jobs a fetch claims are ready ones of its snapshot.
LEMMA ClaimForm ==
    ASSUME TypeOK, NEW w \in Workers, FetchClaim(w)
    PROVE  \E R \in SUBSET Jobs :
            /\ R \subseteq {j \in seen[w] : Ready(j)}
            /\ IF BatchRefused(R) THEN ClaimRefused(w) ELSE Claim(w, R)
            /\ \E N : R \in RankedBatches(N) /\ Cardinality(N) <= BatchSize /\ N \subseteq seen[w]
<1>1. PICK N \in SUBSET {j \in seen[w] : Ready(j)} :
        /\ Cardinality(N) <= BatchSize
        /\ \E R \in RankedBatches(N) :
            IF BatchRefused(R) THEN ClaimRefused(w) ELSE Claim(w, R)
      BY DEF FetchClaim
<1>2. PICK R \in RankedBatches(N) :
        IF BatchRefused(R) THEN ClaimRefused(w) ELSE Claim(w, R)
      BY <1>1
<1>3. R \subseteq N /\ N \subseteq seen[w] /\ seen[w] \subseteq Jobs
      BY RankedSubset DEF TypeOK
<1> QED BY <1>1, <1>2, <1>3

LEMMA GiveBackForm ==
    ASSUME TypeOK, NEW w \in Workers, GiveBack(w)
    PROVE  \E G \in SUBSET Jobs : G \subseteq Batch(w) /\ ~RestoreRefused(G) /\ Return(w, G)
<1>1. PICK E \in SUBSET Batch(w) : \E G \in GivenBack(E) : Return(w, G)
      BY DEF GiveBack
<1>2. PICK G \in GivenBack(E) : Return(w, G)
      BY <1>1
<1> QED BY <1>2, GivenBackSubset DEF Batch

LEMMA WorkerTypeOK ==
    ASSUME TypeOK, NEW w \in Workers, WorkerStep(w)
    PROVE  TypeOK'
<1> USE DEF TypeOK
<1>1. CASE FetchSnapshot(w) \/ FetchNothing(w) \/ Deliver(w)
      BY <1>1 DEF FetchSnapshot, FetchNothing, Deliver, rowVars, ghostVars
<1>2. CASE FetchClaim(w)
  <2>1. PICK R \in SUBSET Jobs : ClaimRefused(w) \/ Claim(w, R)
        BY <1>2, ClaimForm
  <2>2. CASE ClaimRefused(w)
        BY <1>2, <2>2 DEF ClaimRefused, FetchClaim
  <2>3. CASE Claim(w, R)
    <3>1. started' \in [Jobs -> BOOLEAN] /\ raced' \in [Workers -> BOOLEAN]
          BY <2>3 DEF Claim, CommittedBy
    <3>2. state' \in [Jobs -> States \cup {"absent"}]
          BY <2>3 DEF Claim, States, Live
    <3>3. owner' \in [Jobs -> Workers \cup {NoWorker}]
          BY <2>3 DEF Claim
    <3>4. phase' \in [Workers -> {"idle", "fetching", "claimed", "running"}]
          BY <2>3 DEF Claim
    <3>5. \A j \in Jobs : owner'[j] # NoWorker => state'[j] = "active"
          BY <2>3 DEF Claim
    <3> QED BY <1>2, <3>1, <3>2, <3>3, <3>4, <3>5 DEF FetchClaim
  <2> QED BY <2>1, <2>2, <2>3
<1>3. CASE GiveBack(w)
  <2>1. PICK G \in SUBSET Jobs : Return(w, G)
        BY <1>3, GiveBackForm
  <2>2. started' \in [Jobs -> BOOLEAN] /\ odd' \in [Jobs -> BOOLEAN] /\ raced' \in [Workers -> BOOLEAN]
        BY <1>3, <2>1 DEF Return, GiveBack, Committed
  <2>3. state' \in [Jobs -> States \cup {"absent"}]
        BY <2>1 DEF Return, States, Live, Queued
  <2>4. owner' \in [Jobs -> Workers \cup {NoWorker}]
        BY <2>1 DEF Return
  <2>5. AfterGiveBack(w, G) \in {"idle", "running"}
        BY DEF AfterGiveBack
  <2>6. phase' \in [Workers -> {"idle", "fetching", "claimed", "running"}]
        BY <2>1, <2>5 DEF Return
  <2>7. \A j \in Jobs : owner'[j] # NoWorker => state'[j] = "active"
        BY <2>1 DEF Return
  <2> QED BY <1>3, <2>2, <2>3, <2>4, <2>6, <2>7 DEF GiveBack
<1>4. CASE HandlerCompletes(w)
  <2>1. raced' \in [Workers -> BOOLEAN]
        BY <1>4 DEF HandlerCompletes, Committed
  <2>2. state' \in [Jobs -> States \cup {"absent"}]
        BY <1>4 DEF HandlerCompletes, States
  <2>3. owner' \in [Jobs -> Workers \cup {NoWorker}]
        BY <1>4 DEF HandlerCompletes
  <2>4. \A j \in Jobs : owner'[j] # NoWorker => state'[j] = "active"
        BY <1>4 DEF HandlerCompletes
  <2> QED BY <1>4, <2>1, <2>2, <2>3, <2>4 DEF HandlerCompletes, ghostVars
<1>5. CASE HandlerFails(w)
  <2>1. Batch(w) \in SUBSET Jobs /\ Fail(Batch(w))
        BY <1>5 DEF HandlerFails, Batch
  <2>2. /\ state' \in [Jobs -> AllStates] /\ due' \in [Jobs -> BOOLEAN]
        /\ owner' \in [Jobs -> Workers \cup {NoWorker}] /\ raced' \in [Workers -> BOOLEAN]
        /\ \A j \in Jobs : owner'[j] # NoWorker => state'[j] = "active"
        BY <2>1, FailTypeOK
  <2> QED BY <1>5, <2>2 DEF HandlerFails, ghostVars, AllStates
<1>6. CASE Crash(w)
  <2>1. owner' \in [Jobs -> Workers \cup {NoWorker}]
        BY <1>6 DEF Crash
  <2>2. \A j \in Jobs : owner'[j] # NoWorker => state'[j] = "active"
        BY <1>6 DEF Crash
  <2> QED BY <1>6, <2>1, <2>2 DEF Crash, ghostVars
<1> QED BY <1>1, <1>2, <1>3, <1>4, <1>5, <1>6 DEF WorkerStep

LEMMA MoveTypeOK ==
    ASSUME TypeOK, NEW j \in Jobs, NEW s \in AllStates, Move(j, s),
           started' \in [Jobs -> BOOLEAN]
    PROVE  TypeOK'
<1>1. raced' \in [Workers -> BOOLEAN] /\ odd' \in [Jobs -> BOOLEAN]
      BY DEF Move, Committed, TypeOK
<1>2. state' \in [Jobs -> States \cup {"absent"}]
      BY DEF Move, TypeOK, AllStates
<1>3. owner' \in [Jobs -> Workers \cup {NoWorker}]
      BY DEF Move, TypeOK
<1>4. \A k \in Jobs : owner'[k] # NoWorker => state'[k] = "active"
      BY DEF Move, TypeOK
<1> QED BY <1>1, <1>2, <1>3, <1>4 DEF Move, TypeOK, workerVars

LEMMA RowTypeOK ==
    ASSUME TypeOK, NEW j \in Jobs, RowStep(j)
    PROVE  TypeOK'
<1>1. CASE Send(j)
  <2>1. PICK d \in BOOLEAN : due' = [due EXCEPT ![j] = d] /\ odd' = [odd EXCEPT ![j] = ~d]
        BY <1>1 DEF Send
  <2>2. due' \in [Jobs -> BOOLEAN] /\ odd' \in [Jobs -> BOOLEAN]
        BY <2>1 DEF TypeOK
  <2>3. raced' \in [Workers -> BOOLEAN]
        BY <1>1 DEF Send, Committed
  <2>4. state' \in [Jobs -> States \cup {"absent"}]
        BY <1>1 DEF Send, TypeOK, States, Live, Queued
  <2>5. stamp' \in [Jobs -> Stamps \cup {0}]
        BY <1>1 DEF Send, TypeOK
  <2>6. before' \in [Jobs -> SUBSET Jobs]
        BY <1>1 DEF Send, TypeOK
  <2>7. \A k \in Jobs : owner'[k] # NoWorker => state'[k] = "active"
        BY <1>1 DEF Send, TypeOK
  <2> QED BY <1>1, <2>2, <2>3, <2>4, <2>5, <2>6, <2>7 DEF Send, TypeOK, workerVars
<1>2. CASE StartAfterPasses(j)
  <2>1. due' \in [Jobs -> BOOLEAN]
        BY <1>2 DEF StartAfterPasses, TypeOK
  <2> QED BY <1>2, <2>1 DEF StartAfterPasses, TypeOK, workerVars, ghostVars
<1>3. CASE Expire(j) \/ FailQueued(j)
  <2>1. Fail({j})
        BY <1>3 DEF Expire, FailQueued
  <2>2. /\ state' \in [Jobs -> AllStates] /\ due' \in [Jobs -> BOOLEAN]
        /\ owner' \in [Jobs -> Workers \cup {NoWorker}] /\ raced' \in [Workers -> BOOLEAN]
        /\ \A k \in Jobs : owner'[k] # NoWorker => state'[k] = "active"
        BY <2>1, FailTypeOK
  <2>3. odd' \in [Jobs -> BOOLEAN]
        BY <1>3 DEF Expire, FailQueued, ghostVars, TypeOK
  <2> QED BY <1>3, <2>2, <2>3 DEF Expire, FailQueued, ghostVars, workerVars, AllStates, TypeOK
<1>4. CASE Cancel(j) \/ Resume(j) \/ Retry(j) \/ Delete(j)
  <2>1. started' \in [Jobs -> BOOLEAN]
        BY <1>4 DEF Cancel, Resume, Retry, Delete, TypeOK
  <2>2. {"cancelled", "created", "retry", "absent"} \subseteq AllStates
        BY DEF AllStates, States, Live, Queued
  <2>3. PICK s \in AllStates : Move(j, s)
        BY <1>4, <2>2 DEF Cancel, Resume, Retry, Delete
  <2> QED BY <2>1, <2>3, MoveTypeOK
<1>5. CASE Restore(j)
  <2>1. started' \in [Jobs -> BOOLEAN]
        BY <1>5 DEF Restore, TypeOK
  <2>2. Move(j, "created") /\ "created" \in AllStates
        BY <1>5 DEF Restore, AllStates, States, Live, Queued
  <2> QED BY <2>1, <2>2, MoveTypeOK
<1> QED BY <1>1, <1>2, <1>3, <1>4, <1>5 DEF RowStep

\* Type correctness.
THEOREM TypeCorrect == Spec => []TypeOK
<1>1. Init => TypeOK
  <2> SUFFICES ASSUME Init PROVE TypeOK
      OBVIOUS
  <2>1. due \in [Jobs -> BOOLEAN] /\ started \in [Jobs -> BOOLEAN] /\ odd \in [Jobs -> BOOLEAN]
          /\ raced \in [Workers -> BOOLEAN]
        BY DEF Init
  <2> QED BY <2>1 DEF Init, TypeOK
<1>2. ASSUME TypeOK, [Next]_vars PROVE TypeOK'
  <2>1. CASE UNCHANGED vars
        BY <1>2, <2>1 DEF vars, rowVars, workerVars, ghostVars, TypeOK
  <2> QED BY <1>2, <2>1, WorkerTypeOK, RowTypeOK DEF Next
<1> QED BY <1>1, <1>2, PTL DEF Spec
-----------------------------------------------------------------------------
(* The indexes are unique: no two rows share an entry. *)

UniqueIndex == \A j, k \in Jobs : j # k => ~SameEntry(j, state[j], k, state[k])

LEMMA SameEntrySymmetric ==
    \A j, k, s, t : SameEntry(j, s, k, t) <=> SameEntry(k, t, j, s)
BY DEF SameEntry

\* Moving the rows of one set to a state no index refuses them keeps it unique.
LEMMA MovedTogether ==
    ASSUME TypeOK, UniqueIndex, UNCHANGED <<policy, keyOf>>, NEW S \in SUBSET Jobs, NEW s,
           \A j \in Jobs : state'[j] = IF j \in S THEN s ELSE state[j],
           \A j \in S : ~Refused(j, s),
           \A j, k \in S : j # k => ~SameEntry(j, s, k, s)
    PROVE  UniqueIndex'
<1>1. ASSUME NEW j \in Jobs, NEW k \in Jobs, j # k
      PROVE  ~SameEntry(j, state'[j], k, state'[k])
  <2>1. CASE j \in S /\ k \in S
        BY <1>1, <2>1
  <2>2. CASE j \in S /\ k \notin S
        BY <1>1, <2>2 DEF Refused
  <2>3. CASE j \notin S /\ k \in S
    <3>1. ~SameEntry(k, s, j, state[j])
          BY <1>1, <2>3 DEF Refused
    <3> QED BY <2>3, <3>1, SameEntrySymmetric
  <2>4. CASE j \notin S /\ k \notin S
        BY <1>1, <2>4 DEF UniqueIndex
  <2> QED BY <2>1, <2>2, <2>3, <2>4
<1>2. \A j, k, s1, t : SameEntry(j, s1, k, t)' <=> SameEntry(j, s1, k, t)
      BY DEF SameEntry, IndexKey
<1> QED BY <1>1, <1>2 DEF UniqueIndex

\* Rows that were active together can fail together: an index that tells them
\* apart no more would not have held both.
LEMMA ActiveTogether ==
    ASSUME TypeOK, UniqueIndex, NEW j \in Jobs, NEW k \in Jobs, j # k,
           state[j] = "active", state[k] = "active",
           NEW s \in {"active", "retry", "failed", "absent"},
           NEW t \in {"active", "retry", "failed", "absent"}
    PROVE  ~SameEntry(j, s, k, t)
<1>1. CASE policy \in {"stately", "exclusive", "key_strict_fifo", "singleton"}
  <2>1. {"active"} \subseteq IndexedStates[policy]
        BY <1>1 DEF IndexedStates, Live
  <2>2. IndexKey(j) # IndexKey(k)
        BY <2>1 DEF UniqueIndex, SameEntry
  <2> QED BY <2>2 DEF SameEntry
<1>2. CASE policy \in {"standard", "short"}
      BY <1>2 DEF SameEntry, IndexedStates
<1> QED BY <1>1, <1>2, PoliciesAssumption DEF TypeOK, QueuePolicies

LEMMA FailUnique ==
    ASSUME TypeOK, UniqueIndex, UNCHANGED <<policy, keyOf>>, NEW F \in SUBSET Jobs, Fail(F),
           (\A j \in F : state[j] = "active") \/ \E j \in Jobs : F = {j}
    PROVE  UniqueIndex'
<1>1. PICK R \in SUBSET F :
        state' = [j \in Jobs |-> IF j \in F THEN FailedState(j, j \in R) ELSE state[j]]
      BY DEF Fail
<1>2. ASSUME NEW j \in F, NEW k \in Jobs \ {j}
      PROVE  ~SameEntry(j, state'[j], k, state[k])
  <2>1. state'[j] = FailedState(j, j \in R)
        BY <1>1
  <2>2. state'[j] \in {"absent", state[j]} \/ ~Refused(j, state'[j])
        BY <2>1 DEF FailedState
  <2>3. CASE state'[j] = "absent"
        BY <2>3, PoliciesAssumption DEF SameEntry, IndexedStates, Live, Queued, TypeOK, QueuePolicies
  <2>4. CASE state'[j] = state[j]
        BY <2>4 DEF UniqueIndex
  <2>5. CASE ~Refused(j, state'[j])
        BY <2>5 DEF Refused
  <2> QED BY <2>2, <2>3, <2>4, <2>5
<1>3. ASSUME NEW j \in Jobs, NEW k \in Jobs, j # k
      PROVE  ~SameEntry(j, state'[j], k, state'[k])
  <2>1. CASE j \in F /\ k \in F
    <3>1. state[j] = "active" /\ state[k] = "active"
          BY <1>3, <2>1
    <3>2. state'[j] = FailedState(j, j \in R) /\ state'[k] = FailedState(k, k \in R)
          BY <1>1, <2>1
    <3>3. /\ state'[j] \in {"active", "retry", "failed", "absent"}
          /\ state'[k] \in {"active", "retry", "failed", "absent"}
          BY <3>1, <3>2 DEF FailedState
    <3> QED BY <1>3, <3>1, <3>3, ActiveTogether
  <2>2. CASE j \in F /\ k \notin F
    <3>1. state'[k] = state[k]
          BY <1>1, <2>2
    <3> QED BY <1>2, <1>3, <2>2, <3>1
  <2>3. CASE j \notin F /\ k \in F
    <3>1. state'[j] = state[j]
          BY <1>1, <2>3
    <3> QED BY <1>2, <1>3, <2>3, <3>1, SameEntrySymmetric
  <2>4. CASE j \notin F /\ k \notin F
        BY <1>1, <1>3, <2>4 DEF UniqueIndex
  <2> QED BY <2>1, <2>2, <2>3, <2>4
<1>4. \A j, k, s1, t : SameEntry(j, s1, k, t)' <=> SameEntry(j, s1, k, t)
      BY DEF SameEntry, IndexKey
<1> QED BY <1>3, <1>4 DEF UniqueIndex

LEMMA WorkerUnique ==
    ASSUME TypeOK, UniqueIndex, NEW w \in Workers, WorkerStep(w)
    PROVE  UniqueIndex'
<1>0. /\ state \in [Jobs -> AllStates]
      /\ \A j \in Jobs : owner[j] # NoWorker => state[j] = "active"
      BY DEF TypeOK, AllStates
<1>1. ASSUME UNCHANGED <<policy, keyOf, state>> PROVE UniqueIndex'
      BY <1>1 DEF UniqueIndex, SameEntry, IndexKey
<1>2. CASE FetchSnapshot(w) \/ FetchNothing(w) \/ Deliver(w) \/ Crash(w)
      BY <1>1, <1>2 DEF FetchSnapshot, FetchNothing, Deliver, Crash, rowVars
<1>3. CASE FetchClaim(w)
  <2>1. PICK R \in SUBSET Jobs : IF BatchRefused(R) THEN ClaimRefused(w) ELSE Claim(w, R)
        BY <1>3, ClaimForm
  <2>2. UNCHANGED <<policy, keyOf>>
        BY <1>3 DEF FetchClaim
  <2>3. CASE BatchRefused(R)
        BY <1>1, <2>1, <2>2, <2>3 DEF ClaimRefused
  <2>4. CASE ~BatchRefused(R)
    <3>1. \A j \in R : ~Refused(j, "active")
          BY <2>4 DEF BatchRefused
    <3>2. \A j, k \in R : j # k => ~SameEntry(j, "active", k, "active")
          BY <2>4 DEF BatchRefused
    <3>3. \A j \in Jobs : state'[j] = IF j \in R THEN "active" ELSE state[j]
          BY <2>1, <2>4 DEF Claim
    <3> QED BY <2>2, <3>1, <3>2, <3>3, MovedTogether
  <2> QED BY <2>3, <2>4
<1>4. CASE GiveBack(w)
  <2>1. PICK G \in SUBSET Jobs : ~RestoreRefused(G) /\ Return(w, G)
        BY <1>4, GiveBackForm
  <2>2. \A j \in G : ~Refused(j, "created")
        BY <2>1 DEF RestoreRefused
  <2>3. \A j, k \in G : j # k => ~SameEntry(j, "created", k, "created")
        BY <2>1 DEF RestoreRefused
  <2>4. UNCHANGED <<policy, keyOf>> /\ \A j \in Jobs : state'[j] = IF j \in G THEN "created" ELSE state[j]
        BY <1>4, <2>1 DEF GiveBack, Return
  <2> QED BY <2>2, <2>3, <2>4, MovedTogether
<1>5. CASE HandlerCompletes(w)
  <2> DEFINE S == Batch(w)
  <2>1. S \in SUBSET Jobs /\ \A j \in Jobs : state'[j] = IF j \in S THEN "completed" ELSE state[j]
        BY <1>5 DEF HandlerCompletes, Batch
  <2>2. \A j, k, t : ~SameEntry(j, "completed", k, t)
        BY PoliciesAssumption DEF SameEntry, IndexedStates, Live, Queued, TypeOK, QueuePolicies
  <2>3. \A j \in S : ~Refused(j, "completed")
        BY <2>2 DEF Refused
  <2>4. UNCHANGED <<policy, keyOf>>
        BY <1>5 DEF HandlerCompletes
  <2> HIDE DEF S
  <2> QED BY <2>1, <2>2, <2>3, <2>4, MovedTogether
<1>6. CASE HandlerFails(w)
  <2>1. Batch(w) \in SUBSET Jobs /\ Fail(Batch(w)) /\ UNCHANGED <<policy, keyOf>>
        BY <1>6 DEF HandlerFails, Batch
  <2>2. \A j \in Batch(w) : state[j] = "active"
        BY <1>0, PoliciesAssumption DEF Batch
  <2> QED BY <2>1, <2>2, FailUnique
<1> QED BY <1>2, <1>3, <1>4, <1>5, <1>6 DEF WorkerStep

LEMMA RowUnique ==
    ASSUME TypeOK, UniqueIndex, NEW j \in Jobs, RowStep(j)
    PROVE  UniqueIndex'
<1>1. ASSUME NEW s, ~Refused(j, s), state' = [state EXCEPT ![j] = s], UNCHANGED <<policy, keyOf>>
      PROVE  UniqueIndex'
  <2>1. \A k \in Jobs : state'[k] = IF k \in {j} THEN s ELSE state[k]
        BY <1>1 DEF TypeOK
  <2> QED BY <1>1, <2>1, MovedTogether
<1>2. CASE Send(j)
      BY <1>1, <1>2 DEF Send
<1>3. CASE StartAfterPasses(j)
      BY <1>3 DEF StartAfterPasses, UniqueIndex, SameEntry, IndexKey
<1>4. CASE Expire(j) \/ FailQueued(j)
      BY <1>4, FailUnique DEF Expire, FailQueued
<1>5. CASE Cancel(j) \/ Resume(j) \/ Retry(j) \/ Delete(j) \/ Restore(j)
  <2>1. PICK s : Move(j, s)
        BY <1>5 DEF Cancel, Resume, Retry, Delete, Restore
  <2> QED BY <1>1, <2>1 DEF Move
<1> QED BY <1>2, <1>3, <1>4, <1>5 DEF RowStep

\* The partial unique indexes job_i1 to job_i8 of plans.ts hold in every state: each
\* statement that moves rows into them is refused or leaves them unique.
THEOREM UniqueIndexInvariant == Spec => []UniqueIndex
<1>1. Init => UniqueIndex
      BY PoliciesAssumption DEF Init, UniqueIndex, SameEntry, IndexedStates, Live, Queued, QueuePolicies
<1>2. ASSUME TypeOK, UniqueIndex, [Next]_vars PROVE UniqueIndex'
  <2>1. CASE UNCHANGED vars
        BY <1>2, <2>1 DEF vars, rowVars, UniqueIndex, SameEntry, IndexKey
  <2> QED BY <1>2, <2>1, WorkerUnique, RowUnique DEF Next
<1> QED BY <1>1, <1>2, TypeCorrect, PTL DEF Spec

\* StartedHoldsBack: no job of a key starts while a sibling is active, waits for
\* its retry or has failed.
THEOREM HoldsBackTheorem == Spec => StartedHoldsBack
<1>1. ASSUME TypeOK', UniqueIndex', [Next]_vars, policy = "key_strict_fifo",
             NEW j \in Jobs, NEW k \in Jobs, state'[j] = "active", SameKey(j, k)
      PROVE  state'[k] \in {"completed", "cancelled", "created", "absent"}
  <2>1. policy' = policy /\ keyOf' = keyOf
        BY <1>1 DEF Next, WorkerStep, RowStep, FetchSnapshot, FetchClaim, FetchNothing, Deliver,
              GiveBack, HandlerCompletes, HandlerFails, Crash, Send, StartAfterPasses, Expire, Cancel,
              Resume, Retry, Restore, Delete, FailQueued, Move, vars
  <2>2. IndexKey(j) = IndexKey(k) /\ j # k
        BY <1>1 DEF SameKey, IndexKey
  <2>3. ~({state'[j], state'[k]} \subseteq IndexedStates[policy'])
        BY <1>1, <2>1, <2>2 DEF UniqueIndex, SameEntry, IndexKey
  <2>4. state'[k] \notin {"active", "retry", "failed"}
        BY <1>1, <2>1, <2>3 DEF IndexedStates
  <2> QED BY <1>1, <2>4 DEF TypeOK, States, Live, Queued
<1>2. ASSUME TypeOK', UniqueIndex', [Next]_vars
      PROVE  [policy = "key_strict_fifo" =>
                \A j, k \in Jobs :
                    state[j] # "active" /\ state'[j] = "active" /\ SameKey(j, k) /\ started[k]
                    => state'[k] \in {"completed", "cancelled", "created", "absent"}]_vars
      BY <1>1, <1>2
<1> QED BY <1>2, TypeCorrect, UniqueIndexInvariant, PTL DEF Spec, StartedHoldsBack
-----------------------------------------------------------------------------
(* The order of the rows.  A job that was never claimed nor touched is still where *)
(* it was stored, so a head of its key has nothing older behind it.                *)

Fifo == policy = "key_strict_fifo"

StampsSound ==
    /\ \A j \in Jobs : stamp[j] = 0 => state[j] = "absent" /\ ~started[j]
    /\ \A j, k \in Jobs : j # k /\ stamp[j] = stamp[k] => stamp[j] = 0
    /\ \A w \in Workers : \A j \in seen[w] : stamp[j] # 0
    /\ \A k \in Jobs : \A j \in before[k] : stamp[j] # 0

UnstartedSound ==
    \A j \in Jobs :
        /\ state[j] = "active" => started[j]
        /\ ~started[j] /\ ~odd[j] /\ stamp[j] # 0 => state[j] = "created" /\ due[j]

\* j must start before k does.
First(j, k) ==
    SameKey(j, k) /\ j \in before[k] /\ stamp[j] < stamp[k] /\ ~odd[j] /\ ~odd[k]

OrderSound ==
    Fifo => \A j, k \in Jobs :
        First(j, k) /\ (started[k] \/ \E w \in Workers : k \in seen[w]) => started[j]

OrderInv == StampsSound /\ UnstartedSound /\ OrderSound

\* Steps that leave the order alone: what starts was seen, what is touched is odd.
LEMMA OrderKept ==
    ASSUME TypeOK, OrderInv, UNCHANGED <<policy, keyOf, stamp, before>>,
           \A w \in Workers : seen'[w] \subseteq seen[w],
           \A j \in Jobs :
                /\ state[j] = "absent" /\ stamp[j] = 0 => state'[j] = "absent"
                /\ started'[j] /\ ~started[j] => \E w \in Workers : j \in seen[w]
                /\ state'[j] = "active" => started'[j]
                /\ odd[j] => odd'[j]
                /\ ~odd'[j] => (started[j] => started'[j])
                /\ ~started'[j] /\ ~odd'[j] => state'[j] = state[j] /\ (due[j] => due'[j])
    PROVE  OrderInv'
<1>1. StampsSound'
      BY DEF OrderInv, StampsSound, TypeOK
<1>2. UnstartedSound'
      BY DEF OrderInv, UnstartedSound
<1>3. OrderSound'
  <2> SUFFICES ASSUME Fifo, NEW j \in Jobs, NEW k \in Jobs, First(j, k)',
                      started'[k] \/ \E w \in Workers : k \in seen'[w]
               PROVE  started'[j]
      BY DEF OrderSound, Fifo
  <2>1. First(j, k) /\ ~odd'[j]
        BY DEF First, SameKey
  <2>2. started[k] \/ \E w \in Workers : k \in seen[w]
        OBVIOUS
  <2>3. started[j]
        BY <2>1, <2>2 DEF OrderInv, OrderSound
  <2> QED BY <2>1, <2>3
<1> QED BY <1>1, <1>2, <1>3 DEF OrderInv

\* A snapshot takes a head only when what must come first has started.
LEMMA SnapshotOrder ==
    ASSUME TypeOK, OrderInv, NEW w \in Workers, FetchSnapshot(w)
    PROVE  OrderInv'
<1> DEFINE Cs == {j \in Jobs : Candidate(j)}
<1>1. /\ UNCHANGED <<policy, keyOf, rowVars, ghostVars>>
      /\ \A v \in Workers : seen'[v] = IF v = w THEN Cs ELSE seen[v]
      BY DEF FetchSnapshot, TypeOK
<1>2. \A j \in Cs : stamp[j] # 0
      BY DEF Candidate, Ready, Queued, OrderInv, StampsSound
<1>3. StampsSound'
      BY <1>1, <1>2 DEF OrderInv, StampsSound, rowVars, ghostVars
<1>4. UnstartedSound'
      BY <1>1 DEF OrderInv, UnstartedSound, rowVars, ghostVars
<1>5. ASSUME Fifo, NEW j \in Jobs, NEW k \in Cs, First(j, k)
      PROVE  started[j]
  <2>1. SUFFICES ASSUME ~started[j] PROVE FALSE
        OBVIOUS
  <2>2. stamp[j] # 0 /\ ~odd[j] /\ ~odd[k] /\ stamp[j] < stamp[k] /\ j # k /\ keyOf[j] = keyOf[k]
        BY <1>5 DEF First, SameKey, OrderInv, StampsSound
  <2>3. state[j] = "created" /\ due[j]
        BY <2>1, <2>2 DEF OrderInv, UnstartedSound
  <2>4. Head(k) /\ Ready(k)
        BY <1>5 DEF Fifo, Candidate
  <2>5. Ahead(k, j)
        BY <2>2, <2>3, <2>4 DEF Head, Ready, Queued
  <2>6. stamp[j] \in Nat /\ stamp[k] \in Nat
    <3>1. Cardinality(Jobs) \in Nat
          BY PoliciesAssumption, FS_CardinalityType
    <3> QED BY <3>1 DEF TypeOK, Stamps
  <2>7. state[k] = "retry"
        BY <2>2, <2>3, <2>5, <2>6 DEF Ahead
  <2>8. started[k]
        BY <1>2, <2>2, <2>7 DEF OrderInv, UnstartedSound
  <2> QED BY <1>5, <2>1, <2>8 DEF OrderInv, OrderSound
<1>6. OrderSound'
  <2> SUFFICES ASSUME Fifo, NEW j \in Jobs, NEW k \in Jobs, First(j, k),
                      started[k] \/ \E v \in Workers : k \in seen'[v]
               PROVE  started[j]
      BY <1>1 DEF OrderSound, Fifo, First, SameKey, rowVars, ghostVars
  <2>1. CASE k \in Cs
        BY <1>5, <2>1
  <2>2. CASE k \notin Cs
        BY <1>1, <2>2 DEF OrderInv, OrderSound
  <2> QED BY <2>1, <2>2
<1> QED BY <1>3, <1>4, <1>6 DEF OrderInv

LEMMA SendOrder ==
    ASSUME TypeOK, OrderInv, NEW x \in Jobs, Send(x)
    PROVE  OrderInv'
<1>1. /\ stamp[x] = 0 /\ UNCHANGED <<policy, keyOf, started, seen>>
      /\ \A j \in Jobs \ {x} : /\ state'[j] = state[j] /\ stamp'[j] = stamp[j] /\ due'[j] = due[j]
                               /\ odd'[j] = odd[j] /\ before'[j] = before[j]
      /\ state'[x] = "created" /\ before'[x] = {k \in Jobs : state[k] # "absent"}
      BY DEF Send, TypeOK, workerVars
<1>2. due'[x] \/ odd'[x]
  <2>1. PICK d \in BOOLEAN : due' = [due EXCEPT ![x] = d] /\ odd' = [odd EXCEPT ![x] = ~d]
        BY DEF Send
  <2>2. due'[x] = d /\ odd'[x] = ~d
        BY <2>1 DEF TypeOK
  <2> QED BY <2>2
<1>3. stamp'[x] # 0 /\ \A k \in Jobs \ {x} : stamp'[x] # stamp[k]
  <2>1. PICK s \in Stamps \ {stamp[k] : k \in Jobs} : stamp' = [stamp EXCEPT ![x] = s]
        BY DEF Send
  <2>2. stamp'[x] = s /\ s # 0
    <3>1. Cardinality(Jobs) \in Nat
          BY PoliciesAssumption, FS_CardinalityType
    <3> QED BY <2>1, <3>1 DEF TypeOK, Stamps
  <2> QED BY <2>1, <2>2
<1>4. ~started[x] /\ state[x] = "absent" /\ \A w \in Workers : x \notin seen[w]
      BY <1>1 DEF OrderInv, StampsSound
<1>5. \A k \in Jobs : x \notin before[k]
      BY <1>1 DEF OrderInv, StampsSound
<1>6. StampsSound'
  <2>1. \A j \in Jobs : stamp'[j] = 0 => state'[j] = "absent" /\ ~started'[j]
        BY <1>1, <1>3 DEF OrderInv, StampsSound
  <2>2. \A j, k \in Jobs : j # k /\ stamp'[j] = stamp'[k] => stamp'[j] = 0
        BY <1>1, <1>3 DEF OrderInv, StampsSound
  <2>3. \A w \in Workers : \A j \in seen'[w] : stamp'[j] # 0
        BY <1>1, <1>3, <1>4 DEF OrderInv, StampsSound, TypeOK
  <2>4. \A k \in Jobs : \A j \in before'[k] : stamp'[j] # 0
    <3> SUFFICES ASSUME NEW k \in Jobs, NEW j \in before'[k] PROVE stamp'[j] # 0
        OBVIOUS
    <3>1. CASE k = x
      <4>1. j \in Jobs /\ state[j] # "absent"
            BY <1>1, <3>1
      <4> QED BY <1>1, <1>4, <4>1 DEF OrderInv, StampsSound
    <3>2. CASE k # x
      <4>1. j \in before[k] /\ j \in Jobs /\ j # x
            BY <1>1, <1>5, <3>2 DEF TypeOK
      <4> QED BY <1>1, <4>1 DEF OrderInv, StampsSound
    <3> QED BY <3>1, <3>2
  <2> QED BY <2>1, <2>2, <2>3, <2>4 DEF StampsSound
<1>7. UnstartedSound'
  <2> SUFFICES ASSUME NEW j \in Jobs
               PROVE  /\ state'[j] = "active" => started'[j]
                      /\ ~started'[j] /\ ~odd'[j] /\ stamp'[j] # 0 => state'[j] = "created" /\ due'[j]
      BY DEF UnstartedSound
  <2>1. CASE j = x
        BY <1>1, <1>2, <2>1
  <2>2. CASE j # x
        BY <1>1, <2>2 DEF OrderInv, UnstartedSound
  <2> QED BY <2>1, <2>2
<1>8. OrderSound'
  <2> SUFFICES ASSUME Fifo, NEW j \in Jobs, NEW k \in Jobs, First(j, k)',
                      started[k] \/ \E w \in Workers : k \in seen[w]
               PROVE  started[j]
      BY <1>1 DEF OrderSound, Fifo
  <2>1. k # x
        BY <1>4
  <2>2. j # x
        BY <1>1, <1>5, <2>1 DEF First
  <2>3. First(j, k)
        BY <1>1, <2>1, <2>2 DEF First, SameKey
  <2> QED BY <2>3 DEF OrderInv, OrderSound
<1> QED BY <1>6, <1>7, <1>8 DEF OrderInv

LEMMA FailKeepsStates ==
    ASSUME TypeOK, NEW F \in SUBSET Jobs, Fail(F)
    PROVE  \A j \in F : state'[j] \in {"retry", "failed", "absent", state[j]}
<1>1. PICK R \in SUBSET F :
        state' = [j \in Jobs |-> IF j \in F THEN FailedState(j, j \in R) ELSE state[j]]
      BY DEF Fail
<1> QED BY <1>1 DEF FailedState

LEMMA WorkerOrder ==
    ASSUME TypeOK, OrderInv, NEW w \in Workers, WorkerStep(w)
    PROVE  OrderInv'
<1>0. /\ \A j \in Jobs : owner[j] # NoWorker => state[j] = "active"
      /\ \A j \in Jobs : state[j] = "active" => started[j]
      /\ seen \in [Workers -> SUBSET Jobs]
      BY DEF TypeOK, OrderInv, UnstartedSound
<1>1. CASE FetchSnapshot(w)
      BY <1>1, SnapshotOrder
<1>2. CASE FetchNothing(w) \/ Deliver(w) \/ Crash(w)
  <2>1. UNCHANGED <<policy, keyOf, stamp, before, state, due, started, odd>>
        BY <1>2 DEF FetchNothing, Deliver, Crash, rowVars, ghostVars
  <2>2. \A v \in Workers : seen'[v] \subseteq seen[v]
        BY <1>0, <1>2 DEF FetchNothing, Deliver, Crash
  <2> QED BY <1>0, <2>1, <2>2, OrderKept
<1>3. CASE FetchClaim(w)
  <2>1. PICK R \in SUBSET Jobs :
            /\ R \subseteq {j \in seen[w] : Ready(j)}
            /\ IF BatchRefused(R) THEN ClaimRefused(w) ELSE Claim(w, R)
        BY <1>3, ClaimForm
  <2>2. UNCHANGED <<policy, keyOf, stamp, before, due, odd>> /\ \A v \in Workers : seen'[v] \subseteq seen[v]
        BY <1>0, <1>3 DEF FetchClaim
  <2>3. CASE ClaimRefused(w)
        BY <1>0, <2>2, <2>3, OrderKept DEF ClaimRefused
  <2>4. CASE Claim(w, R)
    <3>1. \A j \in R : j \in seen[w] /\ state[j] # "absent"
          BY <2>1 DEF Ready, Queued
    <3>2. \A j \in Jobs : /\ state'[j] = IF j \in R THEN "active" ELSE state[j]
                          /\ started'[j] <=> started[j] \/ j \in R
          BY <2>4 DEF Claim
    <3> QED BY <1>0, <2>2, <3>1, <3>2, OrderKept
  <2> QED BY <2>1, <2>3, <2>4
<1>4. CASE GiveBack(w)
  <2>1. PICK G \in SUBSET Jobs : G \subseteq Batch(w) /\ Return(w, G)
        BY <1>4, GiveBackForm
  <2>2. \A j \in G : state[j] = "active"
        BY <1>0, <2>1, PoliciesAssumption DEF Batch
  <2>3. \A j \in Jobs : /\ state'[j] = IF j \in G THEN "created" ELSE state[j]
                        /\ started'[j] <=> started[j] /\ j \notin G
                        /\ odd'[j] <=> odd[j] \/ j \in G
        BY <2>1 DEF Return
  <2>4. UNCHANGED <<policy, keyOf, stamp, before, due>> /\ \A v \in Workers : seen'[v] \subseteq seen[v]
        BY <1>0, <1>4 DEF GiveBack
  <2> QED BY <1>0, <2>2, <2>3, <2>4, OrderKept
<1>5. CASE HandlerCompletes(w)
  <2>1. \A j \in Jobs : state'[j] = IF owner[j] = w THEN "completed" ELSE state[j]
        BY <1>5 DEF HandlerCompletes
  <2>2. UNCHANGED <<policy, keyOf, stamp, before, due, started, odd, seen>>
        BY <1>5 DEF HandlerCompletes, ghostVars
  <2>3. \A j \in Jobs : owner[j] = w => state[j] = "active"
        BY <1>0, PoliciesAssumption
  <2> QED BY <1>0, <2>1, <2>2, <2>3, OrderKept
<1>6. CASE HandlerFails(w)
  <2>1. Batch(w) \in SUBSET Jobs /\ Fail(Batch(w)) /\ \A j \in Batch(w) : state[j] = "active"
        BY <1>0, <1>6, PoliciesAssumption DEF HandlerFails, Batch
  <2>2. \A j \in Jobs \ Batch(w) : state'[j] = state[j] /\ due'[j] = due[j]
        BY <2>1, FailTypeOK
  <2>3. \A j \in Batch(w) : state'[j] \in {"retry", "failed", "absent", "active"}
        BY <2>1, FailKeepsStates
  <2>4. UNCHANGED <<policy, keyOf, stamp, before, started, odd, seen>>
        BY <1>6 DEF HandlerFails, ghostVars
  <2> QED BY <1>0, <2>1, <2>2, <2>3, <2>4, OrderKept
<1> QED BY <1>1, <1>2, <1>3, <1>4, <1>5, <1>6 DEF WorkerStep

LEMMA RowOrder ==
    ASSUME TypeOK, OrderInv, NEW x \in Jobs, RowStep(x)
    PROVE  OrderInv'
<1>0. \A j \in Jobs : state[j] = "active" => started[j]
      BY DEF OrderInv, UnstartedSound
<1>1. CASE Send(x)
      BY <1>1, SendOrder
<1>2. CASE StartAfterPasses(x)
  <2>1. UNCHANGED <<policy, keyOf, stamp, before, state, started, odd, seen>>
        BY <1>2 DEF StartAfterPasses, workerVars, ghostVars
  <2>2. \A j \in Jobs : due[j] => due'[j]
        BY <1>2 DEF StartAfterPasses, TypeOK
  <2> QED BY <1>0, <2>1, <2>2, OrderKept
<1>3. CASE Expire(x)
  <2>1. Fail({x}) /\ state[x] = "active" /\ UNCHANGED <<policy, keyOf, stamp, before, started, odd, seen>>
        BY <1>3 DEF Expire, workerVars, ghostVars
  <2>2. \A j \in Jobs \ {x} : state'[j] = state[j] /\ due'[j] = due[j]
        BY <2>1, FailTypeOK
  <2>3. state'[x] \in {"retry", "failed", "absent", "active"}
        BY <2>1, FailKeepsStates
  <2> QED BY <1>0, <2>1, <2>2, <2>3, OrderKept
<1>4. CASE FailQueued(x)
  <2>1. /\ Fail({x}) /\ state[x] \in Queued /\ UNCHANGED <<policy, keyOf, stamp, before, started, seen>>
        /\ odd'[x] /\ \A j \in Jobs \ {x} : odd'[j] = odd[j]
        BY <1>4 DEF FailQueued, workerVars, TypeOK
  <2>2. \A j \in Jobs \ {x} : state'[j] = state[j] /\ due'[j] = due[j]
        BY <2>1, FailTypeOK
  <2>3. state'[x] # "active" /\ state[x] # "absent"
    <3>1. state'[x] \in {"retry", "failed", "absent", state[x]}
          BY <2>1, FailKeepsStates
    <3> QED BY <2>1, <3>1 DEF Queued
  <2> QED BY <1>0, <2>1, <2>2, <2>3, OrderKept
<1>5. CASE Cancel(x) \/ Resume(x) \/ Retry(x) \/ Delete(x) \/ Restore(x)
  <2>1. PICK s \in AllStates : Move(x, s) /\ s # "active"
        BY <1>5 DEF Cancel, Resume, Retry, Delete, Restore, AllStates, States, Live, Queued
  <2>2. state[x] # "absent"
        BY <1>5 DEF Cancel, Resume, Retry, Delete, Restore, States, Live, Queued
  <2>3. /\ UNCHANGED <<policy, keyOf, stamp, before, due, seen>>
        /\ state'[x] = s /\ odd'[x]
        /\ \A j \in Jobs \ {x} : state'[j] = state[j] /\ odd'[j] = odd[j]
        BY <2>1 DEF Move, TypeOK, workerVars
  <2>4. (\A j \in Jobs \ {x} : started'[j] = started[j]) /\ (started'[x] => started[x])
        BY <1>5 DEF Cancel, Resume, Retry, Delete, Restore, TypeOK
  <2> QED BY <1>0, <2>1, <2>2, <2>3, <2>4, OrderKept
<1> QED BY <1>1, <1>2, <1>3, <1>4, <1>5 DEF RowStep

LEMMA OrderInvariant == Spec => []OrderInv
<1>1. Init => OrderInv
      BY DEF Init, OrderInv, StampsSound, UnstartedSound, OrderSound, First
<1>2. ASSUME TypeOK, OrderInv, [Next]_vars PROVE OrderInv'
  <2>1. CASE UNCHANGED vars
    <3>1. UNCHANGED <<policy, keyOf, stamp, before, state, due, started, odd, seen>>
          BY <2>1 DEF vars, rowVars, ghostVars, workerVars
    <3>2. \A j \in Jobs : state[j] = "active" => started[j]
          BY <1>2 DEF OrderInv, UnstartedSound
    <3> QED BY <1>2, <3>1, <3>2, OrderKept
  <2> QED BY <1>2, <2>1, WorkerOrder, RowOrder DEF Next
<1> QED BY <1>1, <1>2, TypeCorrect, PTL DEF Spec

\* FifoStart: the jobs of a key first start in the order they were sent.
THEOREM FifoTheorem == Spec => []FifoStart
<1>1. OrderInv => FifoStart
      BY DEF OrderInv, OrderSound, FifoStart, First, Fifo
<1> QED BY <1>1, OrderInvariant, PTL
-----------------------------------------------------------------------------
(* No claim is left behind, and no key is stuck. *)

\* A step of one worker that claims nothing, or ends with none of its jobs.
LEMMA ClaimsStay ==
    ASSUME TypeOK, NoClaimLeftBehind, NEW w \in Workers,
           \A v \in Workers \ {w} : phase'[v] = phase[v],
           \/ \A j \in Jobs : owner'[j] = w => phase'[w] \in {"claimed", "running"}
           \/ phase'[w] = phase[w],
           \A j \in Jobs : owner'[j] \in {NoWorker, owner[j], w},
           (\E j \in Jobs : owner'[j] = w /\ owner[j] # w) => phase'[w] \in {"claimed", "running"}
    PROVE  NoClaimLeftBehind'
BY DEF TypeOK, NoClaimLeftBehind

LEMMA WorkerClaims ==
    ASSUME TypeOK, NoClaimLeftBehind, NEW w \in Workers, WorkerStep(w)
    PROVE  NoClaimLeftBehind'
<1>0. /\ phase \in [Workers -> {"idle", "fetching", "claimed", "running"}]
      /\ owner \in [Jobs -> Workers \cup {NoWorker}]
      /\ \A j \in Jobs : owner[j] = w => phase[w] \in {"claimed", "running"}
      BY PoliciesAssumption DEF TypeOK, NoClaimLeftBehind
<1>1. CASE FetchSnapshot(w) \/ FetchNothing(w) \/ Deliver(w)
  <2>1. UNCHANGED owner /\ \A v \in Workers \ {w} : phase'[v] = phase[v]
        BY <1>0, <1>1 DEF FetchSnapshot, FetchNothing, Deliver, rowVars
  <2>2. \A j \in Jobs : owner[j] = w => phase'[w] \in {"claimed", "running"}
        BY <1>0, <1>1 DEF FetchSnapshot, FetchNothing, Deliver
  <2> QED BY <2>1, <2>2, ClaimsStay
<1>2. CASE FetchClaim(w)
  <2>1. PICK R \in SUBSET Jobs : ClaimRefused(w) \/ Claim(w, R)
        BY <1>2, ClaimForm
  <2>2. CASE ClaimRefused(w)
    <3>1. \A j \in Jobs : owner[j] # w
          BY <1>0, <1>2 DEF FetchClaim
    <3>2. UNCHANGED owner /\ \A v \in Workers \ {w} : phase'[v] = phase[v]
          BY <1>0, <2>2 DEF ClaimRefused
    <3> QED BY <3>1, <3>2, ClaimsStay
  <2>3. CASE Claim(w, R)
    <3>1. phase'[w] = "claimed" /\ \A v \in Workers \ {w} : phase'[v] = phase[v]
          BY <1>0, <2>3 DEF Claim
    <3>2. \A j \in Jobs : owner'[j] \in {owner[j], w}
          BY <2>3 DEF Claim
    <3> QED BY <3>1, <3>2, ClaimsStay
  <2> QED BY <2>1, <2>2, <2>3
<1>3. CASE GiveBack(w)
  <2>1. PICK G \in SUBSET Jobs : G \subseteq Batch(w) /\ Return(w, G)
        BY <1>3, GiveBackForm
  <2>2. \A j \in Jobs : owner'[j] = IF j \in G THEN NoWorker ELSE owner[j]
        BY <2>1 DEF Return
  <2>3. phase'[w] = AfterGiveBack(w, G) /\ \A v \in Workers \ {w} : phase'[v] = phase[v]
        BY <1>0, <2>1 DEF Return
  <2>4. \A j \in Jobs : owner'[j] = w => phase'[w] \in {"claimed", "running"}
        BY <2>2, <2>3, PoliciesAssumption DEF AfterGiveBack, Batch
  <2> QED BY <2>2, <2>3, <2>4, ClaimsStay
<1>4. CASE HandlerCompletes(w) \/ Crash(w)
  <2>1. \A j \in Jobs : owner'[j] = IF owner[j] = w THEN NoWorker ELSE owner[j]
        BY <1>4 DEF HandlerCompletes, Crash
  <2>2. \A v \in Workers \ {w} : phase'[v] = phase[v]
        BY <1>0, <1>4 DEF HandlerCompletes, Crash
  <2> QED BY <2>1, <2>2, ClaimsStay, PoliciesAssumption
<1>5. CASE HandlerFails(w)
  <2>1. \A j \in Jobs : owner'[j] = IF owner[j] = w THEN NoWorker ELSE owner[j]
        BY <1>5 DEF HandlerFails, Fail, Batch
  <2>2. \A v \in Workers \ {w} : phase'[v] = phase[v]
        BY <1>0, <1>5 DEF HandlerFails
  <2> QED BY <2>1, <2>2, ClaimsStay, PoliciesAssumption
<1> QED BY <1>1, <1>2, <1>3, <1>4, <1>5 DEF WorkerStep

LEMMA RowClaims ==
    ASSUME TypeOK, NoClaimLeftBehind, NEW x \in Jobs, RowStep(x)
    PROVE  NoClaimLeftBehind'
<1>1. UNCHANGED phase
      BY DEF RowStep, Send, StartAfterPasses, Expire, Cancel, Resume, Retry, Restore, Delete,
            FailQueued, Move, workerVars
<1>2. CASE Expire(x) \/ FailQueued(x)
  <2>1. Fail({x})
        BY <1>2 DEF Expire, FailQueued
  <2>2. \A j \in Jobs : owner'[j] \in {NoWorker, owner[j]}
        BY <2>1 DEF Fail
  <2> QED BY <1>1, <2>2 DEF NoClaimLeftBehind
<1>3. CASE ~(Expire(x) \/ FailQueued(x))
  <2>1. \A j \in Jobs : owner'[j] \in {NoWorker, owner[j]}
        BY <1>3 DEF RowStep, Send, StartAfterPasses, Cancel, Resume, Retry, Restore, Delete,
              Move, TypeOK
  <2> QED BY <1>1, <2>1 DEF NoClaimLeftBehind
<1> QED BY <1>2, <1>3

LEMMA ClaimsInvariant == Spec => []NoClaimLeftBehind
<1>1. Init => NoClaimLeftBehind
      BY DEF Init, NoClaimLeftBehind
<1>2. ASSUME TypeOK, NoClaimLeftBehind, [Next]_vars PROVE NoClaimLeftBehind'
  <2>1. CASE UNCHANGED vars
        BY <1>2, <2>1 DEF vars, rowVars, workerVars, NoClaimLeftBehind
  <2> QED BY <1>2, <2>1, WorkerClaims, RowClaims DEF Next
<1> QED BY <1>1, <1>2, TypeCorrect, PTL DEF Spec

\* Of several jobs stored, one is the oldest.
LEMMA Oldest ==
    ASSUME TypeOK, NEW S \in SUBSET Jobs, S # {}
    PROVE  \E j \in S : \A k \in S : stamp[j] <= stamp[k]
<1> DEFINE T == {stamp[j] : j \in S}
<1>1. \A j \in Jobs : stamp[j] \in Nat
  <2>1. Cardinality(Jobs) \in Nat
        BY PoliciesAssumption, FS_CardinalityType
  <2> QED BY <2>1 DEF TypeOK, Stamps
<1>2. T \subseteq Nat /\ T # {}
      BY <1>1
<1>3. PICK m \in T : \A n \in T : <<n, m>> \notin OpToRel(<, Nat)
      BY <1>2, NatLessThanWellFounded, WFMin
<1>4. ASSUME NEW n \in T, n < m PROVE FALSE
  <2>1. <<n, m>> \in OpToRel(<, Nat)
        BY <1>2, <1>4 DEF OpToRel
  <2> QED BY <1>3, <2>1
<1>5. ASSUME NEW n \in T PROVE m <= n
  <2>1. m \in Nat /\ n \in Nat
        BY <1>2
  <2> QED BY <1>4, <2>1
<1> QED BY <1>5

\* KeyNeverStuck: the retry of a key, of which there is one, or else its oldest
\* ready job can be fetched.
LEMMA StuckNever ==
    ASSUME TypeOK, UniqueIndex, StampsSound
    PROVE  KeyNeverStuck
<1> SUFFICES ASSUME NEW j \in Jobs, Ready(j),
                    \A k \in Jobs : SamePlace(j, k) =>
                        /\ state[k] \notin {"active", "failed"}
                        /\ state[k] = "retry" => due[k]
             PROVE  \E k \in Jobs : keyOf[k] = keyOf[j] /\ Candidate(k)
    BY DEF KeyNeverStuck
<1>1. \A k \in Jobs : keyOf[k] = keyOf[j] =>
        state[k] \notin {"active", "failed"} /\ (state[k] = "retry" => Ready(k))
      BY DEF SamePlace, IndexKey, Ready, Queued
<1>2. CASE ~Fifo
  <2>1. ~KeyIsHeldBack(j)
        BY <1>2 DEF KeyIsHeldBack, SamePlace, Fifo
  <2> QED BY <1>2, <2>1 DEF Candidate, Fifo
<1>3. CASE Fifo
  <2>1. ASSUME NEW r \in Jobs, keyOf[r] = keyOf[j], Ready(r), Head(r),
               \A k \in Jobs \ {r} : keyOf[k] = keyOf[j] => state[k] # "retry"
        PROVE  Candidate(r)
    <3>1. ~KeyIsHeldBack(r)
          BY <1>1, <1>3, <2>1 DEF KeyIsHeldBack, Fifo
    <3> QED BY <2>1, <3>1 DEF Candidate
  <2>2. CASE \E r \in Jobs : keyOf[r] = keyOf[j] /\ state[r] = "retry"
    <3>1. PICK r \in Jobs : keyOf[r] = keyOf[j] /\ state[r] = "retry"
          BY <2>2
    <3>2. \A k \in Jobs \ {r} : keyOf[k] = keyOf[j] => state[k] # "retry"
          BY <1>3, <3>1 DEF UniqueIndex, SameEntry, IndexedStates, IndexKey, Fifo
    <3>3. Head(r)
      <4>1. \A k \in Jobs \ {r} : Ready(k) /\ keyOf[k] = keyOf[j] => state[k] = "created"
            BY <3>2 DEF Ready, Queued
      <4> QED BY <3>1, <4>1 DEF Head, Ahead
    <3> QED BY <1>1, <2>1, <3>1, <3>2, <3>3
  <2>3. CASE ~\E r \in Jobs : keyOf[r] = keyOf[j] /\ state[r] = "retry"
    <3> DEFINE S == {k \in Jobs : Ready(k) /\ keyOf[k] = keyOf[j]}
    <3>1. S \in SUBSET Jobs /\ S # {}
          OBVIOUS
    <3>2. PICK r \in S : \A k \in S : stamp[r] <= stamp[k]
          BY <3>1, Oldest
    <3>3. \A k \in S : state[k] = "created"
          BY <2>3 DEF Ready, Queued
    <3>4. \A k \in S \ {r} : stamp[k] # stamp[r]
          BY <3>2, <3>3 DEF StampsSound
    <3>5. \A k \in Jobs : stamp[k] \in Nat
      <4>1. Cardinality(Jobs) \in Nat
            BY PoliciesAssumption, FS_CardinalityType
      <4> QED BY <4>1 DEF TypeOK, Stamps
    <3>6. \A k \in S \ {r} : stamp[r] < stamp[k]
          BY <3>2, <3>4, <3>5
    <3>7. Head(r)
          BY <3>2, <3>3, <3>6 DEF Head, Ahead
    <3> QED BY <2>1, <2>3, <3>2, <3>7
  <2> QED BY <2>2, <2>3
<1> QED BY <1>2, <1>3

\* KeysServed: a key with work to do has a job to fetch, and no claim is left with
\* a worker that polls again.
THEOREM KeysServedTheorem == Spec => []KeysServed
<1>1. TypeOK /\ UniqueIndex /\ OrderInv => KeyNeverStuck
      BY StuckNever DEF OrderInv
<1> QED BY <1>1, TypeCorrect, UniqueIndexInvariant, OrderInvariant, ClaimsInvariant, PTL DEF KeysServed

-----------------------------------------------------------------------------
(* A fetch is refused only for a race it lost: as long as nothing was committed    *)
(* since its snapshot, its candidates are still ready, free and of different keys. *)

SnapshotSound ==
    \A w \in Workers : phase[w] = "fetching" =>
        /\ Fifo => \A j, k \in seen[w] : j # k => keyOf[j] # keyOf[k]
        /\ ~raced[w] => \A j \in seen[w] : Ready(j) /\ ~KeyIsHeldBack(j)

\* What was seen stays as it was, or something else was committed.
LEMMA SnapshotKept ==
    ASSUME TypeOK, SnapshotSound, UNCHANGED <<policy, keyOf>>,
           \A w \in Workers : phase'[w] = "fetching" =>
                /\ phase[w] = "fetching" /\ seen'[w] = seen[w]
                /\ \/ raced'[w]
                   \/ /\ UNCHANGED state /\ (raced[w] => raced'[w])
                      /\ \A j \in Jobs : due[j] => due'[j]
    PROVE  SnapshotSound'
<1> SUFFICES ASSUME NEW w \in Workers, phase'[w] = "fetching"
             PROVE  /\ Fifo => \A j, k \in seen[w] : j # k => keyOf[j] # keyOf[k]
                    /\ ~raced'[w] => \A j \in seen[w] : Ready(j)' /\ ~KeyIsHeldBack(j)'
    BY DEF SnapshotSound, Fifo
<1>1. phase[w] = "fetching"
      OBVIOUS
<1>2. ASSUME ~raced'[w], NEW j \in seen[w]
      PROVE  Ready(j)' /\ ~KeyIsHeldBack(j)'
  <2>1. UNCHANGED state /\ ~raced[w] /\ j \in Jobs /\ (due[j] => due'[j])
        BY <1>2 DEF TypeOK
  <2>2. Ready(j) /\ ~KeyIsHeldBack(j)
        BY <1>1, <2>1 DEF SnapshotSound
  <2> QED BY <2>1, <2>2 DEF Ready, KeyIsHeldBack, IndexKey
<1> QED BY <1>1, <1>2 DEF SnapshotSound

LEMMA WorkerSnapshot ==
    ASSUME TypeOK, StampsSound, SnapshotSound, NEW w \in Workers, WorkerStep(w)
    PROVE  SnapshotSound'
<1>0. /\ phase \in [Workers -> {"idle", "fetching", "claimed", "running"}]
      /\ seen \in [Workers -> SUBSET Jobs]
      /\ raced \in [Workers -> BOOLEAN]
      BY DEF TypeOK
<1>1. CASE FetchSnapshot(w)
  <2>1. /\ UNCHANGED <<policy, keyOf, state, due, stamp, raced>>
        /\ seen'[w] = {j \in Jobs : Candidate(j)}
        /\ \A v \in Workers \ {w} : phase'[v] = phase[v] /\ seen'[v] = seen[v]
        BY <1>0, <1>1 DEF FetchSnapshot, rowVars
  <2>2. ASSUME Fifo, NEW j \in Jobs, NEW k \in Jobs, Candidate(j), Candidate(k), j # k
        PROVE  keyOf[j] # keyOf[k]
    <3>1. stamp[j] \in Nat /\ stamp[k] \in Nat
      <4>1. Cardinality(Jobs) \in Nat
            BY PoliciesAssumption, FS_CardinalityType
      <4> QED BY <4>1 DEF TypeOK, Stamps
    <3>2. keyOf[j] = keyOf[k] => Ahead(j, k) /\ Ahead(k, j)
          BY <2>2 DEF Candidate, Head, Fifo
    <3> QED BY <3>1, <3>2 DEF Ahead
  <2>3. \A j \in Jobs : Candidate(j) => Ready(j) /\ ~KeyIsHeldBack(j)
        BY DEF Candidate
  <2>4. \A j : (Ready(j)' <=> Ready(j)) /\ (KeyIsHeldBack(j)' <=> KeyIsHeldBack(j))
        BY <2>1 DEF Ready, KeyIsHeldBack, IndexKey
  <2> QED BY <2>1, <2>2, <2>3, <2>4 DEF SnapshotSound, Fifo
<1>2. CASE FetchNothing(w) \/ Deliver(w) \/ Crash(w)
  <2>1. phase'[w] # "fetching" /\ UNCHANGED <<policy, keyOf, state, due>>
        BY <1>0, <1>2 DEF FetchNothing, Deliver, Crash, rowVars
  <2>2. \A v \in Workers \ {w} : phase'[v] = phase[v] /\ seen'[v] = seen[v] /\ raced'[v] = raced[v]
        BY <1>0, <1>2 DEF FetchNothing, Deliver, Crash
  <2> QED BY <2>1, <2>2, SnapshotKept
<1>3. CASE FetchClaim(w)
  <2>1. PICK R \in SUBSET Jobs : ClaimRefused(w) \/ Claim(w, R)
        BY <1>3, ClaimForm
  <2>2. UNCHANGED <<policy, keyOf, due>> /\ \A v \in Workers \ {w} : seen'[v] = seen[v]
        BY <1>0, <1>3 DEF FetchClaim
  <2>3. phase'[w] # "fetching" /\ \A v \in Workers \ {w} : phase'[v] = phase[v]
        BY <1>0, <2>1 DEF ClaimRefused, Claim
  <2>4. \A v \in Workers \ {w} : phase[v] = "fetching" =>
            raced'[v] \/ (UNCHANGED state /\ raced'[v] = raced[v])
        BY <1>0, <2>1 DEF ClaimRefused, Claim, CommittedBy
  <2> QED BY <2>2, <2>3, <2>4, SnapshotKept
<1>4. CASE GiveBack(w) \/ HandlerCompletes(w) \/ HandlerFails(w)
  <2>1. UNCHANGED <<policy, keyOf, seen>> /\ Committed
        BY <1>4 DEF GiveBack, HandlerCompletes, HandlerFails, Fail
  <2>2. \A v \in Workers : phase'[v] = "fetching" => phase[v] = "fetching"
    <3>1. CASE GiveBack(w)
          BY <1>0, <3>1, GiveBackForm DEF Return, AfterGiveBack
    <3>2. CASE HandlerCompletes(w) \/ HandlerFails(w)
          BY <1>0, <3>2 DEF HandlerCompletes, HandlerFails
    <3> QED BY <1>4, <3>1, <3>2
  <2>3. \A v \in Workers : phase[v] = "fetching" => raced'[v]
        BY <2>1 DEF Committed
  <2> QED BY <2>1, <2>2, <2>3, SnapshotKept
<1> QED BY <1>1, <1>2, <1>3, <1>4 DEF WorkerStep

LEMMA RowSnapshot ==
    ASSUME TypeOK, SnapshotSound, NEW x \in Jobs, RowStep(x)
    PROVE  SnapshotSound'
<1>1. UNCHANGED <<policy, keyOf, phase, seen>>
      BY DEF RowStep, Send, StartAfterPasses, Expire, Cancel, Resume, Retry, Restore, Delete,
            FailQueued, Move, workerVars
<1>2. CASE StartAfterPasses(x)
  <2>1. UNCHANGED <<state, raced>> /\ \A j \in Jobs : due[j] => due'[j]
        BY <1>2 DEF StartAfterPasses, TypeOK
  <2> QED BY <1>1, <2>1, SnapshotKept
<1>3. CASE ~StartAfterPasses(x)
  <2>1. Committed
        BY <1>3 DEF RowStep, Send, Expire, Cancel, Resume, Retry, Restore, Delete, FailQueued,
              Move, Fail
  <2>2. \A v \in Workers : phase[v] = "fetching" => raced'[v]
        BY <2>1 DEF Committed
  <2> QED BY <1>1, <2>2, SnapshotKept
<1> QED BY <1>2, <1>3

LEMMA SnapshotInvariant == Spec => []SnapshotSound
<1>1. Init => SnapshotSound
      BY DEF Init, SnapshotSound
<1>2. ASSUME TypeOK, OrderInv, SnapshotSound, [Next]_vars PROVE SnapshotSound'
  <2>1. CASE UNCHANGED vars
        BY <1>2, <2>1, SnapshotKept DEF vars, rowVars, workerVars
  <2> QED BY <1>2, <2>1, WorkerSnapshot, RowSnapshot DEF Next, OrderInv
<1> QED BY <1>1, <1>2, TypeCorrect, OrderInvariant, PTL DEF Spec

\* A key_strict_fifo queue stores no job without a key.
FifoKeyed == Fifo => \A j \in Jobs : state[j] # "absent" => keyOf[j] \notin {NoKey, EmptyKey}

LEMMA FifoKeyedInvariant == Spec => []FifoKeyed
<1>1. Init => FifoKeyed
      BY DEF Init, FifoKeyed
<1>2. ASSUME TypeOK, FifoKeyed, [Next]_vars PROVE FifoKeyed'
  <2>1. ASSUME UNCHANGED <<policy, keyOf>>,
               \A j \in Jobs : state[j] = "absent" => state'[j] = "absent"
        PROVE  FifoKeyed'
        BY <1>2, <2>1 DEF FifoKeyed, Fifo
  <2>2. CASE UNCHANGED vars
        BY <2>1, <2>2 DEF vars, rowVars
  <2>3. ASSUME NEW w \in Workers, WorkerStep(w) PROVE FifoKeyed'
    <3>1. CASE FetchSnapshot(w) \/ FetchNothing(w) \/ Deliver(w) \/ Crash(w)
          BY <2>1, <3>1 DEF FetchSnapshot, FetchNothing, Deliver, Crash, rowVars
    <3>2. CASE FetchClaim(w)
      <4>1. UNCHANGED <<policy, keyOf>>
            BY <3>2 DEF FetchClaim
      <4>2. PICK R \in SUBSET Jobs :
                /\ R \subseteq {j \in seen[w] : Ready(j)}
                /\ ClaimRefused(w) \/ Claim(w, R)
            BY <1>2, <3>2, ClaimForm
      <4>3. \A j \in Jobs : state[j] = "absent" => state'[j] = "absent"
            BY <4>2 DEF ClaimRefused, Claim, Ready, Queued
      <4> QED BY <2>1, <4>1, <4>3
    <3>3. CASE GiveBack(w)
      <4>1. UNCHANGED <<policy, keyOf>>
            BY <3>3 DEF GiveBack
      <4>2. PICK G \in SUBSET Jobs : G \subseteq Batch(w) /\ Return(w, G)
            BY <1>2, <3>3, GiveBackForm
      <4>3. \A j \in Jobs : state[j] = "absent" => state'[j] = "absent"
            BY <1>2, <4>2, PoliciesAssumption DEF Return, Batch, TypeOK
      <4> QED BY <2>1, <4>1, <4>3
    <3>4. CASE HandlerCompletes(w)
          BY <1>2, <2>1, PoliciesAssumption, <3>4 DEF HandlerCompletes, TypeOK
    <3>5. CASE HandlerFails(w)
      <4>1. UNCHANGED <<policy, keyOf>> /\ Fail(Batch(w)) /\ Batch(w) \in SUBSET Jobs
            BY <3>5 DEF HandlerFails, Batch
      <4>2. \A j \in Jobs \ Batch(w) : state'[j] = state[j]
            BY <1>2, <4>1, FailTypeOK
      <4>3. \A j \in Batch(w) : state[j] # "absent"
            BY <1>2, PoliciesAssumption DEF Batch, TypeOK
      <4> QED BY <2>1, <4>1, <4>2, <4>3
    <3> QED BY <2>3, <3>1, <3>2, <3>3, <3>4, <3>5 DEF WorkerStep
  <2>4. ASSUME NEW x \in Jobs, RowStep(x) PROVE FifoKeyed'
    <3>1. CASE Send(x)
          BY <1>2, <3>1 DEF Send, FifoKeyed, Fifo, TypeOK
    <3>2. CASE StartAfterPasses(x)
          BY <2>1, <3>2 DEF StartAfterPasses
    <3>3. CASE Expire(x) \/ FailQueued(x)
      <4>1. UNCHANGED <<policy, keyOf>> /\ Fail({x}) /\ {x} \in SUBSET Jobs /\ state[x] # "absent"
            BY <3>3 DEF Expire, FailQueued, Queued
      <4>2. \A j \in Jobs \ {x} : state'[j] = state[j]
            BY <1>2, <4>1, FailTypeOK
      <4> QED BY <2>1, <4>1, <4>2
    <3>4. CASE Cancel(x) \/ Resume(x) \/ Retry(x) \/ Restore(x) \/ Delete(x)
      <4>1. UNCHANGED <<policy, keyOf>> /\ state[x] # "absent"
            BY <3>4 DEF Cancel, Resume, Retry, Restore, Delete, Move, States, Live, Queued
      <4>2. \A j \in Jobs \ {x} : state'[j] = state[j]
            BY <1>2, <3>4 DEF Cancel, Resume, Retry, Restore, Delete, Move, TypeOK
      <4> QED BY <2>1, <4>1, <4>2
    <3> QED BY <2>4, <3>1, <3>2, <3>3, <3>4 DEF RowStep
  <2> QED BY <1>2, <2>2, <2>3, <2>4 DEF Next
<1> QED BY <1>1, <1>2, TypeCorrect, PTL DEF Spec

\* Nothing refuses candidates that are still as they were seen, other than each other:
\* the ranking takes a job without a key and one with the empty key for two keys.
LEMMA FreshIsTaken ==
    ASSUME TypeOK, UniqueIndex, SnapshotSound, FifoKeyed, NEW w \in Workers,
           phase[w] = "fetching", ~raced[w], ~KeylessMeetsEmpty(w),
           NEW N, NEW R \in RankedBatches(N), N \subseteq seen[w], Cardinality(N) <= BatchSize
    PROVE  ~BatchRefused(R)
<1>1. R \subseteq seen[w] /\ seen[w] \subseteq Jobs
      BY RankedSubset DEF TypeOK
<1>2. \A j \in R : Ready(j) /\ ~KeyIsHeldBack(j)
      BY <1>1 DEF SnapshotSound
<1>3. ASSUME NEW j \in R, Refused(j, "active") PROVE FALSE
  <2>1. PICK k \in Jobs \ {j} : SameEntry(j, "active", k, state[k])
        BY <1>3 DEF Refused
  <2>2. IndexKey(j) = IndexKey(k) /\ j \in Jobs /\ state[j] \in Queued
        BY <1>1, <1>2, <2>1 DEF SameEntry, Ready
  <2>3. CASE policy = "exclusive"
        BY <2>1, <2>2, <2>3 DEF UniqueIndex, SameEntry, IndexedStates, Live
  <2>4. CASE policy \in {"singleton", "stately"}
    <3>1. state[k] = "active"
          BY <2>1, <2>4 DEF SameEntry, IndexedStates
    <3> QED BY <1>2, <2>2, <2>4, <3>1 DEF KeyIsHeldBack
  <2>5. CASE policy = "key_strict_fifo"
    <3>1. state[k] \in {"active", "retry", "failed"}
          BY <2>1, <2>5 DEF SameEntry, IndexedStates
    <3>2. keyOf[j] = keyOf[k]
          BY <2>2, <2>5, <3>1 DEF FifoKeyed, Fifo, IndexKey, Queued
    <3> QED BY <1>2, <2>2, <2>5, <3>1, <3>2 DEF KeyIsHeldBack
  <2>6. policy \notin {"standard", "short"}
        BY <2>1 DEF SameEntry, IndexedStates
  <2> QED BY <2>3, <2>4, <2>5, <2>6, PoliciesAssumption DEF TypeOK, QueuePolicies
<1>4. ASSUME NEW j \in R, NEW k \in R, j # k, SameEntry(j, "active", k, "active")
      PROVE  FALSE
  <2>1. IndexKey(j) = IndexKey(k) /\ j \in Jobs /\ k \in Jobs
        BY <1>1, <1>4 DEF SameEntry
  <2>2. CASE policy = "exclusive"
    <3>1. state[j] \in Live /\ state[k] \in Live
          BY <1>2 DEF Ready, Live
    <3> QED BY <1>4, <2>1, <2>2, <3>1 DEF UniqueIndex, SameEntry, IndexedStates
  <2>3. CASE Fifo
    <3>1. keyOf[j] = keyOf[k]
          BY <1>2, <2>1, <2>3 DEF FifoKeyed, IndexKey, Ready, Queued
    <3> QED BY <1>1, <1>4, <2>3, <3>1 DEF SnapshotSound
  <2>4. CASE policy \in {"singleton", "stately"}
    <3>1. IsFiniteSet(N) /\ R \subseteq N
          BY <1>1, PoliciesAssumption, FS_Subset, RankedSubset
    <3>2. BatchSize > 1
      <4>1. {j, k} \subseteq N /\ Cardinality({j, k}) = 2
        <5>1. IsFiniteSet({j}) /\ Cardinality({j}) = 1
              BY FS_Singleton
        <5>2. {j, k} = {j} \cup {k} /\ k \notin {j}
              BY <1>4
        <5>3. Cardinality({j, k}) = 2
              BY <5>1, <5>2, FS_AddElement
        <5> QED BY <3>1, <5>3
      <4>2. 2 <= Cardinality(N) /\ Cardinality(N) \in Nat
            BY <3>1, <4>1, FS_Subset, FS_CardinalityType
      <4> QED BY <4>2, PoliciesAssumption
    <3>3. \A m \in {keyOf[i] : i \in N} : Cardinality({i \in R : keyOf[i] = m}) = 1
          BY <2>4, <3>2 DEF RankedBatches
    <3>7. keyOf[j] = keyOf[k]
      <4>1. Ready(j) /\ Ready(k) /\ j \in seen[w] /\ k \in seen[w]
            BY <1>1, <1>2
      <4>2. ~(keyOf[j] = NoKey /\ keyOf[k] = EmptyKey) /\ ~(keyOf[k] = NoKey /\ keyOf[j] = EmptyKey)
            BY <2>4, <3>2, <4>1 DEF KeylessMeetsEmpty
      <4> QED BY <2>1, <4>2 DEF IndexKey
    <3> DEFINE P == {i \in R : keyOf[i] = keyOf[j]}
    <3>4. Cardinality(P) = 1
          BY <3>1, <3>3
    <3>5. IsFiniteSet(P)
          BY <3>1, FS_Subset
    <3>6. PICK i : P = {i}
          BY <3>4, <3>5, FS_Singleton
    <3> QED BY <1>4, <2>1, <3>6, <3>7
  <2>5. policy \notin {"standard", "short"}
        BY <1>4 DEF SameEntry, IndexedStates
  <2> QED BY <2>2, <2>3, <2>4, <2>5, PoliciesAssumption DEF TypeOK, QueuePolicies, Fifo
<1> QED BY <1>3, <1>4 DEF BatchRefused

\* A fetch that found something ready and came back empty lost a race, or had a batch
\* that refuses itself.
LEMMA RefusedIsRaced ==
    ASSUME TypeOK, UniqueIndex, SnapshotSound, FifoKeyed, [Next]_vars, NEW w \in Workers,
           phase[w] = "fetching", phase'[w] = "idle", NEW j \in seen[w], Ready(j)
    PROVE  raced[w] \/ KeylessMeetsEmpty(w)
<1>0. phase \in [Workers -> {"idle", "fetching", "claimed", "running"}]
      BY DEF TypeOK
<1>1. ~UNCHANGED phase
      OBVIOUS
<1>2. PICK v \in Workers : WorkerStep(v)
      BY <1>1 DEF Next, RowStep, Send, StartAfterPasses, Expire, Cancel, Resume, Retry, Restore,
            Delete, FailQueued, Move, workerVars, vars
<1>3. v = w
  <2>1. CASE FetchSnapshot(v) \/ FetchNothing(v) \/ Deliver(v) \/ HandlerCompletes(v)
             \/ HandlerFails(v) \/ Crash(v)
        BY <1>0, <2>1 DEF FetchSnapshot, FetchNothing, Deliver, HandlerCompletes, HandlerFails, Crash
  <2>2. CASE FetchClaim(v)
        BY <1>0, <2>2, ClaimForm DEF ClaimRefused, Claim
  <2>3. CASE GiveBack(v)
        BY <1>0, <2>3, GiveBackForm DEF Return
  <2> QED BY <1>2, <2>1, <2>2, <2>3 DEF WorkerStep
<1>4. FetchClaim(w)
  <2>1. ~FetchNothing(w)
        BY DEF FetchNothing
  <2> QED BY <1>2, <1>3, <2>1
          DEF WorkerStep, FetchSnapshot, Deliver, GiveBack, HandlerCompletes, HandlerFails, Crash
<1>5. PICK R \in SUBSET Jobs :
        /\ IF BatchRefused(R) THEN ClaimRefused(w) ELSE Claim(w, R)
        /\ \E N : R \in RankedBatches(N) /\ Cardinality(N) <= BatchSize /\ N \subseteq seen[w]
      BY <1>4, ClaimForm
<1>6. BatchRefused(R)
      BY <1>0, <1>5 DEF Claim
<1> QED BY <1>5, <1>6, FreshIsTaken

\* ClaimsJustified: a fetch takes no job a started sibling holds back, and is
\* refused one only for a race it lost, or when its batch has a job without a key
\* beside one with the empty key.
THEOREM ClaimsJustifiedTheorem == Spec => ClaimsJustified
<1>1. ASSUME TypeOK, UniqueIndex, SnapshotSound, FifoKeyed, [Next]_vars
      PROVE  [\A w \in Workers :
                phase[w] = "fetching" /\ phase'[w] = "idle" /\ (\E j \in seen[w] : Ready(j))
                => raced[w] \/ KeylessMeetsEmpty(w)]_vars
      BY <1>1, RefusedIsRaced
<1>2. Spec => RefusalMeansRace
      BY <1>1, TypeCorrect, UniqueIndexInvariant, SnapshotInvariant, FifoKeyedInvariant, PTL
         DEF Spec, RefusalMeansRace
<1> QED BY <1>2, HoldsBackTheorem DEF ClaimsJustified

-----------------------------------------------------------------------------
(***************************************************************************)
(* The clock a test drives (TestClock, by MCKeyPolicies' instance Clock):   *)
(* its inductive invariant, for any instances, delays and bounds.           *)
(***************************************************************************)
\* A timer as #schedule makes it.
TimerRecords == [due : Nat, seq : Nat, interval : Nat, owner : Instances]

Passes == {"out", "checking", "waited", "was busy", "was quiet"}
Steps == {"none", "pass", "idle", "aim", "loop", "jump", "push", "fire", "settle"}

\* The values of the variables.
ClockTypes ==
    /\ now \in Nat /\ seq \in Nat /\ clockRow \in Nat \cup {Clock!NoRow} /\ overridden \in BOOLEAN
    /\ timers \subseteq TimerRecords
    /\ driver \in [step : Steps, goal : Nat, timer : TimerRecords \cup {Clock!NoTimer}, next : Steps]
    /\ pass \in [Instances -> Passes]
    /\ inFlight \in [Instances -> Nat]
    /\ life \in [Instances -> {"down", "attaching", "up", "releasing"}]
    /\ seed \in [Instances -> Nat]
    /\ declared \in [Instances -> BOOLEAN]
    /\ pool \in [Instances -> SUBSET {"plain", "opted in"}]

\* Timers are told apart by their numbers, and none is overdue; nor is the one taken off
\* the list to be fired.
Timers ==
    /\ \A t \in timers : t.due >= now /\ t.seq < seq
    /\ \A t, u \in timers : t.seq = u.seq => t = u
    /\ driver.step = "fire" \/ (driver.step = "push" /\ driver.next = "fire")
          => driver.timer \in TimerRecords /\ driver.timer.due >= now

\* The steps of tick() and setTime() between two settles.
Settled == driver.step \in {"aim", "loop", "jump", "push", "fire", "settle"}

\* Nothing runs between two settles, and a pass that will be the last has met nobody busy.
Quiescence ==
    /\ \A i \in Instances : life[i] # "up" => inFlight[i] = 0
    /\ Settled => \A i \in Instances : inFlight[i] = 0
    /\ driver.step = "idle" /\ (\E i \in Instances : inFlight[i] > 0)
          => \E j \in Instances : pass[j] \in {"waited", "was busy"}
    /\ driver.step \in {"pass", "idle"} => driver.next \in {"aim", "jump", "loop"}
    /\ driver.step = "push" => driver.next \in {"none", "fire", "settle"}

\* One instance comes or goes at a time, and while no call of the clock runs.
OneMoves ==
    /\ Clock!Moving => driver.step = "none"
    /\ \A i, j \in Instances : life[i] \in {"attaching", "releasing"} /\ life[j] \in {"attaching", "releasing"} => i = j
    /\ \A i \in Instances : life[i] = "attaching" => seed[i] = now
    /\ \A i, j \in Instances : life[i] = "releasing" => life[j] # "up"

\* The database is overridden while an instance is up, and reads the clock unless the
\* clock has just moved; sessions of an instance that is up have opted in.
Overridden ==
    /\ Clock!Targets # {} => overridden /\ clockRow \in Nat /\ (driver.step # "push" => clockRow = now)
    /\ \A i \in Instances : life[i] \in {"attaching", "up"} => declared[i] /\ pool[i] \subseteq {"opted in"}

ClockInv == ClockTypes /\ Timers /\ Quiescence /\ OneMoves /\ Overridden

-----------------------------------------------------------------------------
(* Operators *)

\* A finite set of integers that is not empty has a largest one.
LEMMA FiniteMax ==
    ASSUME NEW S \in SUBSET Int, IsFiniteSet(S), S # {}
    PROVE  \E m \in S : \A x \in S : x <= m
<1> DEFINE Bad == {T \in SUBSET S : T # {} /\ ~\E m \in T : \A x \in T : x <= m}
<1>1. SUFFICES ASSUME Bad # {} PROVE FALSE
      OBVIOUS
<1>2. Bad \subseteq FiniteSubsetsOf(S)
      BY FS_FiniteSubsetsOfFinite
<1>3. PICK T \in Bad : \A U \in Bad : ~ (<<U, T>> \in StrictSubsetOrdering(S))
      <2> HIDE DEF Bad
      <2>1. IsWellFoundedOn(StrictSubsetOrdering(S), FiniteSubsetsOf(S))
            BY FS_StrictSubsetOrderingWellFounded
      <2> QED BY <1>1, <1>2, <2>1, WFMin, Zenon
<1>4. PICK x \in T : TRUE
      OBVIOUS
<1>5. CASE T \ {x} = {}
      <2>1. T = {x}
            BY <1>4, <1>5
      <2>2. x <= x
            BY <1>4
      <2> QED BY <2>1, <2>2
<1>6. CASE T \ {x} # {}
      <2>1. <<T \ {x}, T>> \in StrictSubsetOrdering(S)
            BY <1>4 DEF StrictSubsetOrdering
      <2>2. T \ {x} \notin Bad
            <3> HIDE DEF Bad
            <3> QED BY <1>3, <2>1
      <2>3. PICK m \in T \ {x} : \A y \in T \ {x} : y <= m
            BY <1>6, <2>2
      <2>4. m \in Int /\ x \in Int /\ T \subseteq Int
            BY <1>4
      <2>5. CASE x <= m
            <3>1. \A y \in T : y <= m
                  BY <2>3, <2>5
            <3> QED BY <3>1, <2>3
      <2>6. CASE ~(x <= m)
            <3>1. \A y \in T : y <= x
                  BY <2>3, <2>4, <2>6
            <3> QED BY <3>1, <1>4
      <2> QED BY <2>5, <2>6
<1> QED BY <1>5, <1>6

\* A set of naturals has a smallest one.
LEMMA SmallestNat ==
    ASSUME NEW S \in SUBSET Nat, S # {}
    PROVE  \E m \in S : \A x \in S : m <= x
<1>1. PICK m \in S : \A x \in S : ~ (<<x, m>> \in OpToRel(<, Nat))
      BY NatLessThanWellFounded, WFMin
<1>2. ASSUME NEW x \in S
      PROVE  m <= x
      <2>1. x \in Nat /\ m \in Nat
            OBVIOUS
      <2>2. ~(x < m)
            BY <1>1, <2>1 DEF OpToRel
      <2> QED BY <2>1, <2>2
<1> QED BY <1>2

\* The delays of timers, and of the interval of a monitor.
LEMMA DelayFacts ==
    Clock!Min(Delays) \in Nat /\ Clock!Max(Delays) \in Nat /\ Delays \subseteq Nat
<1>1. Delays \in SUBSET Nat /\ Delays \in SUBSET Int /\ Delays # {} /\ IsFiniteSet(Delays)
      <2>1. Delays \in SUBSET Nat /\ Delays \in SUBSET Int /\ Delays # {}
            BY ClockAssumption DEF Clock!TestClockAssumption
      <2>2. Clock!IsFiniteSet(Delays)
            BY ClockAssumption DEF Clock!TestClockAssumption
      <2>3. IsFiniteSet(Delays)
            BY <2>2 DEF Clock!IsFiniteSet, IsFiniteSet
      <2> QED BY <2>1, <2>3
<1>2. Clock!Min(Delays) \in Delays
      <2>1. \E m \in Delays : \A x \in Delays : m <= x
            BY <1>1, SmallestNat
      <2> QED BY <2>1 DEF Clock!Min
<1>3. Clock!Max(Delays) \in Delays
      <2>1. PICK m \in Delays : \A x \in Delays : x <= m
            BY <1>1, FiniteMax
      <2>2. \A x \in Delays : m >= x
            BY <1>1, <2>1
      <2> QED BY <2>2 DEF Clock!Max
<1> QED BY <1>1, <1>2, <1>3

\* The first timer is due before the others.
LEMMA FirstFacts ==
    ASSUME ClockTypes, Timers, timers # {}
    PROVE  Clock!First \in timers /\ \A u \in timers : Clock!First.due <= u.due
<1>1. \A t \in timers : t.due \in Nat /\ t.seq \in Nat
      BY DEF ClockTypes, TimerRecords
<1>2. PICK d \in {t.due : t \in timers} : \A e \in {t.due : t \in timers} : d <= e
      <2>1. {t.due : t \in timers} \in SUBSET Nat /\ {t.due : t \in timers} # {}
            BY <1>1
      <2> QED BY <2>1, SmallestNat
<1>3. PICK s \in {t.seq : t \in {u \in timers : u.due = d}} : \A e \in {t.seq : t \in {u \in timers : u.due = d}} : s <= e
      <2>1. {t.seq : t \in {u \in timers : u.due = d}} \in SUBSET Nat /\ {t.seq : t \in {u \in timers : u.due = d}} # {}
            BY <1>1, <1>2
      <2> QED BY <2>1, SmallestNat
<1>4. PICK t \in timers : t.due = d /\ t.seq = s
      BY <1>3
<1>5. ASSUME NEW u \in timers \ {t}
      PROVE  Clock!Before(t, u)
      <2>1. d <= u.due /\ (u.due = d => s <= u.seq) /\ u.seq # s
            BY <1>2, <1>3, <1>4, <1>5 DEF Timers
      <2>2. u.due \in Nat /\ u.seq \in Nat /\ t.due \in Nat /\ t.seq \in Nat
            BY <1>1
      <2> QED BY <1>4, <2>1, <2>2 DEF Clock!Before
<1>6. Clock!First \in timers /\ \A u \in timers \ {Clock!First} : Clock!Before(Clock!First, u)
      BY <1>5 DEF Clock!First
<1>7. \A u \in timers : Clock!First.due <= u.due
      BY <1>1, <1>6 DEF Clock!Before
<1> QED BY <1>6, <1>7

\* The driver's fields.
LEMMA DriverFacts ==
    ASSUME ClockTypes
    PROVE  /\ driver.step \in Steps /\ driver.goal \in Nat /\ driver.next \in Steps
           /\ driver.timer \in TimerRecords \cup {Clock!NoTimer}
           /\ Clock!Quiet \in [step : Steps, goal : Nat, timer : TimerRecords \cup {Clock!NoTimer}, next : Steps]
BY DEF ClockTypes, Clock!Quiet, Steps

\* A timer is armed.
LEMMA ScheduleFacts ==
    ASSUME ClockTypes, Timers, NEW o \in Instances, NEW d \in Nat, NEW v \in Nat,
           Clock!Schedule(o, d, v), UNCHANGED <<now, driver>>
    PROVE  timers' \subseteq TimerRecords /\ seq' \in Nat /\ Timers'
<1>1. PICK t : t = [due |-> now + d, seq |-> seq, interval |-> v, owner |-> o]
      OBVIOUS
<1>2. now \in Nat /\ seq \in Nat /\ seq' = seq + 1 /\ timers' = timers \cup {t}
      BY <1>1 DEF ClockTypes, Clock!Schedule
<1>3. t \in TimerRecords /\ t.due = now + d /\ t.seq = seq
      BY <1>1, <1>2 DEF TimerRecords
<1>4. \A u \in timers : u.seq \in Nat /\ u.seq < seq /\ u.due >= now
      BY DEF ClockTypes, TimerRecords, Timers
<1>5. \A u \in timers' : u.due >= now /\ u.seq < seq'
      BY <1>2, <1>3, <1>4
<1>6. \A u, w \in timers' : u.seq = w.seq => u = w
      BY <1>2, <1>3, <1>4 DEF Timers
<1>7. timers' \subseteq TimerRecords /\ seq' \in Nat
      <2>1. timers \subseteq TimerRecords
            BY DEF ClockTypes
      <2> QED BY <1>2, <1>3, <2>1
<1> QED BY <1>5, <1>6, <1>7 DEF Timers
-----------------------------------------------------------------------------
(* Steps *)

\* What a step leaves alone.
LEMMA QuietTimers ==
    ASSUME Timers, UNCHANGED <<now, timers, seq, driver>>
    PROVE  Timers'
BY DEF Timers

LEMMA QuietMoves ==
    ASSUME OneMoves, UNCHANGED <<now, life, seed>>, driver.step = "none" => driver'.step = "none"
    PROVE  OneMoves'
BY DEF OneMoves, Clock!Moving

LEMMA QuietOverridden ==
    ASSUME Overridden, UNCHANGED <<now, life, declared, pool, overridden, clockRow>>,
           driver'.step # "push" => driver.step # "push"
    PROVE  Overridden'
BY DEF Overridden, Clock!Targets

\* A statement starts on an instance that is up.
LEMMA StartFacts ==
    ASSUME ClockInv, NEW i \in Instances, life[i] = "up", Clock!StartStatement(i)
    PROVE  /\ inFlight' \in [Instances -> Nat] /\ pass' \in [Instances -> Passes]
           /\ \A j \in Instances : life[j] # "up" => inFlight'[j] = 0
           /\ \A j \in Instances : j # i => inFlight'[j] = inFlight[j]
           /\ \A j \in Instances : pass[j] \in {"waited", "was busy"} => pass'[j] \in {"waited", "was busy"}
<1>1. /\ inFlight' = [inFlight EXCEPT ![i] = @ + 1]
      /\ pass' = [pass EXCEPT ![i] = IF @ = "checking" THEN "waited" ELSE @]
      BY DEF Clock!StartStatement
<1>2. inFlight \in [Instances -> Nat] /\ pass \in [Instances -> Passes]
      BY DEF ClockInv, ClockTypes
<1>3. inFlight' \in [Instances -> Nat] /\ pass' \in [Instances -> Passes]
      <2>1. inFlight' \in [Instances -> Nat]
            BY <1>1, <1>2
      <2>2. pass' \in [Instances -> Passes]
            BY <1>1, <1>2 DEF Passes
      <2> QED BY <2>1, <2>2
<1> QED BY <1>1, <1>2, <1>3 DEF ClockInv, Quiescence

\* The test makes a call.
LEMMA TestCallsKeeps ==
    ASSUME ClockInv, NEW i \in Instances, Clock!TestCalls(i)
    PROVE  ClockInv'
<1>1. /\ life[i] = "up" /\ driver.step = "none" /\ Clock!StartStatement(i)
      /\ UNCHANGED <<now, timers, seq, driver, life, seed, declared, pool, overridden, clockRow>>
      BY DEF Clock!TestCalls, Clock!clockVars, Clock!dbVars
<1>2. /\ inFlight' \in [Instances -> Nat] /\ pass' \in [Instances -> Passes]
      /\ \A j \in Instances : life[j] # "up" => inFlight'[j] = 0
      BY <1>1, StartFacts
<1>3. ClockTypes'
      BY <1>1, <1>2 DEF ClockInv, ClockTypes
<1>4. Quiescence'
      BY <1>1, <1>2 DEF Quiescence, Settled
<1> QED BY <1>1, <1>3, <1>4, QuietTimers, QuietMoves, QuietOverridden DEF ClockInv

\* A statement ends.
LEMMA StatementEndsKeeps ==
    ASSUME ClockInv, NEW i \in Instances, Clock!StatementEnds(i)
    PROVE  ClockInv'
<1>1. inFlight[i] > 0 /\ UNCHANGED <<now, driver, life, seed, declared, pool, overridden, clockRow>>
      BY DEF Clock!StatementEnds, Clock!dbVars
<1>2. inFlight \in [Instances -> Nat] /\ pass \in [Instances -> Passes] /\ ClockTypes /\ Timers
      BY DEF ClockInv, ClockTypes
<1>3. ~Settled /\ life[i] = "up"
      <2>1. inFlight[i] # 0
            BY <1>1, <1>2
      <2> QED BY <2>1 DEF ClockInv, Quiescence
<1>4. /\ timers' \subseteq TimerRecords /\ seq' \in Nat /\ Timers'
      /\ inFlight' \in [Instances -> Nat] /\ pass' \in [Instances -> Passes]
      /\ \A j \in Instances : life[j] # "up" => inFlight'[j] = 0
      /\ \A j \in Instances : pass[j] \in {"waited", "was busy"} => pass'[j] \in {"waited", "was busy"}
      <2>1. CASE /\ inFlight' = [inFlight EXCEPT ![i] = @ - 1]
                 /\ UNCHANGED <<timers, seq, pass>>
            <3>1. inFlight[i] - 1 \in Nat
                  BY <1>1, <1>2
            <3>2. inFlight' \in [Instances -> Nat]
                  BY <2>1, <1>2, <3>1
            <3>3. \A j \in Instances : life[j] # "up" => inFlight'[j] = 0
                  BY <1>3, <2>1 DEF ClockInv, Quiescence, ClockTypes
            <3> QED BY <1>1, <1>2, <2>1, <3>2, <3>3, QuietTimers DEF ClockTypes
      <2>2. CASE /\ inFlight' = [inFlight EXCEPT ![i] = @ - 1]
                 /\ \E d \in Delays : Clock!Schedule(i, d, 0)
                 /\ UNCHANGED pass
            <3>1. inFlight[i] - 1 \in Nat
                  BY <1>1, <1>2
            <3>2. inFlight' \in [Instances -> Nat]
                  BY <2>2, <1>2, <3>1
            <3>3. \A j \in Instances : life[j] # "up" => inFlight'[j] = 0
                  BY <1>3, <2>2 DEF ClockInv, Quiescence, ClockTypes
            <3>4. PICK d \in Delays : Clock!Schedule(i, d, 0)
                  BY <2>2
            <3>5. d \in Nat /\ 0 \in Nat
                  BY DelayFacts
            <3>6. timers' \subseteq TimerRecords /\ seq' \in Nat /\ Timers'
                  BY <1>1, <1>2, <3>4, <3>5, ScheduleFacts
            <3> QED BY <1>2, <2>2, <3>2, <3>3, <3>6
      <2>3. ASSUME NEW k \in Clock!Targets \ {i},
                   inFlight[k] = 0,
                   inFlight' = [inFlight EXCEPT ![i] = @ - 1, ![k] = @ + 1],
                   pass' = [pass EXCEPT ![k] = IF @ = "checking" THEN "waited" ELSE @],
                   UNCHANGED <<timers, seq>>
            PROVE  /\ timers' \subseteq TimerRecords /\ seq' \in Nat /\ Timers'
                   /\ inFlight' \in [Instances -> Nat] /\ pass' \in [Instances -> Passes]
                   /\ \A j \in Instances : life[j] # "up" => inFlight'[j] = 0
                   /\ \A j \in Instances : pass[j] \in {"waited", "was busy"} => pass'[j] \in {"waited", "was busy"}
            <3>1. k \in Instances /\ life[k] = "up" /\ k # i
                  BY <2>3 DEF Clock!Targets
            <3>2. \A j \in Instances : inFlight'[j] = IF j = i THEN inFlight[i] - 1 ELSE IF j = k THEN inFlight[k] + 1 ELSE inFlight[j]
                  BY <1>2, <2>3, <3>1
            <3>3. DOMAIN inFlight' = Instances /\ inFlight' = [j \in Instances |-> inFlight'[j]]
                  BY <1>2, <2>3
            <3>4. \A j \in Instances : inFlight'[j] \in Nat
                  BY <1>1, <1>2, <3>2
            <3>5. inFlight' \in [Instances -> Nat]
                  BY <3>3, <3>4
            <3>6. \A j \in Instances : life[j] # "up" => inFlight'[j] = 0
                  BY <1>3, <3>1, <3>2 DEF ClockInv, Quiescence
            <3>7. /\ pass' \in [Instances -> Passes]
                  /\ \A j \in Instances : pass[j] \in {"waited", "was busy"} => pass'[j] \in {"waited", "was busy"}
                  BY <1>2, <2>3, <3>1 DEF Passes
            <3> QED BY <1>1, <1>2, <2>3, <3>5, <3>6, <3>7, QuietTimers DEF ClockTypes
      <2> QED BY <2>1, <2>2, <2>3 DEF Clock!StatementEnds
<1>5. ClockTypes'
      BY <1>1, <1>2, <1>4 DEF ClockTypes
<1>6. Quiescence'
      <2>1. driver.step = "idle" => \E j \in Instances : pass[j] \in {"waited", "was busy"}
            BY <1>1 DEF ClockInv, Quiescence
      <2>2. driver'.step = "idle" => \E j \in Instances : pass'[j] \in {"waited", "was busy"}
            BY <1>1, <1>4, <2>1
      <2>3. ~Settled'
            BY <1>1, <1>3 DEF Settled
      <2>4. /\ driver'.step \in {"pass", "idle"} => driver'.next \in {"aim", "jump", "loop"}
            /\ driver'.step = "push" => driver'.next \in {"none", "fire", "settle"}
            BY <1>1 DEF ClockInv, Quiescence
      <2> QED BY <1>1, <1>4, <2>2, <2>3, <2>4 DEF Quiescence
<1> QED BY <1>1, <1>4, <1>5, <1>6, QuietMoves, QuietOverridden DEF ClockInv

\* A connection is opened.
LEMMA ConnectKeeps ==
    ASSUME ClockInv, NEW i \in Instances, Clock!Connect(i)
    PROVE  ClockInv'
<1>1. /\ UNCHANGED <<now, timers, seq, driver, pass, inFlight, life, seed, declared, overridden, clockRow>>
      /\ pool' = [pool EXCEPT ![i] = @ \cup {IF declared[i] THEN "opted in" ELSE "plain"}]
      BY DEF Clock!Connect, Clock!clockVars, Clock!dbVars
<1>2. ClockTypes'
      BY <1>1 DEF ClockInv, ClockTypes
<1>3. Quiescence'
      BY <1>1 DEF ClockInv, Quiescence, Settled
<1>4. Overridden'
      <2>1. \A j \in Instances : life[j] \in {"attaching", "up"} => declared[j] /\ pool'[j] \subseteq {"opted in"}
            BY <1>1 DEF ClockInv, ClockTypes, Overridden
      <2> QED BY <1>1, <2>1 DEF ClockInv, Overridden, Clock!Targets
<1> QED BY <1>1, <1>2, <1>3, <1>4, QuietTimers, QuietMoves DEF ClockInv

\* The driver goes to another step of its call.
LEMMA DriverStep ==
    ASSUME ClockTypes, NEW s \in Steps, NEW n \in Steps, NEW g \in Nat, NEW t \in TimerRecords \cup {Clock!NoTimer},
           driver' = [driver EXCEPT !.step = s, !.goal = g, !.timer = t, !.next = n]
    PROVE  /\ driver' \in [step : Steps, goal : Nat, timer : TimerRecords \cup {Clock!NoTimer}, next : Steps]
           /\ driver'.step = s /\ driver'.goal = g /\ driver'.timer = t /\ driver'.next = n
BY DEF ClockTypes

\* A pass of #settle begins, an idle() returns, a pass ends.
LEMMA PassKeeps ==
    ASSUME ClockInv, Clock!BeginPass \/ Clock!EndPass \/ \E i \in Instances : Clock!IdleReturns(i)
    PROVE  ClockInv'
<1>1. UNCHANGED <<now, timers, seq, inFlight, life, seed, declared, pool, overridden, clockRow>>
      BY DEF Clock!BeginPass, Clock!EndPass, Clock!IdleReturns, Clock!clockVars, Clock!instanceVars, Clock!dbVars
<1>2. /\ driver.step \in Steps /\ driver.goal \in Nat /\ driver.next \in Steps
      /\ driver.timer \in TimerRecords \cup {Clock!NoTimer}
      /\ {"pass", "idle"} \subseteq Steps /\ ClockTypes
      BY DriverFacts DEF ClockInv, Steps
<1>3. /\ driver.step \in {"pass", "idle"}
      /\ pass' \in [Instances -> Passes]
      /\ driver' \in [step : Steps, goal : Nat, timer : TimerRecords \cup {Clock!NoTimer}, next : Steps]
      /\ driver'.next = driver.next
      /\ \/ driver'.step = "pass"
         \/ driver'.step = driver.next /\ \A i \in Instances : inFlight[i] = 0
         \/ /\ driver'.step = "idle"
            /\ (\E i \in Instances : inFlight[i] > 0) => \E j \in Instances : pass'[j] \in {"waited", "was busy"}
      <2>1. CASE Clock!BeginPass
            <3>1. /\ driver.step = "pass" /\ driver' = [driver EXCEPT !.step = "idle"]
                  /\ pass' = [i \in Instances |->
                        IF i \notin Clock!Targets THEN "out" ELSE IF inFlight[i] > 0 THEN "waited" ELSE "checking"]
                  BY <2>1 DEF Clock!BeginPass
            <3>2. pass' \in [Instances -> Passes]
                  BY <3>1 DEF Passes
            <3>3. driver' \in [step : Steps, goal : Nat, timer : TimerRecords \cup {Clock!NoTimer}, next : Steps]
                  /\ driver'.next = driver.next /\ driver'.step = "idle"
                  BY <1>2, <3>1 DEF ClockTypes
            <3>4. \A i \in Instances : inFlight[i] > 0 => pass'[i] = "waited"
                  BY <3>1 DEF ClockInv, Quiescence, Clock!Targets
            <3> QED BY <3>1, <3>2, <3>3, <3>4
      <2>2. CASE Clock!EndPass
            <3>1. /\ driver.step = "idle" /\ \A i \in Instances : pass[i] \notin {"checking", "waited"}
                  /\ driver' = [driver EXCEPT !.step = IF Clock!PassAgain THEN "pass" ELSE driver.next]
                  /\ pass' = [i \in Instances |-> "out"]
                  BY <2>2 DEF Clock!EndPass
            <3>2. pass' \in [Instances -> Passes]
                  BY <3>1 DEF Passes
            <3>3. driver' \in [step : Steps, goal : Nat, timer : TimerRecords \cup {Clock!NoTimer}, next : Steps]
                  /\ driver'.next = driver.next /\ driver'.step = IF Clock!PassAgain THEN "pass" ELSE driver.next
                  BY <1>2, <3>1 DEF ClockTypes
            <3>4. ~Clock!PassAgain => \A i \in Instances : inFlight[i] = 0
                  <4> SUFFICES ASSUME ~Clock!PassAgain, NEW i \in Instances, inFlight[i] # 0 PROVE FALSE
                      OBVIOUS
                  <4>1. inFlight[i] > 0
                        <5>1. inFlight[i] \in Nat
                              BY DEF ClockInv, ClockTypes
                        <5> QED BY <5>1
                  <4>2. \E j \in Instances : pass[j] \in {"waited", "was busy"}
                        BY <3>1, <4>1 DEF ClockInv, Quiescence
                  <4> QED BY <3>1, <4>2 DEF Clock!PassAgain
            <3> QED BY <3>1, <3>2, <3>3, <3>4
      <2>3. ASSUME NEW i \in Instances, Clock!IdleReturns(i)
            PROVE  /\ driver.step = "idle" /\ UNCHANGED driver
                   /\ pass' \in [Instances -> Passes]
                   /\ (\E k \in Instances : inFlight[k] > 0) => \E j \in Instances : pass'[j] \in {"waited", "was busy"}
            <3>1. /\ driver.step = "idle" /\ UNCHANGED driver
                  /\ pass' = [pass EXCEPT ![i] = IF @ = "waited" THEN "was busy" ELSE "was quiet"]
                  /\ pass[i] \in {"checking", "waited"}
                  BY <2>3 DEF Clock!IdleReturns, Clock!clockVars
            <3>2. pass \in [Instances -> Passes]
                  BY DEF ClockInv, ClockTypes
            <3>3. pass' \in [Instances -> Passes]
                  BY <3>1, <3>2 DEF Passes
            <3>4. \A j \in Instances : pass[j] \in {"waited", "was busy"} => pass'[j] \in {"waited", "was busy"}
                  BY <3>1, <3>2
            <3> QED BY <3>1, <3>3, <3>4 DEF ClockInv, Quiescence
      <2>4. CASE \E i \in Instances : Clock!IdleReturns(i)
            BY <1>2, <2>3, <2>4 DEF ClockTypes
      <2> QED BY <2>1, <2>2, <2>4
<1>4. driver.next \in {"aim", "jump", "loop"}
      BY <1>3 DEF ClockInv, Quiescence
<1>5. ClockTypes'
      BY <1>1, <1>2, <1>3 DEF ClockTypes
<1>6. Quiescence'
      BY <1>1, <1>3, <1>4 DEF ClockInv, Quiescence, Settled
<1>7. Timers'
      BY <1>1, <1>3, <1>4 DEF ClockInv, Timers
<1>8. OneMoves' /\ Overridden'
      BY <1>1, <1>3, <1>4, QuietMoves, QuietOverridden DEF ClockInv
<1> QED BY <1>5, <1>6, <1>7, <1>8 DEF ClockInv

\* A call begins with a settle.
LEMMA EnterKeeps ==
    ASSUME ~Overlap, ClockInv, NEW x \in Nat, Clock!Tick(x) \/ Clock!SetTime(x)
    PROVE  ClockInv'
<1>1. /\ UNCHANGED <<now, timers, seq, pass, inFlight, life, seed, declared, pool, overridden, clockRow>>
      /\ driver.step = "none" /\ ~Clock!Moving
      BY DEF Clock!Tick, Clock!SetTime, Clock!Enter, Clock!instanceVars, Clock!dbVars
<1>2. /\ driver' \in [step : Steps, goal : Nat, timer : TimerRecords \cup {Clock!NoTimer}, next : Steps]
      /\ driver'.step = "pass" /\ driver'.next \in {"aim", "jump"}
      <2>1. ClockTypes /\ {"pass", "aim", "jump"} \subseteq Steps
            BY DEF ClockInv, Steps
      <2>2. CASE Clock!Tick(x)
            BY <2>1, <2>2 DEF Clock!Tick, ClockTypes
      <2>3. CASE Clock!SetTime(x)
            BY <2>1, <2>3 DEF Clock!SetTime, ClockTypes
      <2> QED BY <2>2, <2>3
<1>3. ClockTypes'
      BY <1>1, <1>2 DEF ClockInv, ClockTypes
<1>4. Quiescence'
      BY <1>1, <1>2 DEF ClockInv, Quiescence, Settled
<1>5. Timers'
      BY <1>1, <1>2 DEF ClockInv, Timers
<1>6. OneMoves'
      BY <1>1 DEF ClockInv, OneMoves, Clock!Moving
<1>7. Overridden'
      BY <1>1, <1>2, QuietOverridden DEF ClockInv
<1> QED BY <1>3, <1>4, <1>5, <1>6, <1>7 DEF ClockInv

\* Between two settles: the target, the landing.
LEMMA AimKeeps ==
    ASSUME ClockInv, Clock!Aim \/ Clock!LandSettles
    PROVE  ClockInv'
<1>1. /\ UNCHANGED <<now, timers, seq, pass, inFlight, life, seed, declared, pool, overridden, clockRow>>
      /\ driver.step \in {"aim", "settle"}
      BY DEF Clock!Aim, Clock!LandSettles, Clock!instanceVars, Clock!dbVars
<1>2. /\ driver' \in [step : Steps, goal : Nat, timer : TimerRecords \cup {Clock!NoTimer}, next : Steps]
      /\ driver'.step = "loop" \/ (driver'.step = "pass" /\ driver'.next = "loop")
      <2>1. ClockTypes /\ {"pass", "loop"} \subseteq Steps /\ now \in Nat /\ driver.goal \in Nat
            BY DriverFacts DEF ClockInv, ClockTypes, Steps
      <2>2. CASE Clock!Aim
            <3>1. now + driver.goal \in Nat
                  BY <2>1
            <3> QED BY <2>1, <2>2, <3>1 DEF Clock!Aim, ClockTypes
      <2>3. CASE Clock!LandSettles
            BY <2>1, <2>3 DEF Clock!LandSettles, Clock!Settle, ClockTypes
      <2> QED BY <2>2, <2>3
<1>3. ClockTypes'
      BY <1>1, <1>2 DEF ClockInv, ClockTypes
<1>4. Quiescence'
      BY <1>1, <1>2 DEF ClockInv, Quiescence, Settled
<1>5. Timers'
      BY <1>1, <1>2 DEF ClockInv, Timers
<1>6. OneMoves'
      BY <1>1 DEF ClockInv, OneMoves, Clock!Moving
<1>7. Overridden'
      BY <1>1, <1>2, QuietOverridden DEF ClockInv
<1> QED BY <1>3, <1>4, <1>5, <1>6, <1>7 DEF ClockInv

\* While the clock moves nothing else does.
LEMMA MoveFacts ==
    ASSUME ClockInv, Settled, Settled', UNCHANGED <<pass, inFlight, life, seed, declared, pool, overridden, clockRow>>,
           driver'.step = "push" => driver'.next \in {"none", "fire", "settle"},
           driver'.step # "push" => driver.step # "push" /\ now' = now
    PROVE  Quiescence' /\ OneMoves' /\ Overridden'
<1>1. driver.step # "none" /\ driver'.step \notin {"pass", "idle", "none"}
      BY DEF Settled
<1>2. Quiescence'
      BY <1>1 DEF ClockInv, Quiescence, Settled
<1>3. OneMoves'
      BY <1>1 DEF ClockInv, OneMoves, Clock!Moving
<1>4. Overridden'
      BY DEF ClockInv, Overridden, Clock!Targets
<1> QED BY <1>2, <1>3, <1>4

\* setTime() jumps.
LEMMA JumpKeeps ==
    ASSUME ClockInv, Clock!Jump
    PROVE  ClockInv'
<1>1. /\ UNCHANGED <<seq, pass, inFlight, life, seed, declared, pool, overridden, clockRow>>
      /\ driver.step = "jump" /\ now' = driver.goal /\ timers' = Clock!Overtaken(driver.goal)
      /\ driver' = [driver EXCEPT !.step = "push", !.next = "none"]
      BY DEF Clock!Jump, Clock!instanceVars, Clock!dbVars
<1>2. ClockTypes /\ driver.goal \in Nat /\ {"push", "none"} \subseteq Steps
      BY DriverFacts DEF ClockInv, Steps
<1>3. /\ driver' \in [step : Steps, goal : Nat, timer : TimerRecords \cup {Clock!NoTimer}, next : Steps]
      /\ driver'.step = "push" /\ driver'.next = "none"
      BY <1>1, <1>2 DEF ClockTypes
<1>4. \A t \in timers' : \E u \in timers :
          /\ t.seq = u.seq /\ t.due >= driver.goal /\ t \in TimerRecords
          /\ t = IF u.due < driver.goal THEN [u EXCEPT !.due = driver.goal] ELSE u
      <2> SUFFICES ASSUME NEW u \in timers, NEW t, t = IF u.due < driver.goal THEN [u EXCEPT !.due = driver.goal] ELSE u
                   PROVE  t.seq = u.seq /\ t.due >= driver.goal /\ t \in TimerRecords
          BY <1>1 DEF Clock!Overtaken
      <2>1. u \in TimerRecords
            BY <1>2 DEF ClockTypes
      <2> QED BY <1>2, <2>1 DEF TimerRecords
<1>5. timers' \subseteq TimerRecords
      BY <1>4
<1>6. ClockTypes'
      BY <1>1, <1>2, <1>3, <1>5 DEF ClockTypes
<1>7. Timers'
      <2>1. \A t, u \in timers' : t.seq = u.seq => t = u
            <3> SUFFICES ASSUME NEW t \in timers', NEW u \in timers', t.seq = u.seq PROVE t = u
                OBVIOUS
            <3>1. PICK x \in timers : /\ t.seq = x.seq
                                      /\ t = IF x.due < driver.goal THEN [x EXCEPT !.due = driver.goal] ELSE x
                  BY <1>4
            <3>2. PICK y \in timers : /\ u.seq = y.seq
                                      /\ u = IF y.due < driver.goal THEN [y EXCEPT !.due = driver.goal] ELSE y
                  BY <1>4
            <3>3. x = y
                  BY <3>1, <3>2 DEF ClockInv, Timers
            <3> QED BY <3>1, <3>2, <3>3
      <2>2. \A t \in timers' : t.due >= now' /\ t.seq < seq'
            BY <1>1, <1>4 DEF ClockInv, Timers
      <2> QED BY <1>3, <2>1, <2>2 DEF Timers
<1>8. Quiescence' /\ OneMoves' /\ Overridden'
      BY <1>1, <1>3, MoveFacts DEF Settled
<1> QED BY <1>6, <1>7, <1>8 DEF ClockInv

\* The next timer is taken off the list.
LEMMA TakeTimerKeeps ==
    ASSUME ClockInv, Clock!TakeTimer
    PROVE  ClockInv'
<1>1. /\ UNCHANGED <<seq, pass, inFlight, life, seed, declared, pool, overridden, clockRow>>
      /\ driver.step = "loop" /\ timers # {} /\ timers' = timers \ {Clock!First}
      /\ now' = Clock!Max({now, Clock!First.due})
      /\ driver' = [driver EXCEPT !.step = IF Clock!First.due > now THEN "push" ELSE "fire", !.timer = Clock!First, !.next = "fire"]
      BY DEF Clock!TakeTimer, Clock!instanceVars, Clock!dbVars
<1>2. ClockTypes /\ Timers /\ now \in Nat /\ {"push", "fire"} \subseteq Steps
      BY DEF ClockInv, ClockTypes, Steps
<1>3. Clock!First \in timers /\ Clock!First \in TimerRecords /\ \A u \in timers : Clock!First.due <= u.due
      BY <1>1, <1>2, FirstFacts DEF ClockTypes
<1>4. Clock!First.due >= now /\ Clock!First.due \in Nat
      BY <1>2, <1>3 DEF Timers, TimerRecords
<1>5. now' = Clock!First.due
      <2>1. \A x \in {now, Clock!First.due} : Clock!First.due >= x
            BY <1>2, <1>4
      <2>2. \A m \in {now, Clock!First.due} : (\A x \in {now, Clock!First.due} : m >= x) => m = Clock!First.due
            BY <1>2, <1>4
      <2> QED BY <1>1, <2>1, <2>2 DEF Clock!Max
<1>6. /\ driver' \in [step : Steps, goal : Nat, timer : TimerRecords \cup {Clock!NoTimer}, next : Steps]
      /\ driver'.timer = Clock!First /\ driver'.next = "fire"
      /\ \/ driver'.step = "push"
         \/ driver'.step = "fire" /\ now' = now
      <2>1. PICK s \in {"push", "fire"} : s = (IF Clock!First.due > now THEN "push" ELSE "fire") /\ s \in Steps
            BY <1>2
      <2>2. driver' = [driver EXCEPT !.step = s, !.timer = Clock!First, !.next = "fire"]
            BY <1>1, <2>1
      <2>3. s = "fire" => now' = now
            BY <1>2, <1>4, <1>5, <2>1
      <2> QED BY <1>2, <1>3, <2>1, <2>2, <2>3 DEF ClockTypes
<1>7. ClockTypes'
      BY <1>1, <1>2, <1>4, <1>5, <1>6 DEF ClockTypes
<1>8. Timers'
      <2>1. \A t \in timers : t.due \in Nat
            BY <1>2 DEF ClockTypes, TimerRecords
      <2> QED BY <1>1, <1>2, <1>3, <1>4, <1>5, <1>6, <2>1 DEF Timers
<1>9. Quiescence' /\ OneMoves' /\ Overridden'
      BY <1>1, <1>6, MoveFacts DEF Settled
<1> QED BY <1>7, <1>8, <1>9 DEF ClockInv

\* The targets' rows are written.
LEMMA PushKeeps ==
    ASSUME ClockInv, Clock!Push
    PROVE  ClockInv'
<1>1. /\ UNCHANGED <<now, timers, seq, pass, inFlight, life, seed, declared, pool, overridden>>
      /\ driver.step = "push" /\ driver' = [driver EXCEPT !.step = driver.next]
      /\ clockRow' = IF Clock!Targets # {} /\ clockRow # Clock!NoRow THEN now ELSE clockRow
      BY DEF Clock!Push, Clock!instanceVars
<1>2. ClockTypes /\ driver.next \in Steps /\ driver.next \in {"none", "fire", "settle"}
      BY <1>1, DriverFacts DEF ClockInv, Quiescence
<1>3. /\ driver' \in [step : Steps, goal : Nat, timer : TimerRecords \cup {Clock!NoTimer}, next : Steps]
      /\ driver'.step = driver.next /\ driver'.timer = driver.timer /\ driver'.next = driver.next
      BY <1>1, <1>2 DEF ClockTypes
<1>4. ClockTypes'
      BY <1>1, <1>2, <1>3 DEF ClockTypes
<1>5. Timers'
      BY <1>1, <1>2, <1>3 DEF ClockInv, Timers
<1>6. Quiescence'
      BY <1>1, <1>2, <1>3 DEF ClockInv, Quiescence, Settled
<1>7. OneMoves'
      BY <1>1 DEF ClockInv, OneMoves, Clock!Moving
<1>8. Overridden'
      <2>1. Clock!Targets # {} => clockRow # Clock!NoRow /\ clockRow' = now /\ now \in Nat
            <3>1. Clock!NoRow \notin Nat
                  BY DEF Clock!NoRow
            <3> QED BY <1>1, <3>1 DEF ClockInv, ClockTypes, Overridden
      <2> QED BY <1>1, <1>2, <1>3, <2>1 DEF ClockInv, Overridden, Clock!Targets
<1> QED BY <1>4, <1>5, <1>6, <1>7, <1>8 DEF ClockInv

\* A timer fires.
LEMMA FireKeeps ==
    ASSUME ClockInv, Clock!Fire
    PROVE  ClockInv'
<1>1. /\ UNCHANGED <<now, life, seed, declared, pool, overridden, clockRow>>
      /\ driver.step = "fire"
      /\ driver' = [driver EXCEPT !.step = "pass", !.next = "loop", !.timer = Clock!NoTimer]
      BY DEF Clock!Fire, Clock!dbVars
<1>2. ClockTypes /\ Timers /\ {"pass", "loop"} \subseteq Steps
      BY DEF ClockInv, Steps
<1>3. PICK t \in TimerRecords : t = driver.timer /\ t.due >= now
      BY <1>1, <1>2 DEF Timers
<1>4. /\ t.due \in Nat /\ t.seq \in Nat /\ t.interval \in Nat /\ t.owner \in Instances /\ seq \in Nat /\ now \in Nat
      BY <1>2 DEF TimerRecords, ClockTypes
<1>5. IF t.interval # 0
      THEN timers' = timers \cup {[t EXCEPT !.due = @ + t.interval, !.seq = seq]} /\ seq' = seq + 1
      ELSE UNCHANGED <<timers, seq>>
      BY <1>3 DEF Clock!Fire
<1>6. /\ driver' \in [step : Steps, goal : Nat, timer : TimerRecords \cup {Clock!NoTimer}, next : Steps]
      /\ driver'.step = "pass" /\ driver'.next = "loop"
      BY <1>1, <1>2 DEF ClockTypes
<1>7. timers' \subseteq TimerRecords /\ seq' \in Nat /\ Timers'
      <2>1. CASE t.interval # 0
            <3>1. PICK u : u = [t EXCEPT !.due = @ + t.interval, !.seq = seq]
                  OBVIOUS
            <3>2. u \in TimerRecords /\ u.due = t.due + t.interval /\ u.seq = seq
                  <4>1. PICK d \in Nat : d = t.due + t.interval
                        BY <1>4
                  <4>2. u = [t EXCEPT !.due = d, !.seq = seq] /\ t \in TimerRecords
                        BY <3>1, <4>1
                  <4>3. u \in TimerRecords /\ u.due = d /\ u.seq = seq
                        BY <1>4, <4>2 DEF TimerRecords
                  <4> QED BY <4>1, <4>3
            <3>3. timers' = timers \cup {u} /\ seq' = seq + 1 /\ timers \subseteq TimerRecords
                  BY <1>2, <1>5, <2>1, <3>1 DEF ClockTypes
            <3>4. \A w \in timers : w.seq \in Nat /\ w.seq < seq /\ w.due >= now
                  BY <1>2, <3>3 DEF TimerRecords, Timers
            <3>5. u.due >= now
                  BY <1>3, <1>4, <3>2
            <3>6. timers' \subseteq TimerRecords /\ seq' \in Nat
                  BY <1>4, <3>2, <3>3
            <3>7. \A w \in timers' : w.due >= now' /\ w.seq < seq'
                  BY <1>1, <1>4, <3>2, <3>3, <3>4, <3>5
            <3>8. \A w, x \in timers' : w.seq = x.seq => w = x
                  BY <1>2, <1>4, <3>2, <3>3, <3>4 DEF Timers
            <3> QED BY <1>6, <3>6, <3>7, <3>8 DEF Timers
      <2>2. CASE t.interval = 0
            <3>1. UNCHANGED <<timers, seq, now>>
                  BY <1>1, <1>5, <2>2
            <3>2. timers \subseteq TimerRecords /\ seq \in Nat
                  BY <1>2 DEF ClockTypes
            <3>3. Timers'
                  BY <1>2, <1>6, <3>1 DEF Timers
            <3> QED BY <3>1, <3>2, <3>3
      <2> QED BY <2>1, <2>2
<1>8. /\ inFlight' \in [Instances -> Nat] /\ pass' \in [Instances -> Passes]
      /\ \A j \in Instances : life[j] # "up" => inFlight'[j] = 0
      <2>1. CASE life[t.owner] = "up"
            <3>1. Clock!StartStatement(t.owner)
                  BY <1>3, <2>1 DEF Clock!Fire
            <3> QED BY <1>4, <2>1, <3>1, StartFacts
      <2>2. CASE life[t.owner] # "up"
            <3>1. UNCHANGED <<inFlight, pass>>
                  BY <1>3, <2>2 DEF Clock!Fire
            <3> QED BY <1>2, <3>1 DEF ClockInv, ClockTypes, Quiescence
      <2> QED BY <2>1, <2>2
<1>9. ClockTypes'
      BY <1>1, <1>2, <1>6, <1>7, <1>8 DEF ClockTypes
<1>10. Quiescence'
      BY <1>1, <1>6, <1>8 DEF Quiescence, Settled
<1>11. OneMoves'
      BY <1>1 DEF ClockInv, OneMoves, Clock!Moving
<1>12. Overridden'
      BY <1>1, <1>6, QuietOverridden DEF ClockInv
<1> QED BY <1>7, <1>9, <1>10, <1>11, <1>12 DEF ClockInv

\* A tick arrives.
LEMMA LandKeeps ==
    ASSUME ClockInv, Clock!Land
    PROVE  ClockInv'
<1>1. /\ UNCHANGED <<timers, seq, pass, inFlight, life, seed, declared, pool, overridden, clockRow>>
      /\ driver.step = "loop" /\ \A t \in timers : t.due > driver.goal
      BY DEF Clock!Land, Clock!instanceVars, Clock!dbVars
<1>2. ClockTypes /\ driver.goal \in Nat /\ now \in Nat /\ {"push", "settle", "none"} \subseteq Steps
      BY DriverFacts DEF ClockInv, ClockTypes, Steps
<1>3. CASE now < driver.goal
      <2>1. now' = driver.goal /\ driver' = [driver EXCEPT !.step = "push", !.next = "settle"]
            BY <1>3 DEF Clock!Land
      <2>2. /\ driver' \in [step : Steps, goal : Nat, timer : TimerRecords \cup {Clock!NoTimer}, next : Steps]
            /\ driver'.step = "push" /\ driver'.next = "settle"
            BY <1>2, <2>1 DEF ClockTypes
      <2>3. ClockTypes'
            BY <1>1, <1>2, <2>1, <2>2 DEF ClockTypes
      <2>4. \A t \in timers : t.due >= driver.goal
            <3>1. \A t \in timers : t.due \in Nat
                  BY <1>2 DEF ClockTypes, TimerRecords
            <3> QED BY <1>1, <1>2, <3>1
      <2>5. Timers'
            BY <1>1, <2>1, <2>2, <2>4 DEF ClockInv, Timers
      <2>6. Quiescence' /\ OneMoves' /\ Overridden'
            BY <1>1, <2>2, MoveFacts DEF Settled
      <2> QED BY <2>3, <2>5, <2>6 DEF ClockInv
<1>4. CASE ~(now < driver.goal)
      <2>1. driver' = Clock!Quiet /\ UNCHANGED now
            BY <1>4 DEF Clock!Land
      <2>2. /\ driver' \in [step : Steps, goal : Nat, timer : TimerRecords \cup {Clock!NoTimer}, next : Steps]
            /\ driver'.step = "none"
            BY <1>2, <2>1, DriverFacts DEF Clock!Quiet
      <2>3. ClockTypes'
            BY <1>1, <1>2, <2>1, <2>2 DEF ClockTypes
      <2>4. Timers'
            BY <1>1, <2>1, <2>2 DEF ClockInv, Timers
      <2>5. Quiescence'
            BY <1>1, <2>2 DEF ClockInv, Quiescence, Settled
      <2>6. OneMoves'
            BY <1>1, <2>1, <2>2, QuietMoves DEF ClockInv
      <2>7. Overridden'
            BY <1>1, <2>1, <2>2, QuietOverridden DEF ClockInv
      <2> QED BY <2>3, <2>4, <2>5, <2>6, <2>7 DEF ClockInv
<1> QED BY <1>3, <1>4

\* Instances come and go one at a time, and not while a call of the clock runs.
LEMMA AttachKeeps ==
    ASSUME ~Overlap, ClockInv, NEW i \in Instances, Clock!Attach(i)
    PROVE  ClockInv'
<1>1. /\ UNCHANGED <<now, timers, seq, driver, pass, inFlight, overridden, clockRow>>
      /\ driver.step = "none" /\ ~Clock!Moving /\ life[i] = "down"
      /\ declared' = [declared EXCEPT ![i] = TRUE]
      /\ pool' = [pool EXCEPT ![i] = Clock!Sweep(@)]
      /\ life' = [life EXCEPT ![i] = "attaching"]
      /\ seed' = [seed EXCEPT ![i] = now]
      BY DEF Clock!Attach, Clock!Free, Clock!clockVars, Clock!dbVars
<1>2. ClockTypes
      BY DEF ClockInv
<1>3. ClockTypes'
      <2>1. \A p \in SUBSET {"plain", "opted in"} : Clock!Sweep(p) \in SUBSET {"plain", "opted in"} /\ Clock!Sweep(p) \subseteq {"opted in"}
            BY DEF Clock!Sweep
      <2> QED BY <1>1, <1>2, <2>1 DEF ClockTypes
<1>4. \A j \in Instances : /\ life'[j] = IF j = i THEN "attaching" ELSE life[j]
                           /\ j # i => declared'[j] = declared[j] /\ pool'[j] = pool[j]
      BY <1>1, <1>2 DEF ClockTypes
<1>5. Timers' /\ Quiescence'
      BY <1>1, <1>4, QuietTimers DEF ClockInv, Quiescence, Settled
<1>6. OneMoves'
      <2>1. \A j \in Instances : life[j] \notin {"attaching", "releasing"}
            BY <1>1 DEF Clock!Moving
      <2> QED BY <1>1, <1>2, <1>4, <2>1 DEF OneMoves, ClockTypes
<1>7. Overridden'
      <2>1. declared'[i] /\ pool'[i] \subseteq {"opted in"}
            BY <1>1, <1>2 DEF ClockTypes, Clock!Sweep
      <2>2. Clock!Targets' = Clock!Targets
            BY <1>1, <1>4 DEF Clock!Targets
      <2> QED BY <1>1, <1>4, <2>1, <2>2 DEF ClockInv, Overridden
<1> QED BY <1>3, <1>5, <1>6, <1>7 DEF ClockInv

\* An instance has attached.
LEMMA AttachedKeeps ==
    ASSUME ClockInv, NEW i \in Instances, Clock!Attached(i)
    PROVE  ClockInv'
<1>1. /\ UNCHANGED <<now, driver, pass, inFlight, seed, declared, pool>>
      /\ life[i] = "attaching" /\ life' = [life EXCEPT ![i] = "up"]
      /\ overridden' = TRUE /\ clockRow' = seed[i]
      BY DEF Clock!Attached
<1>2. ClockTypes /\ Timers /\ now \in Nat /\ seed[i] = now /\ driver.step = "none"
      BY <1>1 DEF ClockInv, ClockTypes, OneMoves, Clock!Moving
<1>3. timers' \subseteq TimerRecords /\ seq' \in Nat /\ Timers'
      <2>1. CASE seq < MaxTimers
            <3>1. Clock!Schedule(i, Clock!Min(Delays), Clock!Max(Delays))
                  BY <2>1 DEF Clock!Attached
            <3> QED BY <1>1, <1>2, <3>1, DelayFacts, ScheduleFacts
      <2>2. CASE ~(seq < MaxTimers)
            <3>1. UNCHANGED <<timers, seq>>
                  BY <2>2 DEF Clock!Attached
            <3> QED BY <1>1, <1>2, <3>1, QuietTimers DEF ClockTypes
      <2> QED BY <2>1, <2>2
<1>4. ClockTypes'
      BY <1>1, <1>2, <1>3 DEF ClockTypes
<1>5. \A j \in Instances : life'[j] = IF j = i THEN "up" ELSE life[j]
      BY <1>1, <1>2 DEF ClockTypes
<1>6. Quiescence'
      BY <1>1, <1>2, <1>5 DEF ClockInv, Quiescence, Settled
<1>7. \A j \in Instances : j # i => life[j] \notin {"attaching", "releasing"}
      BY <1>1 DEF ClockInv, OneMoves
<1>8. OneMoves'
      BY <1>1, <1>2, <1>5, <1>7 DEF ClockInv, OneMoves, Clock!Moving
<1>9. Overridden'
      BY <1>1, <1>2, <1>5 DEF ClockInv, Overridden, Clock!Targets
<1> QED BY <1>3, <1>4, <1>6, <1>8, <1>9 DEF ClockInv

\* An instance leaves.
LEMMA ReleaseKeeps ==
    ASSUME ~Overlap, ClockInv, NEW i \in Instances, NEW close \in BOOLEAN, Clock!Release(i, close)
    PROVE  ClockInv'
<1>1. /\ UNCHANGED <<now, seq, driver, pass, inFlight, overridden, clockRow>>
      /\ driver.step = "none" /\ ~Clock!Moving /\ life[i] = "up" /\ inFlight[i] = 0
      /\ timers' = {t \in timers : t.owner # i}
      /\ life' = [life EXCEPT ![i] = IF Clock!Last(i) THEN "releasing" ELSE "down"]
      /\ declared' = [declared EXCEPT ![i] = FALSE]
      /\ pool' = [pool EXCEPT ![i] = IF close THEN {} ELSE @]
      /\ seed' = [seed EXCEPT ![i] = 0]
      BY DEF Clock!Release, Clock!Free, Clock!dbVars
<1>2. ClockTypes
      BY DEF ClockInv
<1>3. ClockTypes'
      BY <1>1, <1>2 DEF ClockTypes
<1>4. \A j \in Instances : /\ life'[j] = IF j = i THEN (IF Clock!Last(i) THEN "releasing" ELSE "down") ELSE life[j]
                           /\ j # i => declared'[j] = declared[j] /\ pool'[j] = pool[j] /\ seed'[j] = seed[j]
      BY <1>1, <1>2 DEF ClockTypes
<1>5. Timers'
      BY <1>1 DEF ClockInv, Timers
<1>6. Quiescence'
      BY <1>1, <1>4 DEF ClockInv, Quiescence, Settled
<1>7. OneMoves'
      <2>1. \A j \in Instances : life[j] \notin {"attaching", "releasing"}
            BY <1>1 DEF Clock!Moving
      <2>2. Clock!Last(i) => \A j \in Instances : j # i => life[j] # "up"
            BY DEF Clock!Last, Clock!Targets
      <2> QED BY <1>1, <1>4, <2>1, <2>2 DEF OneMoves, Clock!Moving
<1>8. Overridden'
      <2>1. Clock!Targets' \subseteq Clock!Targets
            BY <1>4 DEF Clock!Targets
      <2>2. \A j \in Instances : life'[j] \in {"attaching", "up"} => j # i /\ life[j] \in {"attaching", "up"}
            BY <1>4
      <2>3. \A j \in Instances : life'[j] \in {"attaching", "up"} => declared'[j] /\ pool'[j] \subseteq {"opted in"}
            BY <1>4, <2>2 DEF ClockInv, Overridden
      <2> QED BY <1>1, <2>1, <2>3 DEF ClockInv, Overridden
<1> QED BY <1>3, <1>5, <1>6, <1>7, <1>8 DEF ClockInv

\* job_now() is restored.
LEMMA ReleasedKeeps ==
    ASSUME ClockInv, NEW i \in Instances, Clock!Released(i)
    PROVE  ClockInv'
<1>1. /\ UNCHANGED <<now, timers, seq, driver, pass, inFlight, seed, declared>>
      /\ life[i] = "releasing" /\ life' = [life EXCEPT ![i] = "down"]
      /\ overridden' = FALSE /\ clockRow' = Clock!NoRow
      /\ pool' = [pool EXCEPT ![i] = IF @ = {} THEN {} ELSE @ \cup {"plain"}]
      BY DEF Clock!Released, Clock!clockVars
<1>2. ClockTypes /\ driver.step = "none"
      BY <1>1 DEF ClockInv, OneMoves, Clock!Moving
<1>3. ClockTypes'
      BY <1>1, <1>2 DEF ClockTypes
<1>4. \A j \in Instances : /\ life'[j] = IF j = i THEN "down" ELSE life[j]
                           /\ j # i => pool'[j] = pool[j]
      BY <1>1, <1>2 DEF ClockTypes
<1>5. Timers' /\ Quiescence'
      BY <1>1, <1>4, QuietTimers DEF ClockInv, Quiescence, Settled
<1>6. OneMoves'
      BY <1>1, <1>2, <1>4 DEF ClockInv, OneMoves, Clock!Moving
<1>7. Overridden'
      <2>1. Clock!Targets' = {}
            BY <1>1, <1>4 DEF ClockInv, OneMoves, Clock!Targets
      <2>2. \A j \in Instances : life'[j] \in {"attaching", "up"} => j # i /\ life[j] \in {"attaching", "up"}
            BY <1>4
      <2>3. \A j \in Instances : life'[j] \in {"attaching", "up"} => declared'[j] /\ pool'[j] \subseteq {"opted in"}
            BY <1>1, <1>4, <2>2 DEF ClockInv, Overridden
      <2> QED BY <1>1, <2>1, <2>3 DEF ClockInv, Overridden
<1> QED BY <1>3, <1>5, <1>6, <1>7 DEF ClockInv

\* The test run is killed, and doctor repairs what it leaves.
LEMMA KilledKeeps ==
    ASSUME ClockInv, Clock!Killed \/ Clock!RestoreClockFunction
    PROVE  ClockInv'
<1>1. ClockTypes
      BY DEF ClockInv
<1>2. CASE Clock!Killed
      <2>1. /\ now' = 0 /\ timers' = {} /\ driver' = Clock!Quiet /\ UNCHANGED <<seq, overridden, clockRow>>
            /\ pass' = [i \in Instances |-> "out"] /\ inFlight' = [i \in Instances |-> 0]
            /\ life' = [i \in Instances |-> "down"] /\ seed' = [i \in Instances |-> 0]
            /\ declared' = [i \in Instances |-> FALSE] /\ pool' = [i \in Instances |-> {}]
            BY <1>2 DEF Clock!Killed, Clock!dbVars
      <2>2. driver' \in [step : Steps, goal : Nat, timer : TimerRecords \cup {Clock!NoTimer}, next : Steps]
            BY <1>1, <2>1, DriverFacts
      <2>3. ClockTypes'
            BY <1>1, <2>1, <2>2 DEF ClockTypes, Passes
      <2>4. Timers' /\ Quiescence'
            BY <2>1 DEF Timers, Quiescence, Settled, Clock!Quiet
      <2>5. OneMoves' /\ Overridden'
            BY <2>1 DEF OneMoves, Clock!Moving, Overridden, Clock!Targets, Clock!Quiet
      <2> QED BY <2>3, <2>4, <2>5 DEF ClockInv
<1>3. CASE Clock!RestoreClockFunction
      <2>1. /\ UNCHANGED <<now, timers, seq, driver, pass, inFlight, life, seed, declared, pool>>
            /\ overridden' = FALSE /\ clockRow' = Clock!NoRow /\ \A i \in Instances : life[i] = "down"
            BY <1>3 DEF Clock!RestoreClockFunction, Clock!clockVars, Clock!instanceVars
      <2>2. ClockTypes'
            BY <1>1, <2>1 DEF ClockTypes
      <2>3. Timers' /\ Quiescence' /\ OneMoves'
            BY <2>1, QuietTimers, QuietMoves DEF ClockInv, Quiescence, Settled
      <2>4. Overridden'
            BY <2>1 DEF ClockInv, Overridden, Clock!Targets
      <2> QED BY <2>2, <2>3, <2>4 DEF ClockInv
<1> QED BY <1>2, <1>3

-----------------------------------------------------------------------------
(* The theorem *)

\* No clock runs.
LEMMA ClockInitially == Clock!Init => ClockInv
<1> SUFFICES ASSUME Clock!Init PROVE ClockInv
    OBVIOUS
<1>1. driver \in [step : Steps, goal : Nat, timer : TimerRecords \cup {Clock!NoTimer}, next : Steps] /\ driver.step = "none"
      BY DEF Clock!Init, Clock!Quiet, Steps
<1>2. ClockTypes
      BY <1>1 DEF Clock!Init, ClockTypes, Passes
<1>3. Timers /\ Quiescence
      BY <1>1 DEF Clock!Init, Timers, Quiescence, Settled
<1>4. OneMoves /\ Overridden
      BY DEF Clock!Init, OneMoves, Clock!Moving, Overridden, Clock!Targets
<1> QED BY <1>2, <1>3, <1>4 DEF ClockInv

\* Every step keeps the invariant.
LEMMA ClockKeeps ==
    ASSUME ~Overlap, ClockInv, [Clock!Next]_clockVars
    PROVE  ClockInv'
<1>1. CASE UNCHANGED clockVars
      <2>1. UNCHANGED <<now, timers, seq, driver, pass, inFlight, life, seed, declared, pool, overridden, clockRow>>
            BY <1>1 DEF clockVars
      <2> QED BY <2>1, QuietTimers, QuietMoves, QuietOverridden DEF ClockInv, ClockTypes, Quiescence, Settled
<1>2. ASSUME NEW i \in Instances,
             \/ Clock!TestCalls(i) \/ Clock!StatementEnds(i) \/ Clock!Connect(i) \/ Clock!IdleReturns(i)
             \/ Clock!Attach(i) \/ Clock!Attached(i) \/ (\E close \in BOOLEAN : Clock!Release(i, close)) \/ Clock!Released(i)
      PROVE  ClockInv'
      BY <1>2, TestCallsKeeps, StatementEndsKeeps, ConnectKeeps, PassKeeps,
         AttachKeeps, AttachedKeeps, ReleaseKeeps, ReleasedKeeps
<1>3. CASE Clock!BeginPass \/ Clock!EndPass
      BY <1>3, PassKeeps
<1>4. CASE (\E ms \in Spans : Clock!Tick(ms)) \/ (\E t \in 0..MaxNow : Clock!SetTime(t))
      <2>1. Spans \subseteq Nat /\ \A t \in 0 .. MaxNow : t \in Nat
            BY ClockAssumption DEF Clock!TestClockAssumption
      <2>2. PICK x \in Nat : Clock!Tick(x) \/ Clock!SetTime(x)
            BY <1>4, <2>1
      <2> QED BY <2>2, EnterKeeps
<1>5. CASE Clock!Aim \/ Clock!Jump \/ Clock!TakeTimer \/ Clock!Push \/ Clock!Fire \/ Clock!Land \/ Clock!LandSettles
      BY <1>5, AimKeeps, JumpKeeps, TakeTimerKeeps, PushKeeps, FireKeeps, LandKeeps
<1>6. CASE Clock!Killed \/ Clock!RestoreClockFunction
      BY <1>6, KilledKeeps
<1> QED BY <1>1, <1>2, <1>3, <1>4, <1>5, <1>6 DEF Clock!Next

\* What the invariant says of the property.
LEMMA ClockHolds == ClockInv => Clock!ClockSound
<1> SUFFICES ASSUME ClockInv PROVE Clock!ClockSound
    OBVIOUS
<1>1. Clock!NoTimerPassed
      BY DEF ClockInv, Timers, Clock!NoTimerPassed
<1>2. Clock!StatementsAgree
      <2> SUFFICES ASSUME NEW i \in Clock!Targets, inFlight[i] > 0
                   PROVE  overridden /\ clockRow = now /\ pool[i] \subseteq {"opted in"}
          BY DEF Clock!StatementsAgree
      <2>1. i \in Instances /\ life[i] = "up" /\ inFlight[i] # 0
            BY DEF Clock!Targets
      <2>2. driver.step # "push"
            BY <2>1 DEF ClockInv, Quiescence, Settled
      <2> QED BY <2>1, <2>2 DEF ClockInv, Overridden
<1> QED BY <1>1, <1>2 DEF Clock!ClockSound

\* The clock, its timers, the passes of #settle and the instances that come and go agree,
\* while attach and release do not overlap.
THEOREM ClockInvariant ==
    ASSUME ~Overlap
    PROVE  AllSpec => []ClockInv
<1>1. AllInit => ClockInv
      BY ClockInitially DEF AllInit
<1>2. ClockInv /\ [AllNext]_allVars => ClockInv'
      <2> SUFFICES ASSUME ClockInv, [AllNext]_allVars
                   PROVE  [Clock!Next]_clockVars
          BY ClockKeeps
      <2>1. CASE ClockStep
            BY <2>1 DEF ClockStep
      <2>2. CASE ClaimStep \/ ListStep \/ LifeStep
            BY <2>2 DEF ClaimStep, ListStep, LifeStep
      <2>3. CASE UNCHANGED allVars
            BY <2>3 DEF allVars
      <2> QED BY <2>1, <2>2, <2>3 DEF AllNext
<1> QED BY <1>1, <1>2, PTL DEF AllSpec

\* ClockSound: the clock moves only when every instance is quiet, so a statement in flight
\* reads the time its process reads, on whatever session it runs; and time never passes a
\* timer (tick, setTime, #settle, attach and release in clock.ts), while attach and release
\* do not overlap.
THEOREM ClockTheorem ==
    ASSUME ~Overlap
    PROVE  AllSpec => []ClockSound
<1>1. ClockInv => ClockSound
      BY ClockHolds DEF ClockSound
<1> QED BY <1>1, ClockInvariant, PTL

-----------------------------------------------------------------------------
(***************************************************************************)
(* The lives of a process in the instance table (Registry, by              *)
(* MCKeyPolicies' instance Lives): the inductive invariant of the crash    *)
(* counts, for any number of lives, any clock and any number of rows kept. *)
(***************************************************************************)
\* The last life before this one that ended with stop(), or 0.
LastStop(l) ==
    LET stops == {k \in 1 .. l - 1 : outcome[k] = "stop"} IN
    IF stops = {} THEN 0 ELSE Lives!Max(stops)

Stopped == LastStop(latest)

\* The lives since then: each crashed.
Streaking == Stopped + 1 .. latest - 1

\* Whether the property is about the present life.
Unspoiled == ~trimmed /\ \A k \in 0 .. latest : k \notin spoiled

\* One life at a time.
OneLife ==
    /\ latest \in Lives!Lives /\ paused \subseteq spoiled
    /\ pc \in [Lives!Lives -> {"new", "count", "recountAt", "prune", "up", "ended"}]
    /\ \A l \in Lives!Lives : pc[l] \notin {"new", "ended"} => l \in {0, latest}

LifeTypes ==
    /\ tick \in Nat /\ since \in {0, 1}
    /\ born \in [Lives!Lives -> Nat] /\ recount \in [Lives!Lives -> Int]
    /\ lives \in [Lives!Lives -> Lives!InstanceRow \cup {NoLife}]
    /\ outcome \in [Lives!Lives -> {"none", "crash", "stop"}]

\* The sibling lives on.
SiblingLives ==
    /\ pc[0] = "up" /\ recount[0] = Lives!Unset /\ born[0] = 0
    /\ lives[0] # NoLife /\ lives[0].started = 0 /\ lives[0].stopped = FALSE /\ lives[0].beat >= tick - QuietAfter

\* Lives come one after the other, and beat in this order.
LivesOrdered ==
    /\ \A i, j \in 0 .. latest : i < j => born[i] < born[j]
    /\ born[latest] <= tick
    /\ \A k \in Lives!Lives : k > latest => lives[k] = NoLife /\ outcome[k] = "none"
    /\ \A k \in 1 .. latest : lives[k] # NoLife =>
          /\ lives[k].started = born[k] /\ born[k] <= lives[k].beat /\ lives[k].beat <= tick
          /\ lives[k].stopped = (outcome[k] = "stop")
          /\ \A j \in k + 1 .. latest : lives[k].beat < born[j]

\* The present life is not quiet before it ends.
PresentLife ==
    latest # 0 =>
        /\ lives[latest] # NoLife /\ pc[latest] # "new"
        /\ pc[latest] # "ended" => outcome[latest] = "none"
        /\ pc[latest] = "up" => lives[latest].beat >= tick - QuietAfter
        /\ pc[latest] \in {"count", "recountAt", "prune"} => tick <= born[latest] + since

\* What the pruning has left: the newest lives, and the last stop as long as what came
\* before it.
RowsLeft ==
    /\ \A j, k \in Streaking : j < k /\ lives[j] # NoLife => lives[k] # NoLife
    /\ Stopped # 0 /\ lives[Stopped] = NoLife => \A k \in 1 .. Stopped : lives[k] = NoLife
    /\ latest > 1 => lives[latest - 1] # NoLife

ExactRow(k) == lives[k].restarts = k - 1 - Stopped

\* Between the two statements of a count.
AskingLife == latest # 0 /\ (pc[latest] = "recountAt" \/ (pc[latest] = "up" /\ recount[latest] = Lives!Asking))

\* What the lives of the streak show: the earliest that is left is exact, and the rows
\* that were quiet at a count are, so that it stays so when the pruning takes some.
RowsNumbered ==
    /\ \A k \in Streaking : lives[k] # NoLife /\ (k = Stopped + 1 \/ lives[k - 1] = NoLife) => ExactRow(k)
    /\ latest # 0 /\ Stopped = latest - 1 => ExactRow(latest)
    /\ latest # 0 /\ pc[latest] \in {"prune", "up"} /\ recount[latest] = Lives!Unset /\ latest \notin behind => ExactRow(latest)
    /\ AskingLife /\ latest \notin behind /\ (\A k \in Streaking : lives[k] # NoLife => Lives!CrashDead(latest, k)) => ExactRow(latest)
    /\ pc[latest] = "prune" => recount[latest] # Lives!Asking
    /\ pc[latest] \in {"recountAt", "prune"} /\ since = 0 =>
          \A k \in Streaking : lives[k] # NoLife /\ Lives!GoneQuiet(k) => ExactRow(k)
    /\ pc[latest] \in {"recountAt", "prune"} =>
          \A j, k \in Streaking : j < k /\ lives[j] # NoLife /\ lives[k] # NoLife /\ Lives!GoneQuiet(k) => ExactRow(j)

CountsSound == LifeTypes /\ SiblingLives /\ LivesOrdered /\ PresentLife /\ RowsLeft /\ RowsNumbered

LivesInv == OneLife /\ (Unspoiled => CountsSound)

-----------------------------------------------------------------------------
(* Lives *)

\* The cardinality the instance takes.
LEMMA CountsAlike == \A S : Lives!Cardinality(S) = Cardinality(S)
BY DEF Lives!Cardinality, Cardinality

\* The constants.
LEMMA LifeFacts ==
    /\ MaxLives \in Nat \ {0} /\ QuietAfter \in Nat \ {0} /\ NoLife \notin Lives!InstanceRow
    /\ Lives!Lives = 0 .. MaxLives /\ 0 \in Lives!Lives /\ KeptPerName \in Nat \ {0, 1}
BY LivesAssumption DEF Lives!RegistryAssumption, Lives!Lives

\* The largest of a finite set.
LEMMA MaxIs ==
    ASSUME NEW S \in SUBSET Int, IsFiniteSet(S), S # {}
    PROVE  Lives!Max(S) \in S /\ \A x \in S : x <= Lives!Max(S)
<1>1. PICK m \in S : \A x \in S : x <= m
      BY FiniteMax
<1>2. \A x \in S : m >= x
      BY <1>1
<1> QED BY <1>2 DEF Lives!Max

\* What LastStop says.
LEMMA LastStopIs ==
    ASSUME NEW l \in Nat \ {0}
    PROVE  /\ LastStop(l) \in 0 .. l - 1
           /\ LastStop(l) # 0 => outcome[LastStop(l)] = "stop"
           /\ \A k \in LastStop(l) + 1 .. l - 1 : outcome[k] # "stop"
<1> DEFINE stops == {k \in 1 .. l - 1 : outcome[k] = "stop"}
<1>1. stops \in SUBSET Int /\ IsFiniteSet(stops)
      <2>1. IsFiniteSet(1 .. l - 1)
            BY FS_Interval
      <2>2. stops \subseteq 1 .. l - 1
            OBVIOUS
      <2> QED BY <2>1, <2>2, FS_Subset
<1>2. CASE stops = {}
      <2>1. LastStop(l) = 0
            BY <1>2 DEF LastStop
      <2>2. \A k \in 1 .. l - 1 : outcome[k] # "stop"
            BY <1>2
      <2> QED BY <2>1, <2>2
<1>3. CASE stops # {}
      <2>1. LastStop(l) = Lives!Max(stops)
            BY <1>3 DEF LastStop
      <2>2. PICK m : m = Lives!Max(stops)
            OBVIOUS
      <2>3. m \in stops /\ \A x \in stops : x <= m
            <3> HIDE DEF stops
            <3> QED BY <1>1, <1>3, <2>2, MaxIs
      <2>4. \A k \in m + 1 .. l - 1 : k \notin stops /\ k \in 1 .. l - 1
            BY <2>3
      <2>5. \A k \in m + 1 .. l - 1 : outcome[k] # "stop"
            BY <2>4
      <2> QED BY <2>1, <2>2, <2>3, <2>5
<1> QED BY <1>2, <1>3

\* It is the only life of which that holds.
LEMMA LastStopUnique ==
    ASSUME NEW l \in Nat \ {0}, NEW s \in 0 .. l - 1, s # 0 => outcome[s] = "stop",
           \A k \in s + 1 .. l - 1 : outcome[k] # "stop"
    PROVE  LastStop(l) = s
<1>1. PICK t : t = LastStop(l)
      OBVIOUS
<1>2. /\ t \in 0 .. l - 1 /\ (t # 0 => outcome[t] = "stop")
      /\ \A k \in t + 1 .. l - 1 : outcome[k] # "stop"
      BY <1>1, LastStopIs
<1>3. t < s => s \in t + 1 .. l - 1 /\ s # 0
      BY <1>2
<1>4. s < t => t \in s + 1 .. l - 1 /\ t # 0
      BY <1>2
<1>5. s = t
      BY <1>2, <1>3, <1>4
<1> QED BY <1>1, <1>5

\* It depends on the lives before alone.
LEMMA LastStopKept ==
    ASSUME latest' = latest, \A k \in 1 .. latest - 1 : outcome'[k] = outcome[k]
    PROVE  Stopped' = Stopped
<1>1. {k \in 1 .. latest' - 1 : outcome'[k] = "stop"} = {k \in 1 .. latest - 1 : outcome[k] = "stop"}
      OBVIOUS
<1> QED BY <1>1 DEF Stopped, LastStop

\* How many lives in a row crashed.
LEMMA CrashesCount ==
    ASSUME NEW l \in Nat \ {0}
    PROVE  Lives!CrashesBefore(l) = l - 1 - LastStop(l)
<1> DEFINE stops == {k \in 1 .. l - 1 : outcome[k] = "stop"}
<1>1. CASE stops = {}
      BY <1>1 DEF Lives!CrashesBefore, LastStop
<1>2. CASE stops # {}
      BY <1>2 DEF Lives!CrashesBefore, LastStop
<1> QED BY <1>1, <1>2

\* The types of what the invariant is about.
LEMMA StreakFacts ==
    ASSUME OneLife, latest # 0
    PROVE  /\ latest \in Nat /\ latest \in 1 .. MaxLives /\ Stopped \in 0 .. latest - 1
           /\ (Stopped # 0 => outcome[Stopped] = "stop")
           /\ \A k \in Streaking : k \in 1 .. latest - 1 /\ k \in Lives!Lives /\ outcome[k] # "stop" /\ k > Stopped
           /\ Streaking = Stopped + 1 .. latest - 1
<1>1. latest \in Nat /\ latest \in 1 .. MaxLives
      BY LifeFacts DEF OneLife
<1>2. /\ Stopped \in 0 .. latest - 1 /\ (Stopped # 0 => outcome[Stopped] = "stop")
      /\ \A k \in Stopped + 1 .. latest - 1 : outcome[k] # "stop"
      BY <1>1, LastStopIs DEF Stopped
<1>3. \A k \in Stopped + 1 .. latest - 1 : k \in 1 .. latest - 1 /\ k \in 0 .. MaxLives /\ k > Stopped
      <2>1. PICK s : s = Stopped
            OBVIOUS
      <2>2. s \in 0 .. latest - 1 /\ MaxLives \in Nat
            BY <1>2, <2>1, LifeFacts
      <2>3. \A k \in s + 1 .. latest - 1 : k \in 1 .. latest - 1 /\ k \in 0 .. MaxLives /\ k > s
            BY <1>1, <2>2
      <2> QED BY <2>1, <2>3
<1> QED BY <1>1, <1>2, <1>3, LifeFacts DEF Streaking

-----------------------------------------------------------------------------
(* What a statement reads *)

\* A row is what its life wrote.
LEMMA RowFacts ==
    ASSUME OneLife, CountsSound, latest # 0, NEW k \in 1 .. latest, lives[k] # NoLife
    PROVE  /\ k \in Lives!Lives /\ lives[k] \in Lives!InstanceRow
           /\ lives[k].started = born[k] /\ born[k] \in Nat /\ lives[k].beat \in Nat
           /\ lives[k].restarts \in Nat
           /\ born[k] <= lives[k].beat /\ lives[k].beat <= tick
           /\ lives[k].stopped \in BOOLEAN /\ lives[k].stopped = (outcome[k] = "stop")
           /\ \A j \in k + 1 .. latest : lives[k].beat < born[j] /\ born[j] \in Nat
<1>1. latest \in 1 .. MaxLives /\ MaxLives \in Nat /\ Lives!Lives = 0 .. MaxLives
      BY StreakFacts, LifeFacts
<1>2. k \in Lives!Lives /\ \A j \in k + 1 .. latest : j \in Lives!Lives
      BY <1>1
<1>3. lives[k] \in Lives!InstanceRow /\ born[k] \in Nat /\ \A j \in k + 1 .. latest : born[j] \in Nat
      BY <1>2 DEF CountsSound, LifeTypes
<1>4. lives[k].beat \in Nat /\ lives[k].stopped \in BOOLEAN /\ lives[k].restarts \in Nat
      BY <1>3 DEF Lives!InstanceRow
<1> QED BY <1>2, <1>3, <1>4 DEF CountsSound, LivesOrdered

\* Of two rows of the streak the older is dead when the newer is.
LEMMA OlderIsDead ==
    ASSUME OneLife, CountsSound, latest # 0, NEW j \in 1 .. latest - 1, NEW k \in 1 .. latest - 1, j < k,
           lives[j] # NoLife, lives[k] # NoLife
    PROVE  /\ lives[j].beat < lives[k].beat
           /\ Lives!GoneQuiet(k) => Lives!GoneQuiet(j)
           /\ Lives!CrashDead(latest, k) => Lives!CrashDead(latest, j)
<1>0. latest \in Nat /\ latest \in 1 .. MaxLives
      BY StreakFacts
<1>1. j \in 1 .. latest /\ k \in 1 .. latest /\ k \in j + 1 .. latest /\ latest \in j + 1 .. latest
      BY <1>0
<1>2. /\ lives[j].beat < born[k] /\ lives[j].beat \in Nat /\ lives[j].beat < born[latest]
      /\ born[k] <= lives[k].beat /\ lives[k].beat \in Nat /\ born[k] \in Nat
      BY <1>1, RowFacts
<1>3. lives[j].beat < lives[k].beat
      BY <1>2
<1>4. tick \in Nat /\ QuietAfter \in Nat
      BY LifeFacts DEF CountsSound, LifeTypes
<1>5. Lives!GoneQuiet(k) => Lives!GoneQuiet(j)
      BY <1>2, <1>3, <1>4 DEF Lives!GoneQuiet
<1> QED BY <1>2, <1>3, <1>5 DEF Lives!CrashDead

\* crashSlot: what is left of the lives before, and the sibling until it beats again.
LEMMA SlotIs ==
    ASSUME OneLife, CountsSound, latest # 0
    PROVE  /\ Lives!Slot(latest) \subseteq 0 .. latest - 1
           /\ \A k \in 1 .. latest - 1 : k \in Lives!Slot(latest) <=> lives[k] # NoLife
<1>0. latest \in Nat /\ latest \in 1 .. MaxLives /\ Lives!Lives = 0 .. MaxLives /\ MaxLives \in Nat
      BY StreakFacts, LifeFacts
<1>1. \A k \in Lives!Rows : k \in 0 .. latest
      BY <1>0 DEF Lives!Rows, CountsSound, LivesOrdered
<1>2. lives[latest].started = born[latest] /\ born[latest] \in Nat
      BY <1>0, RowFacts DEF CountsSound, PresentLife
<1>3. ASSUME NEW k \in 1 .. latest - 1, lives[k] # NoLife
      PROVE  k \in Lives!Slot(latest)
      <2>1. k \in 1 .. latest /\ latest \in k + 1 .. latest /\ k # latest /\ k \in Lives!Rows
            BY <1>0, <1>3 DEF Lives!Rows
      <2>2. /\ lives[k].started = born[k] /\ born[k] \in Nat /\ lives[k].beat \in Nat
            /\ born[k] <= lives[k].beat /\ lives[k].beat < born[latest]
            BY <1>3, <2>1, RowFacts
      <2>3. lives[k].started < lives[latest].started /\ lives[k].beat <= lives[latest].started
            BY <1>2, <2>2
      <2>4. lives[latest] # NoLife
            BY DEF CountsSound, PresentLife
      <2> QED BY <2>1, <2>3, <2>4 DEF Lives!Slot
<1>4. \A k \in Lives!Slot(latest) : k \in Lives!Rows /\ k # latest
      BY DEF Lives!Slot
<1>5. \A k \in Lives!Slot(latest) : k \in 0 .. latest - 1 /\ lives[k] # NoLife
      BY <1>0, <1>1, <1>4 DEF Lives!Rows
<1> QED BY <1>3, <1>5

\* The streak of the present life is what is left since the last stop.
LEMMA StreakIs ==
    ASSUME OneLife, CountsSound, latest # 0
    PROVE  /\ Lives!Streak(latest) \subseteq 0 .. latest - 1
           /\ \A k \in 1 .. latest - 1 : k \in Lives!Streak(latest) <=> k \in Streaking /\ lives[k] # NoLife
<1>0. latest \in Nat /\ latest \in 1 .. MaxLives /\ Lives!Lives = 0 .. MaxLives /\ MaxLives \in Nat
      BY StreakFacts, LifeFacts
<1> DEFINE stops == {lives[l].started : l \in {k \in Lives!Slot(latest) : lives[k].stopped}}
<1>1. Lives!Streak(latest) = {l \in Lives!Slot(latest) : ~lives[l].stopped /\ \A t \in stops : lives[l].started > t}
      BY DEF Lives!Streak
<1>2. \A k \in 1 .. latest - 1 : lives[k] # NoLife =>
          k \in 1 .. latest /\ lives[k].started = born[k] /\ lives[k].stopped = (outcome[k] = "stop") /\ born[k] \in Nat
      <2>1. \A k \in 1 .. latest - 1 : k \in 1 .. latest
            BY <1>0
      <2> QED BY <2>1, RowFacts
<1>3. \A i, j \in 1 .. latest - 1 : i < j => born[i] < born[j]
      <2>1. \A k \in 1 .. latest - 1 : k \in 0 .. latest
            BY <1>0
      <2> QED BY <2>1 DEF CountsSound, LivesOrdered
<1>4. ASSUME NEW k \in Streaking, lives[k] # NoLife
      PROVE  k \in Lives!Streak(latest)
      <2>1. k \in 1 .. latest - 1 /\ outcome[k] # "stop" /\ k \in Stopped + 1 .. latest - 1 /\ Stopped \in 0 .. latest - 1
            BY StreakFacts
      <2>2. k \in Lives!Slot(latest) /\ ~lives[k].stopped
            BY <1>2, <1>4, <2>1, SlotIs
      <2>3. ASSUME NEW l \in Lives!Slot(latest), lives[l].stopped
            PROVE  lives[k].started > lives[l].started
            <3>1. l \in 0 .. latest - 1 /\ l # 0
                  BY <2>3, SlotIs DEF CountsSound, SiblingLives
            <3>2. l \in 1 .. latest - 1
                  BY <1>0, <3>1
            <3>3. lives[l] # NoLife /\ outcome[l] = "stop"
                  BY <1>2, <2>3, <3>2, SlotIs
            <3>4. l \notin Streaking
                  BY <3>3, StreakFacts
            <3>5. l <= Stopped
                  BY <1>0, <2>1, <3>2, <3>4 DEF Streaking
            <3>6. l < k
                  BY <2>1, <3>2, <3>5, StreakFacts
            <3> QED BY <1>2, <1>3, <1>4, <2>1, <3>2, <3>3, <3>6
      <2>4. \A t \in stops : lives[k].started > t
            BY <2>3
      <2> QED BY <1>1, <2>2, <2>4
<1>5. ASSUME NEW k \in 1 .. latest - 1, k \in Lives!Streak(latest)
      PROVE  k \in Streaking /\ lives[k] # NoLife
      <2>1. k \in Lives!Slot(latest) /\ ~lives[k].stopped /\ \A t \in stops : lives[k].started > t
            BY <1>1, <1>5
      <2>2. lives[k] # NoLife /\ outcome[k] # "stop"
            BY <1>2, <2>1, SlotIs
      <2>3. PICK s : s = Stopped
            OBVIOUS
      <2>4. s \in 0 .. latest - 1 /\ (s # 0 => outcome[s] = "stop")
            BY <2>3, StreakFacts
      <2>5. CASE k > s
            <3>1. k \in s + 1 .. latest - 1
                  BY <1>0, <2>4, <2>5
            <3> QED BY <2>2, <2>3, <3>1 DEF Streaking
      <2>6. CASE ~(k > s)
            <3>1. s # 0 /\ k < s /\ s \in 1 .. latest - 1 /\ k \in 1 .. s
                  <4>1. k # s
                        BY <2>2, <2>4, <1>0
                  <4> QED BY <1>0, <2>4, <2>6, <4>1
            <3>2. lives[s] # NoLife
                  BY <2>2, <2>3, <3>1 DEF CountsSound, RowsLeft
            <3>3. s \in Lives!Slot(latest) /\ lives[s].stopped
                  BY <1>2, <2>4, <3>1, <3>2, SlotIs
            <3>4. lives[k].started > lives[s].started
                  BY <2>1, <3>3
            <3>5. lives[k].started = born[k] /\ lives[s].started = born[s] /\ born[k] < born[s]
                  BY <1>2, <1>3, <2>2, <3>1, <3>2
            <3>6. born[k] \in Nat /\ born[s] \in Nat
                  BY <1>2, <2>2, <3>1, <3>2
            <3> QED BY <3>4, <3>5, <3>6
      <2> QED BY <2>5, <2>6
<1>6. Lives!Streak(latest) \subseteq 0 .. latest - 1
      BY <1>1, SlotIs
<1>7. \A k \in Streaking : k \in 1 .. latest - 1
      BY StreakFacts
<1> QED BY <1>4, <1>5, <1>6, <1>7

\* The sibling is never taken for a crash.
LEMMA CrashedIs ==
    ASSUME OneLife, CountsSound, latest # 0
    PROVE  Lives!Crashed(latest) = {k \in Streaking : lives[k] # NoLife /\ Lives!CrashDead(latest, k)}
<1>0. latest \in Nat
      BY StreakFacts
<1>1. ~Lives!CrashDead(latest, 0)
      <2>1. lives[0] \in Lives!InstanceRow /\ tick \in Nat /\ QuietAfter \in Nat
            BY LifeFacts DEF CountsSound, LifeTypes, SiblingLives
      <2>2. lives[0].beat \in Nat /\ lives[0].beat >= tick - QuietAfter
            BY <2>1 DEF Lives!InstanceRow, CountsSound, SiblingLives
      <2> QED BY <2>1, <2>2 DEF Lives!CrashDead, Lives!GoneQuiet
<1>2. \A k \in 0 .. latest - 1 : k = 0 \/ k \in 1 .. latest - 1
      BY <1>0
<1>3. \A k \in Streaking : k \in 1 .. latest - 1
      BY StreakFacts
<1>4. \A k \in Lives!Crashed(latest) : k \in Lives!Streak(latest) /\ Lives!CrashDead(latest, k)
      BY DEF Lives!Crashed
<1>5. \A k \in Lives!Crashed(latest) : k \in 1 .. latest - 1
      BY <1>1, <1>2, <1>4, StreakIs
<1> QED BY <1>3, <1>4, <1>5, StreakIs DEF Lives!Crashed

\* The counts are exact for the lives counted as crashed, and for the present one when
\* none of the streak has yet to be judged.
LEMMA CountIs ==
    ASSUME OneLife, CountsSound, latest # 0
    PROVE  /\ \A k \in Lives!Crashed(latest) : Lives!Restarts(latest, k) = k - 1 - Stopped /\ k - 1 - Stopped \in Nat
           /\ Lives!Restarts(latest, latest) \in Nat
           /\ (\A k \in Streaking : lives[k] # NoLife => Lives!CrashDead(latest, k)) => Lives!Restarts(latest, latest) = latest - 1 - Stopped
<1>0. latest \in Nat
      BY StreakFacts
<1>1. PICK s : s = Stopped
      OBVIOUS
<1>2. s \in 0 .. latest - 1 /\ Streaking = s + 1 .. latest - 1
      BY <1>1, StreakFacts
<1>3. \A k \in Streaking : k \in 1 .. latest - 1 /\ k \in 1 .. latest
      BY <1>0, <1>2
<1>4. PICK C : C = Lives!Crashed(latest)
      OBVIOUS
<1>5. C = {k \in Streaking : lives[k] # NoLife /\ Lives!CrashDead(latest, k)}
      BY <1>4, CrashedIs
<1>6. s # latest - 1 => latest - 1 \in Streaking /\ lives[latest - 1] # NoLife
      <2>1. s # latest - 1 => latest > 1 /\ latest - 1 \in s + 1 .. latest - 1
            BY <1>0, <1>2
      <2> QED BY <1>2, <2>1 DEF CountsSound, RowsLeft
<1>7. \A l : Lives!Restarts(latest, l) =
                LET base == lives[CHOOSE h \in C : Lives!Nth(C, h) = 1].restarts
                IN  IF C = {} THEN 0 ELSE IF l = latest THEN base + Cardinality(C) ELSE base + Lives!Nth(C, l) - 1
      BY <1>4, CountsAlike DEF Lives!Restarts
<1>8. CASE C = {}
      <2>1. Lives!Restarts(latest, latest) = 0
            BY <1>7, <1>8
      <2>2. (\A k \in Streaking : lives[k] # NoLife => Lives!CrashDead(latest, k)) => s = latest - 1
            BY <1>5, <1>6, <1>8
      <2>3. latest - 1 - (latest - 1) = 0
            BY <1>0
      <2> QED BY <1>1, <1>4, <1>8, <2>1, <2>2, <2>3
<1>9. CASE C # {}
      <2>1. C \in SUBSET Nat /\ C \in SUBSET Int /\ IsFiniteSet(C)
            <3>1. IsFiniteSet(s + 1 .. latest - 1)
                  BY <1>0, <1>2, FS_Interval
            <3>2. C \subseteq s + 1 .. latest - 1
                  BY <1>2, <1>5
            <3>3. \A k \in s + 1 .. latest - 1 : k \in Nat /\ k \in Int
                  BY <1>0, <1>2
            <3> QED BY <3>1, <3>2, <3>3, FS_Subset
      <2>2. PICK e \in C : \A k \in C : e <= k
            BY <1>9, <2>1, SmallestNat
      <2>3. PICK m \in C : \A k \in C : k <= m
            BY <1>9, <2>1, FiniteMax
      <2>4. e \in Nat /\ m \in Nat /\ e <= m /\ e \in Streaking /\ m \in Streaking /\ s < e /\ m <= latest - 1
            BY <1>0, <1>2, <1>5, <2>1, <2>2
      <2>5. C = e .. m
            <3>1. ASSUME NEW k \in e .. m
                  PROVE  k \in C
                  <4>1. k \in Streaking /\ (k = e \/ e < k) /\ (k = m \/ k < m)
                        BY <1>0, <1>2, <2>4
                  <4>2. lives[k] # NoLife
                        BY <1>5, <2>4, <4>1 DEF CountsSound, RowsLeft
                  <4>3. Lives!CrashDead(latest, k)
                        BY <1>3, <1>5, <2>4, <4>1, <4>2, OlderIsDead
                  <4> QED BY <1>5, <4>1, <4>2, <4>3
            <3>2. \A k \in C : k \in e .. m
                  BY <2>1, <2>2, <2>3, <2>4
            <3> QED BY <3>1, <3>2
      <2>6. ASSUME NEW k \in C
            PROVE  Lives!Nth(C, k) = k - e + 1
            <3>1. \A j \in C : lives[j].started = born[j] /\ born[j] \in Nat /\ j \in 0 .. latest /\ j \in Nat
                  <4>1. \A j \in C : j \in 1 .. latest /\ lives[j] # NoLife
                        BY <1>3, <1>5
                  <4> QED BY <1>0, <4>1, RowFacts
            <3>2. \A i, j \in C : i < j => born[i] < born[j]
                  BY <3>1 DEF CountsSound, LivesOrdered
            <3>3. \A j \in C : lives[j].started <= lives[k].started <=> j <= k
                  BY <3>1, <3>2
            <3>4. {j \in C : lives[j].started <= lives[k].started} = e .. k
                  BY <2>4, <2>5, <3>1, <3>3
            <3>5. Cardinality(e .. k) = k - e + 1
                  <4>1. k \in Int /\ e \in Int /\ ~(e > k)
                        BY <2>2, <2>4, <3>1
                  <4> QED BY <4>1, FS_Interval
            <3> QED BY <3>4, <3>5, CountsAlike DEF Lives!Nth
      <2>7. (CHOOSE h \in C : Lives!Nth(C, h) = 1) = e
            <3>1. Lives!Nth(C, e) = 1
                  BY <2>4, <2>6
            <3>2. \A h \in C : Lives!Nth(C, h) = 1 => h = e
                  BY <2>1, <2>4, <2>6
            <3> QED BY <3>1, <3>2
      <2>8. lives[e].restarts = e - 1 - s
            <3>1. e = s + 1 \/ lives[e - 1] = NoLife
                  <4> SUFFICES ASSUME e # s + 1, lives[e - 1] # NoLife PROVE FALSE
                      OBVIOUS
                  <4>1. e - 1 \in Streaking /\ e - 1 < e
                        BY <1>0, <1>2, <2>4
                  <4>2. Lives!CrashDead(latest, e - 1)
                        BY <1>3, <1>5, <2>4, <4>1, OlderIsDead
                  <4>3. e - 1 \in C
                        BY <1>5, <4>1, <4>2
                  <4> QED BY <2>2, <2>4, <4>3
            <3>2. ExactRow(e)
                  BY <1>1, <1>5, <2>4, <3>1 DEF CountsSound, RowsNumbered
            <3> QED BY <1>1, <3>2 DEF ExactRow
      <2>9. Cardinality(C) = m - e + 1
            <3>1. m \in Int /\ e \in Int /\ ~(e > m)
                  BY <2>4
            <3> QED BY <2>5, <3>1, FS_Interval
      <2>10. ASSUME NEW k \in C
             PROVE  Lives!Restarts(latest, k) = k - 1 - s /\ k - 1 - s \in Nat
            <3>1. k # latest /\ k \in Nat /\ e <= k
                  BY <1>0, <2>1, <2>2, <2>3, <2>4
            <3>2. Lives!Restarts(latest, k) = (e - 1 - s) + (k - e + 1) - 1
                  BY <1>7, <1>9, <2>6, <2>7, <2>8, <3>1
            <3> QED BY <1>2, <2>4, <3>1, <3>2
      <2>11. Lives!Restarts(latest, latest) = m - s /\ m - s \in Nat
            <3>1. Lives!Restarts(latest, latest) = (e - 1 - s) + (m - e + 1)
                  BY <1>7, <1>9, <2>7, <2>8, <2>9
            <3> QED BY <1>2, <2>4, <3>1
      <2>12. (\A k \in Streaking : lives[k] # NoLife => Lives!CrashDead(latest, k)) => m = latest - 1
            <3>1. s # latest - 1
                  BY <1>0, <1>2, <2>4
            <3> QED BY <1>0, <1>5, <1>6, <2>3, <2>4, <3>1
      <2> QED BY <1>1, <1>4, <2>10, <2>11, <2>12
<1> QED BY <1>8, <1>9

-----------------------------------------------------------------------------
(* Steps *)

\* Only the life and its sibling move.
LEMMA WhoMoves ==
    ASSUME OneLife, CountsSound, NEW l \in Lives!Lives, pc[l] \notin {"new", "ended"}
    PROVE  l = 0 \/ (l = latest /\ latest # 0)
BY DEF OneLife

\* Lives unspoiled after a step were so before it.
LEMMA CleanKept ==
    ASSUME OneLife, Unspoiled', latest' \in Nat, latest' >= latest, spoiled \subseteq spoiled', ~trimmed' => ~trimmed
    PROVE  Unspoiled
<1>1. latest \in Nat /\ \A k \in 0 .. latest : k \in 0 .. latest'
      BY LifeFacts DEF OneLife
<1> QED BY <1>1 DEF Unspoiled

\* Whoever moves, one life goes on at a time.
LEMMA OneLifeKeeps ==
    ASSUME OneLife, [Lives!Next]_registryVars
    PROVE  OneLife'
<1>0. latest \in Nat /\ Lives!Lives = 0 .. MaxLives /\ MaxLives \in Nat
      BY LifeFacts DEF OneLife
<1>1. CASE UNCHANGED registryVars
      BY <1>1 DEF registryVars, OneLife
<1>2. CASE Lives!Tick \/ Lives!Maintain
      BY <1>2 DEF Lives!Tick, Lives!Maintain, OneLife
<1>3. ASSUME NEW fails \in BOOLEAN, Lives!Register(fails)
      PROVE  OneLife'
      <2>1. latest + 1 \in Lives!Lives /\ (latest = 0 \/ pc[latest] = "ended")
            BY <1>0, <1>3 DEF Lives!Register, Lives!NextLife
      <2>2. /\ latest' = latest + 1 /\ paused' = paused /\ spoiled \subseteq spoiled'
            /\ pc' = [pc EXCEPT ![latest + 1] = IF fails THEN "up" ELSE "count"]
            BY <1>3 DEF Lives!Register, Lives!NextLife
      <2> QED BY <2>1, <2>2 DEF OneLife
<1>4. ASSUME NEW l \in Lives!Lives, Lives!CountAtStart(l) \/ Lives!RecountAtStart(l) \/ Lives!PruneLives(l) \/ Lives!Recount(l) \/ Lives!RecountAtAgain(l)
             \/ Lives!RecountFails(l) \/ Lives!Beat(l)
      PROVE  OneLife'
      <2>1. /\ latest' = latest /\ paused' \subseteq paused /\ spoiled' = spoiled /\ pc[l] \notin {"new", "ended"}
            /\ \/ pc' = pc
               \/ \E p \in {"recountAt", "prune", "up"} : pc' = [pc EXCEPT ![l] = p]
            BY <1>4 DEF Lives!CountAtStart, Lives!RecountAtStart, Lives!PruneLives, Lives!Recount,
               Lives!RecountAtAgain, Lives!RecountFails, Lives!Beat
      <2> QED BY <2>1 DEF OneLife
<1>5. ASSUME NEW l \in Lives!Lives, Lives!RegistrationFails(l) \/ Lives!Crash(l) \/ Lives!Pause(l) \/ (\E fails \in BOOLEAN : Lives!Stop(l, fails))
      PROVE  OneLife'
      <2>1. /\ latest' = latest /\ paused' \subseteq spoiled' /\ pc[l] \notin {"new", "ended"}
            /\ \/ pc' = pc
               \/ \E p \in {"up", "ended"} : pc' = [pc EXCEPT ![l] = p]
            BY <1>5 DEF Lives!RegistrationFails, Lives!Crash, Lives!Pause, Lives!Stop, OneLife
      <2> QED BY <2>1 DEF OneLife
<1> QED BY <1>1, <1>2, <1>3, <1>4, <1>5 DEF Lives!Next

\* A step that leaves the rows' times alone.
LEMMA SameRows ==
    ASSUME OneLife, CountsSound, UNCHANGED <<tick, born, latest, outcome>>,
           pc'[0] = pc[0], recount'[0] = recount[0],
           \A k \in Lives!Lives : /\ lives'[k] = NoLife <=> lives[k] = NoLife
                                  /\ lives[k] # NoLife => /\ lives'[k].started = lives[k].started
                                                          /\ lives'[k].beat = lives[k].beat /\ lives'[k].stopped = lives[k].stopped
    PROVE  /\ SiblingLives' /\ LivesOrdered' /\ RowsLeft' /\ Stopped' = Stopped /\ Streaking' = Streaking
           /\ \A k \in Lives!Lives : lives[k] # NoLife => (Lives!GoneQuiet(k)' <=> Lives!GoneQuiet(k))
           /\ samePid' = samePid => \A k \in Lives!Lives : lives[k] # NoLife => (Lives!CrashDead(latest, k)' <=> Lives!CrashDead(latest, k))
<1>0. latest \in Nat /\ Lives!Lives = 0 .. MaxLives /\ MaxLives \in Nat /\ latest <= MaxLives
      BY LifeFacts DEF OneLife
<1>1. Stopped' = Stopped /\ Streaking' = Streaking
      BY LastStopKept DEF Streaking
<1>2. \A k \in 0 .. latest : k \in Lives!Lives
      BY <1>0
<1>3. SiblingLives'
      BY <1>2, LifeFacts DEF CountsSound, SiblingLives
<1>4. LivesOrdered'
      <2>1. \A k \in 1 .. latest : k \in Lives!Lives
            BY <1>0
      <2> QED BY <1>2, <2>1 DEF CountsSound, LivesOrdered
<1>5. RowsLeft'
      <2>1. CASE latest = 0
            <3>1. Stopped = 0
                  <4>1. {k \in 1 .. latest - 1 : outcome[k] = "stop"} = {}
                        BY <2>1
                  <4> QED BY <4>1 DEF Stopped, LastStop
            <3>2. Streaking = {}
                  BY <2>1, <3>1 DEF Streaking
            <3> QED BY <1>1, <2>1, <3>1, <3>2 DEF RowsLeft
      <2>2. CASE latest # 0
            <3>1. \A k \in Streaking : k \in Lives!Lives
                  BY <2>2, StreakFacts
            <3>2. Stopped \in Lives!Lives /\ \A k \in 1 .. Stopped : k \in Lives!Lives
                  <4>1. PICK s : s = Stopped
                        OBVIOUS
                  <4>2. s \in 0 .. latest - 1
                        BY <2>2, <4>1, StreakFacts
                  <4>3. s \in Lives!Lives /\ \A k \in 1 .. s : k \in Lives!Lives
                        BY <1>0, <4>2
                  <4> QED BY <4>1, <4>3
            <3>3. latest > 1 => latest - 1 \in Lives!Lives
                  BY <1>0
            <3> QED BY <1>1, <3>1, <3>2, <3>3 DEF CountsSound, RowsLeft
      <2> QED BY <2>1, <2>2
<1>6. \A k \in Lives!Lives : lives[k] # NoLife => (Lives!GoneQuiet(k)' <=> Lives!GoneQuiet(k))
      BY DEF Lives!GoneQuiet
<1> QED BY <1>1, <1>3, <1>4, <1>5, <1>6 DEF Lives!CrashDead

\* Both statements of a count.
LEMMA CountForm ==
    ASSUME OneLife, CountsSound, latest # 0, Lives!Count(latest)
    PROVE  /\ lives' \in [Lives!Lives -> Lives!InstanceRow \cup {NoLife}]
           /\ \A k \in Lives!Lives : /\ lives'[k] = NoLife <=> lives[k] = NoLife
                                     /\ lives[k] # NoLife => /\ lives'[k].started = lives[k].started
                                                             /\ lives'[k].beat = lives[k].beat /\ lives'[k].stopped = lives[k].stopped
                                     /\ k # latest /\ k \notin Lives!Crashed(latest) => lives'[k] = lives[k]
           /\ \A k \in Lives!Crashed(latest) : lives'[k].restarts = k - 1 - Stopped
           /\ lives'[latest].restarts = Lives!Restarts(latest, latest)
<1>0. latest \in Lives!Lives /\ latest \notin Lives!Crashed(latest) /\ \A k \in Lives!Crashed(latest) : k \in Lives!Lives /\ lives[k] # NoLife
      BY StreakFacts, CrashedIs DEF OneLife
<1>1. lives' = [k \in Lives!Lives |-> IF k \in Lives!Crashed(latest) \cup {latest} THEN [lives[k] EXCEPT !.restarts = Lives!Restarts(latest, k)]
                              ELSE lives[k]]
      BY DEF Lives!Count, CountsSound, PresentLife
<1>2. \A k \in Lives!Lives : lives[k] # NoLife => lives[k] \in Lives!InstanceRow
      BY DEF CountsSound, LifeTypes
<1>3. NoLife \notin Lives!InstanceRow /\ lives[latest] # NoLife
      BY LifeFacts DEF CountsSound, PresentLife
<1>4. ASSUME NEW k \in Lives!Lives, k = latest \/ k \in Lives!Crashed(latest)
      PROVE  /\ lives'[k] \in Lives!InstanceRow /\ lives[k] # NoLife /\ lives'[k].restarts = Lives!Restarts(latest, k)
             /\ lives'[k].started = lives[k].started /\ lives'[k].beat = lives[k].beat /\ lives'[k].stopped = lives[k].stopped
      <2>1. PICK n : n = Lives!Restarts(latest, k)
            OBVIOUS
      <2>2. n \in Nat
            BY <1>4, <2>1, CountIs
      <2>3. lives'[k] = [lives[k] EXCEPT !.restarts = n] /\ lives[k] \in Lives!InstanceRow /\ lives[k] # NoLife
            BY <1>0, <1>1, <1>2, <1>3, <1>4, <2>1
      <2>4. PICK r \in Lives!InstanceRow : r = lives[k]
            BY <2>3
      <2>5. lives'[k] = [r EXCEPT !.restarts = n]
            BY <2>3, <2>4
      <2>6. /\ lives'[k] \in Lives!InstanceRow /\ lives'[k].restarts = n
            /\ lives'[k].started = r.started /\ lives'[k].beat = r.beat /\ lives'[k].stopped = r.stopped
            BY <2>2, <2>5 DEF Lives!InstanceRow
      <2> QED BY <2>1, <2>3, <2>4, <2>6
<1>5. \A k \in Lives!Lives : k # latest /\ k \notin Lives!Crashed(latest) => lives'[k] = lives[k]
      BY <1>1
<1>6. \A k \in Lives!Lives : lives'[k] \in Lives!InstanceRow \cup {NoLife}
      BY <1>2, <1>4, <1>5
<1>7. lives' \in [Lives!Lives -> Lives!InstanceRow \cup {NoLife}]
      <2>1. lives' = [k \in Lives!Lives |-> lives'[k]]
            BY <1>1
      <2> QED BY <1>6, <2>1
<1>8. \A k \in Lives!Crashed(latest) : lives'[k].restarts = k - 1 - Stopped
      BY <1>0, <1>4, CountIs
<1> QED BY <1>0, <1>3, <1>4, <1>5, <1>7, <1>8

\* What the rows show after a count.
LEMMA AfterCount ==
    ASSUME OneLife, CountsSound, latest # 0, Lives!Count(latest), UNCHANGED <<samePid, tick, born, latest, outcome>>,
           pc'[0] = pc[0], recount'[0] = recount[0]
    PROVE  /\ \A k \in Streaking : lives'[k] # NoLife /\ (k = Stopped + 1 \/ lives'[k - 1] = NoLife) => ExactRow(k)'
           /\ Stopped = latest - 1 => ExactRow(latest)'
           /\ (\A k \in Streaking : lives[k] # NoLife => Lives!CrashDead(latest, k)) => ExactRow(latest)'
           /\ \A k \in Streaking : lives'[k] # NoLife /\ Lives!GoneQuiet(k)' => ExactRow(k)'
<1>0. latest \in Nat /\ \A k \in Streaking : k \in Lives!Lives /\ k # latest /\ (k # Stopped + 1 => k - 1 \in Lives!Lives)
      <2>1. PICK s : s = Stopped
            OBVIOUS
      <2>2. s \in 0 .. latest - 1 /\ latest \in 1 .. MaxLives /\ Lives!Lives = 0 .. MaxLives /\ MaxLives \in Nat
            BY <2>1, StreakFacts, LifeFacts
      <2>3. \A k \in s + 1 .. latest - 1 : k \in Lives!Lives /\ k # latest /\ (k # s + 1 => k - 1 \in Lives!Lives)
            BY <2>2
      <2> QED BY <2>1, <2>2, <2>3 DEF Streaking
<1>1. Stopped' = Stopped /\ \A k \in Lives!Lives : lives[k] # NoLife => (Lives!GoneQuiet(k)' <=> Lives!GoneQuiet(k))
      BY CountForm, SameRows
<1>2. \A k \in Lives!Crashed(latest) : ExactRow(k)'
      BY <1>1, CountForm DEF ExactRow
<1>3. \A k \in Streaking : k \notin Lives!Crashed(latest) => lives'[k] = lives[k]
      BY <1>0, CountForm
<1>4. \A k \in Lives!Lives : lives'[k] = NoLife <=> lives[k] = NoLife
      BY CountForm
<1>5. (\A k \in Streaking : lives[k] # NoLife => Lives!CrashDead(latest, k)) => ExactRow(latest)'
      <2>1. lives'[latest].restarts = Lives!Restarts(latest, latest)
            BY CountForm
      <2> QED BY <1>1, <2>1, CountIs DEF ExactRow
<1>6. Stopped = latest - 1 => ExactRow(latest)'
      <2>1. Stopped = latest - 1 => \A k \in Streaking : FALSE
            BY <1>0 DEF Streaking
      <2> QED BY <1>5, <2>1
<1>7. ASSUME NEW k \in Streaking, lives'[k] # NoLife, k = Stopped + 1 \/ lives'[k - 1] = NoLife
      PROVE  ExactRow(k)'
      <2>1. CASE k \in Lives!Crashed(latest)
            BY <1>2, <2>1
      <2>2. CASE k \notin Lives!Crashed(latest)
            <3>1. lives'[k] = lives[k] /\ lives[k] # NoLife
                  BY <1>3, <1>7, <2>2
            <3>2. k = Stopped + 1 \/ lives[k - 1] = NoLife
                  BY <1>0, <1>4, <1>7
            <3>3. ExactRow(k)
                  BY <3>1, <3>2 DEF CountsSound, RowsNumbered
            <3> QED BY <1>1, <3>1, <3>3 DEF ExactRow
      <2> QED BY <2>1, <2>2
<1>8. ASSUME NEW k \in Streaking, lives'[k] # NoLife, Lives!GoneQuiet(k)'
      PROVE  ExactRow(k)'
      <2>1. lives[k] # NoLife /\ Lives!GoneQuiet(k)
            BY <1>0, <1>1, <1>4, <1>8
      <2>2. k \in Lives!Crashed(latest)
            BY <2>1, CrashedIs DEF Lives!CrashDead
      <2> QED BY <1>2, <2>2
<1> QED BY <1>5, <1>6, <1>7, <1>8

\* The timer of the recount is set unless nothing is left to judge.
LEMMA RecountIs ==
    ASSUME OneLife, CountsSound, latest # 0, Lives!RecountAt(latest)
    PROVE  /\ recount' \in [Lives!Lives -> Int] /\ recount'[0] = recount[0]
           /\ recount'[latest] # Lives!Asking
           /\ recount'[latest] = Lives!Unset => \A k \in Streaking : lives[k] # NoLife => Lives!CrashDead(latest, k)
<1> DEFINE open == {lives[k].beat : k \in {s \in Lives!Streak(latest) : ~Lives!CrashDead(latest, s)}}
<1>0. latest \in Nat /\ latest \in 1 .. MaxLives /\ latest \in Lives!Lives /\ QuietAfter \in Nat
      BY StreakFacts, LifeFacts DEF OneLife
<1>1. recount' = [recount EXCEPT ![latest] = IF open = {} THEN Lives!Unset ELSE Lives!Max(open) + QuietAfter + 1]
      BY DEF Lives!RecountAt
<1>2. recount \in [Lives!Lives -> Int]
      BY DEF CountsSound, LifeTypes
<1>3. CASE open = {}
      <2>1. recount' = [recount EXCEPT ![latest] = -1]
            BY <1>1, <1>3 DEF Lives!Unset
      <2>2. recount' \in [Lives!Lives -> Int] /\ recount'[0] = recount[0] /\ recount'[latest] # Lives!Asking
            BY <1>0, <1>2, <2>1 DEF Lives!Asking
      <2>3. \A k \in Lives!Streak(latest) : Lives!CrashDead(latest, k)
            BY <1>3
      <2>4. \A k \in Streaking : k \in 1 .. latest - 1
            BY StreakFacts
      <2> QED BY <2>2, <2>3, <2>4, StreakIs
<1>4. CASE open # {}
      <2>1. open \in SUBSET Nat /\ open \in SUBSET Int /\ IsFiniteSet(open)
            <3>1. \A k \in Lives!Streak(latest) : k \in Lives!Rows /\ lives[k].beat <= lives[latest].started
                  BY DEF Lives!Streak, Lives!Slot
            <3>2. \A k \in Lives!Rows \cup {latest} : lives[k] \in Lives!InstanceRow
                  BY <1>0 DEF Lives!Rows, CountsSound, LifeTypes, PresentLife
            <3>3. \A k \in Lives!Rows \cup {latest} : lives[k].beat \in Nat /\ lives[k].started \in Nat
                  BY <3>2 DEF Lives!InstanceRow
            <3>4. open \in SUBSET Nat /\ \A b \in open : b <= lives[latest].started
                  BY <3>1, <3>3
            <3>5. IsFiniteSet(open)
                  <4>1. lives[latest].started \in Nat
                        BY <3>3
                  <4> HIDE DEF open
                  <4> QED BY <3>4, <4>1, FS_BoundedSetOfNaturals
            <3> QED BY <3>4, <3>5
      <2>2. Lives!Max(open) \in Nat
            <3> HIDE DEF open
            <3>1. Lives!Max(open) \in open
                  BY <1>4, <2>1, MaxIs
            <3> QED BY <2>1, <3>1
      <2>3. PICK n \in Nat : n = Lives!Max(open) + QuietAfter + 1
            <3> HIDE DEF open
            <3>1. Lives!Max(open) + QuietAfter + 1 \in Nat
                  BY <1>0, <2>2
            <3> QED BY <3>1
      <2>4. recount' = [recount EXCEPT ![latest] = n]
            BY <1>1, <1>4, <2>3
      <2> QED BY <1>0, <1>2, <2>3, <2>4 DEF Lives!Unset, Lives!Asking
<1> QED BY <1>3, <1>4

\* The first count of a life.
LEMMA CountAtStartKeeps ==
    ASSUME OneLife, CountsSound, latest # 0, Lives!CountAtStart(latest)
    PROVE  CountsSound'
<1>1. /\ Lives!Count(latest) /\ pc[latest] = "count" /\ pc' = [pc EXCEPT ![latest] = "recountAt"]
      /\ UNCHANGED <<samePid, tick, born, recount, since, latest, outcome>>
      BY DEF Lives!CountAtStart
<1>2. latest \in Lives!Lives /\ pc'[latest] = "recountAt" /\ pc'[0] = pc[0]
      BY <1>1, LifeFacts DEF OneLife
<1>3. SiblingLives' /\ LivesOrdered' /\ RowsLeft' /\ Stopped' = Stopped /\ Streaking' = Streaking
      BY <1>1, <1>2, CountForm, SameRows
<1>4. LifeTypes'
      BY <1>1, CountForm DEF CountsSound, LifeTypes
<1>5. PresentLife'
      BY <1>1, <1>2, CountForm DEF CountsSound, PresentLife
<1>6. RowsNumbered'
      <2>1. \A k \in Streaking : lives[k] # NoLife => (Lives!CrashDead(latest, k)' <=> Lives!CrashDead(latest, k))
            BY <1>1, <1>2, CountForm, SameRows, StreakFacts
      <2>2. \A k \in Streaking : lives'[k] = NoLife <=> lives[k] = NoLife
            BY <1>1, CountForm, StreakFacts
      <2>3. \A k \in Streaking : lives'[k] # NoLife /\ Lives!GoneQuiet(k)' => ExactRow(k)'
            BY <1>1, <1>2, AfterCount
      <2>4. ASSUME NEW j \in Streaking, NEW k \in Streaking, j < k, lives'[j] # NoLife, lives'[k] # NoLife, Lives!GoneQuiet(k)'
            PROVE  ExactRow(j)'
            <3>1. lives[j] # NoLife /\ lives[k] # NoLife /\ Lives!GoneQuiet(k)
                  BY <1>1, <1>2, <2>2, <2>4, CountForm, SameRows, StreakFacts
            <3>2. Lives!GoneQuiet(j)
                  BY <2>4, <3>1, StreakFacts, OlderIsDead
            <3>3. Lives!GoneQuiet(j)'
                  BY <1>1, <1>2, <3>1, <3>2, CountForm, SameRows, StreakFacts
            <3> QED BY <2>3, <2>4, <3>3
      <2> QED BY <1>1, <1>2, <1>3, <2>1, <2>2, <2>3, <2>4, AfterCount DEF RowsNumbered, AskingLife
<1> QED BY <1>3, <1>4, <1>5, <1>6 DEF CountsSound

\* The recount timer is set.
LEMMA RecountAtStartKeeps ==
    ASSUME OneLife, CountsSound, latest # 0, Lives!RecountAtStart(latest)
    PROVE  CountsSound'
<1>1. /\ Lives!RecountAt(latest) /\ pc[latest] = "recountAt" /\ pc' = [pc EXCEPT ![latest] = "prune"]
      /\ UNCHANGED <<samePid, tick, lives, born, since, latest, outcome, behind>>
      BY DEF Lives!RecountAtStart
<1>2. latest \in Lives!Lives /\ pc'[latest] = "prune" /\ pc'[0] = pc[0]
      BY <1>1, LifeFacts DEF OneLife
<1>3. /\ SiblingLives' /\ LivesOrdered' /\ RowsLeft' /\ Stopped' = Stopped /\ Streaking' = Streaking
      /\ \A k \in Lives!Lives : lives[k] # NoLife => (Lives!GoneQuiet(k)' <=> Lives!GoneQuiet(k))
      BY <1>1, <1>2, RecountIs, SameRows
<1>4. LifeTypes'
      BY <1>1, RecountIs DEF CountsSound, LifeTypes
<1>5. PresentLife'
      BY <1>1, <1>2 DEF CountsSound, PresentLife
<1>6. RowsNumbered'
      <2>1. \A k : ExactRow(k)' <=> ExactRow(k)
            BY <1>1, <1>3 DEF ExactRow
      <2>2. recount'[latest] # Lives!Asking /\ (recount'[latest] = Lives!Unset /\ latest \notin behind => ExactRow(latest))
            BY <1>1, RecountIs DEF CountsSound, RowsNumbered, AskingLife
      <2>3. \A k \in Streaking : lives[k] # NoLife => (Lives!GoneQuiet(k)' <=> Lives!GoneQuiet(k))
            BY <1>3, StreakFacts
      <2>4. /\ since = 0 => \A k \in Streaking : lives[k] # NoLife /\ Lives!GoneQuiet(k) => ExactRow(k)
            /\ \A j, k \in Streaking : j < k /\ lives[j] # NoLife /\ lives[k] # NoLife /\ Lives!GoneQuiet(k) => ExactRow(j)
            BY <1>1 DEF CountsSound, RowsNumbered
      <2>5. /\ \A k \in Streaking : lives[k] # NoLife /\ (k = Stopped + 1 \/ lives[k - 1] = NoLife) => ExactRow(k)
            /\ Stopped = latest - 1 => ExactRow(latest)
            BY DEF CountsSound, RowsNumbered
      <2> QED BY <1>1, <1>2, <1>3, <2>1, <2>2, <2>3, <2>4, <2>5 DEF RowsNumbered, AskingLife
<1> QED BY <1>3, <1>4, <1>5, <1>6 DEF CountsSound

\* The recount, when the last row of the streak could be judged: its first statement.
LEMMA RecountKeeps ==
    ASSUME OneLife, CountsSound, latest # 0, Lives!Recount(latest)
    PROVE  CountsSound'
<1>1. /\ Lives!Count(latest) /\ pc[latest] = "up" /\ recount' = [recount EXCEPT ![latest] = Lives!Asking]
      /\ UNCHANGED <<samePid, tick, pc, born, since, latest, outcome>>
      BY DEF Lives!Recount
<1>2. latest \in Lives!Lives /\ recount'[latest] = Lives!Asking /\ recount'[0] = recount[0] /\ recount' \in [Lives!Lives -> Int]
      BY <1>1, LifeFacts DEF OneLife, CountsSound, LifeTypes, Lives!Asking
<1>3. SiblingLives' /\ LivesOrdered' /\ RowsLeft' /\ Stopped' = Stopped /\ Streaking' = Streaking
      BY <1>1, <1>2, CountForm, SameRows
<1>4. LifeTypes'
      BY <1>1, <1>2, CountForm DEF CountsSound, LifeTypes
<1>5. PresentLife'
      BY <1>1, <1>2, CountForm DEF CountsSound, PresentLife
<1>6. RowsNumbered'
      <2>1. /\ \A k \in Streaking : lives'[k] # NoLife /\ (k = Stopped + 1 \/ lives'[k - 1] = NoLife) => ExactRow(k)'
            /\ Stopped = latest - 1 => ExactRow(latest)'
            /\ (\A k \in Streaking : lives[k] # NoLife => Lives!CrashDead(latest, k)) => ExactRow(latest)'
            BY <1>1, <1>2, AfterCount
      <2>2. \A k \in Streaking : lives[k] # NoLife => (Lives!CrashDead(latest, k)' <=> Lives!CrashDead(latest, k))
            BY <1>1, <1>2, CountForm, SameRows, StreakFacts
      <2>3. \A k \in Streaking : lives'[k] = NoLife <=> lives[k] = NoLife
            BY CountForm, StreakFacts, <1>1
      <2>4. recount'[latest] # Lives!Unset
            BY <1>2 DEF Lives!Unset, Lives!Asking
      <2> QED BY <1>1, <1>3, <2>1, <2>2, <2>3, <2>4 DEF RowsNumbered
<1> QED BY <1>3, <1>4, <1>5, <1>6 DEF CountsSound

\* Its second statement.
LEMMA RecountAtAgainKeeps ==
    ASSUME OneLife, CountsSound, latest # 0, Lives!RecountAtAgain(latest)
    PROVE  CountsSound'
<1>1. /\ Lives!RecountAt(latest) /\ pc[latest] = "up" /\ recount[latest] = Lives!Asking
      /\ UNCHANGED <<samePid, tick, lives, pc, born, since, latest, outcome, behind>>
      BY DEF Lives!RecountAtAgain
<1>3. SiblingLives' /\ LivesOrdered' /\ RowsLeft' /\ Stopped' = Stopped /\ Streaking' = Streaking
      BY <1>1, RecountIs, SameRows
<1>4. LifeTypes'
      BY <1>1, RecountIs DEF CountsSound, LifeTypes
<1>5. PresentLife'
      BY <1>1 DEF CountsSound, PresentLife
<1>6. RowsNumbered'
      <2>1. \A k : ExactRow(k)' <=> ExactRow(k)
            BY <1>1, <1>3 DEF ExactRow
      <2>2. recount'[latest] # Lives!Asking /\ (recount'[latest] = Lives!Unset /\ latest \notin behind => ExactRow(latest))
            BY <1>1, RecountIs DEF CountsSound, RowsNumbered, AskingLife
      <2>3. /\ \A k \in Streaking : lives[k] # NoLife /\ (k = Stopped + 1 \/ lives[k - 1] = NoLife) => ExactRow(k)
            /\ Stopped = latest - 1 => ExactRow(latest)
            BY DEF CountsSound, RowsNumbered
      <2> QED BY <1>1, <1>3, <2>1, <2>2, <2>3 DEF RowsNumbered, AskingLife
<1> QED BY <1>3, <1>4, <1>5, <1>6 DEF CountsSound

\* One of the two fails, and the life may be behind.
LEMMA RecountFailsKeeps ==
    ASSUME OneLife, CountsSound, latest # 0, Lives!RecountFails(latest)
    PROVE  CountsSound'
<1>1. /\ pc[latest] = "up" /\ recount' = [recount EXCEPT ![latest] = Lives!Unset] /\ latest \in behind'
      /\ UNCHANGED <<samePid, tick, lives, pc, born, since, latest, outcome>>
      BY DEF Lives!RecountFails
<1>2. latest \in Lives!Lives /\ recount'[latest] = Lives!Unset /\ recount'[0] = recount[0] /\ recount' \in [Lives!Lives -> Int]
      BY <1>1, LifeFacts DEF OneLife, CountsSound, LifeTypes, Lives!Unset
<1>3. SiblingLives' /\ LivesOrdered' /\ RowsLeft' /\ Stopped' = Stopped /\ Streaking' = Streaking
      BY <1>1, <1>2, SameRows
<1>4. LifeTypes'
      BY <1>1, <1>2 DEF CountsSound, LifeTypes
<1>5. PresentLife'
      BY <1>1 DEF CountsSound, PresentLife
<1>6. RowsNumbered'
      <2>1. \A k : ExactRow(k)' <=> ExactRow(k)
            BY <1>1, <1>3 DEF ExactRow
      <2>2. recount'[latest] # Lives!Asking
            BY <1>2 DEF Lives!Unset, Lives!Asking
      <2>3. /\ \A k \in Streaking : lives[k] # NoLife /\ (k = Stopped + 1 \/ lives[k - 1] = NoLife) => ExactRow(k)
            /\ Stopped = latest - 1 => ExactRow(latest)
            BY DEF CountsSound, RowsNumbered
      <2> QED BY <1>1, <1>3, <2>1, <2>2, <2>3 DEF RowsNumbered, AskingLife
<1> QED BY <1>3, <1>4, <1>5, <1>6 DEF CountsSound

\* What the pruning takes: dead rows with two newer dead ones, and every older one that
\* is dead.
LEMMA PruneIs ==
    ASSUME OneLife, CountsSound, latest # 0, Lives!Prune(Lives!Rows \ {latest}, KeptPerName)
    PROVE  \E P \in SUBSET (1 .. latest - 1) :
              /\ lives' = [l \in Lives!Lives |-> IF l \in P THEN NoLife ELSE lives[l]]
              /\ \A x \in P : lives[x] # NoLife /\ (outcome[x] = "stop" \/ Lives!GoneQuiet(x))
              /\ \A x \in P, j \in 1 .. latest - 1 :
                    j < x /\ lives[j] # NoLife /\ (outcome[j] = "stop" \/ Lives!GoneQuiet(j)) => j \in P
              /\ \A x \in P : \E p, q \in 1 .. latest - 1 :
                    /\ x < p /\ p < q /\ lives[p] # NoLife /\ lives[q] # NoLife
                    /\ outcome[p] = "stop" \/ Lives!GoneQuiet(p)
                    /\ outcome[q] = "stop" \/ Lives!GoneQuiet(q)
<1> DEFINE dead == {l \in Lives!Rows \ {latest} : Lives!InstanceDead(l)}
           newer(x) == {k \in dead : lives[k].started > lives[x].started}
           P == {x \in dead : Cardinality(newer(x)) >= KeptPerName}
<1>0. latest \in Nat /\ latest \in 1 .. MaxLives /\ Lives!Lives = 0 .. MaxLives /\ MaxLives \in Nat /\ KeptPerName \in Nat /\ KeptPerName >= 2
      BY StreakFacts, LifeFacts
<1>1. \A k \in Lives!Rows : k \in 0 .. latest
      BY <1>0 DEF Lives!Rows, CountsSound, LivesOrdered
<1>2. ~Lives!InstanceDead(0)
      <2>1. lives[0] \in Lives!InstanceRow /\ tick \in Nat /\ QuietAfter \in Nat
            BY LifeFacts DEF CountsSound, LifeTypes, SiblingLives
      <2>2. lives[0].beat \in Nat /\ lives[0].beat >= tick - QuietAfter /\ ~lives[0].stopped
            BY <2>1 DEF Lives!InstanceRow, CountsSound, SiblingLives
      <2> QED BY <2>1, <2>2 DEF Lives!InstanceDead, Lives!GoneQuiet
<1>3. \A k \in 1 .. latest - 1 : k \in Lives!Rows <=> lives[k] # NoLife
      BY <1>0 DEF Lives!Rows
<1>4. \A k \in 1 .. latest - 1 : lives[k] # NoLife => /\ Lives!InstanceDead(k) <=> (outcome[k] = "stop" \/ Lives!GoneQuiet(k))
                                                      /\ lives[k].started = born[k] /\ born[k] \in Nat
      <2>1. \A k \in 1 .. latest - 1 : k \in 1 .. latest
            BY <1>0
      <2>2. \A k \in 1 .. latest - 1 : lives[k] # NoLife => /\ lives[k].stopped = (outcome[k] = "stop")
                                                            /\ lives[k].started = born[k] /\ born[k] \in Nat
            BY <2>1, RowFacts
      <2> QED BY <2>2 DEF Lives!InstanceDead
<1>5. \A k : k \in dead <=> k \in 1 .. latest - 1 /\ lives[k] # NoLife /\ (outcome[k] = "stop" \/ Lives!GoneQuiet(k))
      <2>1. \A k \in dead : k \in 0 .. latest /\ k # latest /\ k # 0
            BY <1>1, <1>2
      <2>2. \A k \in dead : k \in 1 .. latest - 1
            BY <1>0, <2>1
      <2>3. \A k \in 1 .. latest - 1 : k # latest
            BY <1>0
      <2> QED BY <1>3, <1>4, <2>2, <2>3
<1>6. \A j, k \in 1 .. latest - 1 : j < k => born[j] < born[k]
      <2>1. \A k \in 1 .. latest - 1 : k \in 0 .. latest
            BY <1>0
      <2> QED BY <2>1 DEF CountsSound, LivesOrdered
<1>7. \A x, k \in dead : lives[k].started > lives[x].started <=> k > x
      <2>1. \A x, k \in 1 .. latest - 1 : k > x \/ k = x \/ x > k
            BY <1>0
      <2>2. \A x \in dead : x \in 1 .. latest - 1 /\ lives[x].started = born[x] /\ born[x] \in Nat
            BY <1>4, <1>5
      <2>3. \A x, k \in 1 .. latest - 1 : k > x <=> x < k
            BY <1>0
      <2> HIDE DEF dead
      <2> QED BY <1>6, <2>1, <2>2, <2>3
<1>8. \A x \in dead : newer(x) = {k \in dead : k > x}
      BY <1>7
<1>9. \A x \in dead : IsFiniteSet(newer(x)) /\ Cardinality(newer(x)) \in Nat
      <2>1. IsFiniteSet(1 .. latest - 1)
            BY <1>0, FS_Interval
      <2>2. \A x : newer(x) \subseteq 1 .. latest - 1
            BY <1>5
      <2> HIDE DEF newer
      <2> QED BY <2>1, <2>2, FS_Subset, FS_CardinalityType
<1>10. lives' = [l \in Lives!Lives |-> IF l \in P THEN NoLife ELSE lives[l]]
      BY CountsAlike DEF Lives!Prune
<1>11. ASSUME NEW x \in P, NEW j \in 1 .. latest - 1,
              j < x /\ lives[j] # NoLife /\ (outcome[j] = "stop" \/ Lives!GoneQuiet(j))
       PROVE  j \in P
      <2>1. j \in dead /\ x \in dead /\ x \in 1 .. latest - 1
            BY <1>5, <1>11
      <2>2. newer(x) \subseteq newer(j)
            <3>1. \A k \in dead : k \in 1 .. latest - 1
                  BY <1>5
            <3>2. \A k \in dead : k > x => k > j
                  BY <1>0, <1>11, <2>1, <3>1
            <3> HIDE DEF dead, newer
            <3> QED BY <1>8, <2>1, <3>2
      <2>3. Cardinality(newer(x)) <= Cardinality(newer(j))
            <3> HIDE DEF dead, newer
            <3> QED BY <1>9, <2>1, <2>2, FS_Subset
      <2>4. Cardinality(newer(x)) >= KeptPerName
            BY <1>11
      <2>5. Cardinality(newer(j)) >= KeptPerName
            <3> HIDE DEF dead, newer
            <3> QED BY <1>0, <1>9, <2>1, <2>3, <2>4
      <2> QED BY <2>1, <2>5
<1>12. ASSUME NEW x \in P
       PROVE  \E p, q \in dead : x < p /\ p < q
      <2>1. x \in dead /\ Cardinality(newer(x)) >= KeptPerName
            BY <1>12
      <2>2. IsFiniteSet(newer(x)) /\ Cardinality(newer(x)) \in Nat /\ Cardinality(newer(x)) >= 2
            <3> HIDE DEF dead, newer
            <3> QED BY <1>0, <1>9, <2>1
      <2>3. PICK p \in newer(x) : TRUE
            <3> HIDE DEF newer
            <3> QED BY <2>2, FS_EmptySet
      <2>4. PICK q \in newer(x) : q # p
            <3> SUFFICES ASSUME \A q \in newer(x) : q = p PROVE FALSE
                OBVIOUS
            <3>1. newer(x) = {p}
                  BY <2>3
            <3> HIDE DEF newer
            <3> QED BY <2>2, <3>1, FS_Singleton
      <2>5. p \in dead /\ q \in dead /\ p > x /\ q > x
            <3> HIDE DEF dead, newer
            <3> QED BY <1>8, <2>1, <2>3, <2>4
      <2>6. p \in 1 .. latest - 1 /\ q \in 1 .. latest - 1 /\ x \in 1 .. latest - 1
            BY <1>5, <2>1, <2>5
      <2>7. x < p /\ x < q /\ (p < q \/ q < p)
            BY <1>0, <2>4, <2>5, <2>6
      <2> HIDE DEF dead
      <2> QED BY <2>5, <2>7
<1>13. \A x \in P : x \in dead
      OBVIOUS
<1> HIDE DEF P, dead
<1> QED BY <1>5, <1>10, <1>11, <1>12, <1>13

\* A registration prunes the rows of its name.
LEMMA PruneLivesKeeps ==
    ASSUME OneLife, CountsSound, latest # 0, Lives!PruneLives(latest)
    PROVE  CountsSound'
<1>1. /\ Lives!Prune(Lives!Rows \ {latest}, KeptPerName) /\ pc[latest] = "prune" /\ pc' = [pc EXCEPT ![latest] = "up"]
      /\ UNCHANGED <<samePid, tick, born, recount, since, latest, outcome, behind>>
      BY DEF Lives!PruneLives
<1>2. /\ latest \in Lives!Lives /\ latest \in Nat /\ pc'[latest] = "up" /\ pc'[0] = pc[0]
      /\ Lives!Lives = 0 .. MaxLives /\ MaxLives \in Nat /\ latest \in 1 .. MaxLives
      BY <1>1, LifeFacts, StreakFacts DEF OneLife
<1>3. PICK P \in SUBSET (1 .. latest - 1) :
              /\ lives' = [l \in Lives!Lives |-> IF l \in P THEN NoLife ELSE lives[l]]
              /\ \A x \in P : lives[x] # NoLife /\ (outcome[x] = "stop" \/ Lives!GoneQuiet(x))
              /\ \A x \in P, j \in 1 .. latest - 1 :
                    j < x /\ lives[j] # NoLife /\ (outcome[j] = "stop" \/ Lives!GoneQuiet(j)) => j \in P
              /\ \A x \in P : \E p, q \in 1 .. latest - 1 :
                    /\ x < p /\ p < q /\ lives[p] # NoLife /\ lives[q] # NoLife
                    /\ outcome[p] = "stop" \/ Lives!GoneQuiet(p)
                    /\ outcome[q] = "stop" \/ Lives!GoneQuiet(q)
      BY <1>1, PruneIs
<1>4. PICK s : s = Stopped
      OBVIOUS
<1>5. s \in 0 .. latest - 1 /\ Streaking = s + 1 .. latest - 1 /\ \A k \in Streaking : outcome[k] # "stop" /\ k \in 1 .. latest - 1
      BY <1>4, StreakFacts
<1>6. Stopped' = s /\ Streaking' = Streaking
      BY <1>1, <1>4, LastStopKept DEF Streaking
<1>7. \A l \in Lives!Lives : lives'[l] = IF l \in P THEN NoLife ELSE lives[l]
      BY <1>3
<1>8. 0 \notin P /\ latest \notin P /\ \A k \in 1 .. latest : k \in Lives!Lives
      BY <1>2, <1>3
<1>9. lives'[0] = lives[0] /\ lives'[latest] = lives[latest]
      BY <1>2, <1>7, <1>8, LifeFacts
<1>10. LifeTypes'
      <2>1. lives' \in [Lives!Lives -> Lives!InstanceRow \cup {NoLife}]
            BY <1>3 DEF CountsSound, LifeTypes
      <2> QED BY <1>1, <2>1 DEF CountsSound, LifeTypes
<1>11. SiblingLives'
      BY <1>1, <1>2, <1>9 DEF CountsSound, SiblingLives
<1>12. LivesOrdered'
      <2>1. \A k \in Lives!Lives : lives'[k] # NoLife => lives'[k] = lives[k]
            BY <1>7
      <2>2. \A k \in Lives!Lives : k > latest => lives'[k] = NoLife
            BY <1>7 DEF CountsSound, LivesOrdered
      <2> QED BY <1>1, <1>8, <2>1, <2>2 DEF CountsSound, LivesOrdered
<1>13. PresentLife'
      <2>1. lives[latest].beat >= tick - QuietAfter
            <3>1. latest \in 1 .. latest /\ lives[latest] # NoLife /\ tick <= born[latest] + since /\ since \in {0, 1} /\ tick \in Nat /\ QuietAfter \in Nat /\ QuietAfter >= 1
                  BY <1>1, <1>2, LifeFacts DEF CountsSound, PresentLife, LifeTypes
            <3>2. born[latest] <= lives[latest].beat /\ born[latest] \in Nat /\ lives[latest].beat \in Nat
                  BY <3>1, RowFacts
            <3> QED BY <3>1, <3>2
      <2> QED BY <1>1, <1>2, <1>9, <2>1 DEF CountsSound, PresentLife
<1>14. RowsLeft'
      <2>1. ASSUME NEW j \in Streaking, NEW k \in Streaking, j < k, lives'[j] # NoLife
            PROVE  lives'[k] # NoLife
            <3>1. j \in 1 .. latest - 1 /\ k \in 1 .. latest - 1 /\ j \in Lives!Lives /\ k \in Lives!Lives
                  BY <1>5, StreakFacts
            <3>2. lives[j] # NoLife /\ j \notin P
                  BY <1>7, <2>1, <3>1
            <3>3. lives[k] # NoLife
                  BY <2>1, <3>2 DEF CountsSound, RowsLeft
            <3>4. k \notin P
                  <4> SUFFICES ASSUME k \in P PROVE FALSE
                      OBVIOUS
                  <4>1. Lives!GoneQuiet(k)
                        BY <1>3, <1>5
                  <4>2. Lives!GoneQuiet(j)
                        BY <2>1, <3>1, <3>2, <3>3, <4>1, OlderIsDead
                  <4> QED BY <1>3, <2>1, <3>1, <3>2, <4>2
            <3> QED BY <1>7, <3>1, <3>3, <3>4
      <2>2. ASSUME s # 0, lives'[s] = NoLife, NEW k \in 1 .. s
            PROVE  lives'[k] = NoLife
            <3>1. s \in 1 .. latest - 1 /\ s \in Lives!Lives /\ k \in 1 .. latest - 1 /\ k \in Lives!Lives /\ (k = s \/ k < s)
                  BY <1>2, <1>5, <2>2
            <3>2. CASE lives[s] = NoLife
                  <4>1. lives[k] = NoLife
                        BY <1>4, <2>2, <3>2 DEF CountsSound, RowsLeft
                  <4> QED BY <1>7, <3>1, <4>1
            <3>3. CASE lives[s] # NoLife
                  <4>1. s \in P
                        BY <1>7, <2>2, <3>1, <3>3
                  <4>2. PICK p \in 1 .. latest - 1 : s < p /\ lives[p] # NoLife /\ (outcome[p] = "stop" \/ Lives!GoneQuiet(p))
                        BY <1>3, <4>1
                  <4>3. p \in Streaking /\ k < p
                        BY <1>2, <1>5, <3>1, <4>2
                  <4>4. Lives!GoneQuiet(p)
                        BY <1>5, <4>2, <4>3
                  <4>5. CASE lives[k] = NoLife
                        BY <1>7, <3>1, <4>5
                  <4>6. CASE lives[k] # NoLife
                        <5>1. Lives!GoneQuiet(k)
                              BY <3>1, <4>2, <4>3, <4>4, <4>6, OlderIsDead
                        <5>2. k \in P
                              BY <1>3, <3>1, <4>1, <4>6, <5>1
                        <5> QED BY <1>7, <3>1, <5>2
                  <4> QED BY <4>5, <4>6
            <3> QED BY <3>2, <3>3
      <2>3. latest > 1 => lives'[latest - 1] # NoLife
            <3> SUFFICES ASSUME latest > 1 PROVE lives'[latest - 1] # NoLife
                OBVIOUS
            <3>1. latest - 1 \in Lives!Lives /\ lives[latest - 1] # NoLife
                  BY <1>2 DEF CountsSound, RowsLeft
            <3>2. latest - 1 \notin P
                  <4>1. \A p \in 1 .. latest - 1 : ~(latest - 1 < p)
                        BY <1>2
                  <4> QED BY <1>3, <4>1
            <3> QED BY <1>7, <3>1, <3>2
      <2> QED BY <1>1, <1>6, <2>1, <2>2, <2>3 DEF RowsLeft
<1>15. RowsNumbered'
      <2>1. \A k \in Lives!Lives : lives'[k] # NoLife => (ExactRow(k)' <=> ExactRow(k))
            BY <1>4, <1>6, <1>7 DEF ExactRow
      <2>2. ASSUME NEW k \in Streaking, lives'[k] # NoLife, k = s + 1 \/ lives'[k - 1] = NoLife
            PROVE  ExactRow(k)'
            <3>1. k \in Lives!Lives /\ k \in 1 .. latest - 1 /\ k \in s + 1 .. latest - 1
                  BY <1>5, StreakFacts
            <3>2. lives[k] # NoLife
                  BY <1>7, <2>2, <3>1
            <3>3. CASE k = s + 1 \/ lives[k - 1] = NoLife
                  <4>1. ExactRow(k)
                        BY <1>4, <3>2, <3>3 DEF CountsSound, RowsNumbered
                  <4> QED BY <2>1, <2>2, <3>1, <4>1
            <3>4. CASE ~(k = s + 1 \/ lives[k - 1] = NoLife)
                  <4>1. k - 1 \in P
                        <5>1. k - 1 \in Lives!Lives
                              BY <1>2, <3>1
                        <5> QED BY <1>7, <2>2, <3>4, <5>1
                  <4>2. PICK p, q \in 1 .. latest - 1 :
                            k - 1 < p /\ p < q /\ lives[q] # NoLife /\ (outcome[q] = "stop" \/ Lives!GoneQuiet(q))
                        BY <1>3, <4>1
                  <4>3. q \in Streaking /\ k < q
                        BY <1>2, <1>5, <3>1, <4>2
                  <4>4. Lives!GoneQuiet(q)
                        BY <1>5, <4>2, <4>3
                  <4>5. ExactRow(k)
                        BY <1>1, <3>2, <4>2, <4>3, <4>4 DEF CountsSound, RowsNumbered
                  <4> QED BY <2>1, <2>2, <3>1, <4>5
            <3> QED BY <3>3, <3>4
      <2>3. ExactRow(latest)' <=> ExactRow(latest)
            BY <1>1, <1>4, <1>6, <1>9 DEF ExactRow
      <2>4. /\ s = latest - 1 => ExactRow(latest)
            /\ recount[latest] = Lives!Unset /\ latest \notin behind => ExactRow(latest)
            /\ recount[latest] # Lives!Asking
            BY <1>1, <1>4 DEF CountsSound, RowsNumbered
      <2>5. /\ Streaking' = Streaking /\ Stopped' = s /\ latest' = latest /\ recount' = recount /\ pc'[latest] = "up"
            /\ behind' = behind
            BY <1>1, <1>2, <1>6
      <2> QED BY <2>2, <2>3, <2>4, <2>5 DEF RowsNumbered, AskingLife
<1> QED BY <1>10, <1>11, <1>12, <1>13, <1>14, <1>15 DEF CountsSound

\* The pruning fails: the registration is over all the same.
LEMMA RegistrationFailsKeeps ==
    ASSUME OneLife, CountsSound, Unspoiled', latest # 0, Lives!RegistrationFails(latest)
    PROVE  CountsSound'
<1>1. /\ pc[latest] \in {"count", "recountAt", "prune"} /\ pc' = [pc EXCEPT ![latest] = "up"]
      /\ UNCHANGED <<samePid, tick, lives, born, recount, since, latest, outcome, behind>>
      /\ spoiled' = IF pc[latest] = "prune" THEN spoiled ELSE spoiled \union {latest}
      BY DEF Lives!RegistrationFails
<1>2. /\ latest \in Lives!Lives /\ latest \in Nat /\ pc'[latest] = "up" /\ pc'[0] = pc[0]
      BY <1>1, LifeFacts, StreakFacts DEF OneLife
<1>3. pc[latest] = "prune"
      BY <1>1, <1>2 DEF Unspoiled
<1>4. /\ SiblingLives' /\ LivesOrdered' /\ RowsLeft' /\ Stopped' = Stopped /\ Streaking' = Streaking
      BY <1>1, <1>2, SameRows
<1>5. LifeTypes'
      BY <1>1 DEF CountsSound, LifeTypes
<1>6. PresentLife'
      <2>1. lives[latest].beat >= tick - QuietAfter
            <3>1. latest \in 1 .. latest /\ lives[latest] # NoLife /\ tick <= born[latest] + since /\ since \in {0, 1} /\ tick \in Nat /\ QuietAfter \in Nat /\ QuietAfter >= 1
                  BY <1>1, <1>2, LifeFacts DEF CountsSound, PresentLife, LifeTypes
            <3>2. born[latest] <= lives[latest].beat /\ born[latest] \in Nat /\ lives[latest].beat \in Nat
                  BY <3>1, RowFacts
            <3> QED BY <3>1, <3>2
      <2> QED BY <1>1, <1>2, <2>1 DEF CountsSound, PresentLife
<1>7. RowsNumbered'
      <2>1. \A k : ExactRow(k)' <=> ExactRow(k)
            BY <1>1, <1>4 DEF ExactRow
      <2> QED BY <1>1, <1>2, <1>3, <1>4, <2>1 DEF CountsSound, RowsNumbered, AskingLife
<1> QED BY <1>4, <1>5, <1>6, <1>7 DEF CountsSound

\* A life begins.
LEMMA RegisterKeeps ==
    ASSUME OneLife, CountsSound, Unspoiled', NEW fails \in BOOLEAN, Lives!Register(fails)
    PROVE  CountsSound'
<1>1. PICK n : n = latest + 1
      OBVIOUS
<1>2. /\ latest \in Nat /\ Lives!Lives = 0 .. MaxLives /\ MaxLives \in Nat /\ n \in Lives!Lives /\ n \in Nat \ {0} /\ n > latest /\ n # 0 /\ 0 \in Lives!Lives
      /\ \A k \in 0 .. n : k = n \/ (k \in 0 .. latest /\ k # n)
      /\ \A k \in 0 .. latest : k \in Lives!Lives /\ k # n
      <2>1. latest \in Nat /\ n <= MaxLives /\ Lives!Lives = 0 .. MaxLives /\ MaxLives \in Nat
            BY <1>1, LifeFacts DEF OneLife, Lives!Register, Lives!NextLife
      <2> QED BY <1>1, <2>1
<1>3. ~fails
      <2>1. latest' = n /\ spoiled' = IF fails THEN spoiled \union {n} ELSE spoiled
            BY <1>1 DEF Lives!Register, Lives!NextLife
      <2> QED BY <1>2, <2>1 DEF Unspoiled
<1>4. /\ latest = 0 \/ pc[latest] = "ended"
      /\ latest # 0 => lives[latest].beat < tick
      /\ born[latest] < tick
      /\ latest' = n /\ lives' = [lives EXCEPT ![n] = Lives!Fresh(tick)] /\ born' = [born EXCEPT ![n] = tick]
      /\ pc' = [pc EXCEPT ![n] = "count"] /\ since' = 0
      /\ UNCHANGED <<samePid, tick, recount, outcome>>
      BY <1>1, <1>3 DEF Lives!Register, Lives!NextLife, CountsSound, PresentLife
<1>5. PICK f : f = Lives!Fresh(tick)
      OBVIOUS
<1>6. f \in Lives!InstanceRow /\ f # NoLife /\ f.started = tick /\ f.beat = tick /\ f.stopped = FALSE /\ f.restarts = 0 /\ tick \in Nat
      <2>1. tick \in Nat
            BY DEF CountsSound, LifeTypes
      <2>2. f \in Lives!InstanceRow
            BY <1>5, <2>1 DEF Lives!Fresh, Lives!InstanceRow
      <2> QED BY <1>5, <2>1, <2>2, LifeFacts DEF Lives!Fresh
<1>7. /\ lives'[n] = f /\ born'[n] = tick /\ pc'[n] = "count"
      /\ \A k \in Lives!Lives : k # n => lives'[k] = lives[k] /\ born'[k] = born[k] /\ pc'[k] = pc[k]
      BY <1>2, <1>4, <1>5 DEF CountsSound, LifeTypes, OneLife
<1>8. LifeTypes'
      <2>1. lives' \in [Lives!Lives -> Lives!InstanceRow \cup {NoLife}] /\ born' \in [Lives!Lives -> Nat]
            BY <1>4, <1>5, <1>6 DEF CountsSound, LifeTypes
      <2> QED BY <1>4, <2>1 DEF CountsSound, LifeTypes
<1>9. SiblingLives'
      BY <1>2, <1>4, <1>7 DEF CountsSound, SiblingLives
<1>10. LivesOrdered'
      <2>1. \A k \in 0 .. latest : born[k] < tick
            <3>1. \A k \in 0 .. latest : born[k] \in Nat /\ (k = latest \/ k < latest)
                  BY <1>2 DEF CountsSound, LifeTypes
            <3>2. latest \in 0 .. latest
                  BY <1>2
            <3> QED BY <1>4, <1>6, <3>1, <3>2 DEF CountsSound, LivesOrdered
      <2>2. \A i, j \in 0 .. n : i < j => born'[i] < born'[j]
            <3> SUFFICES ASSUME NEW i \in 0 .. n, NEW j \in 0 .. n, i < j
                         PROVE  born'[i] < born'[j]
                OBVIOUS
            <3>1. i \in 0 .. latest /\ i # n /\ i \in Lives!Lives
                  BY <1>1, <1>2
            <3>2. CASE j = n
                  BY <1>7, <2>1, <3>1, <3>2
            <3>3. CASE j # n
                  <4>1. j \in 0 .. latest /\ j \in Lives!Lives
                        BY <1>2, <3>3
                  <4> QED BY <1>7, <3>1, <3>3, <4>1 DEF CountsSound, LivesOrdered
            <3> QED BY <3>2, <3>3
      <2>3. ASSUME NEW k \in Lives!Lives, k > n
            PROVE  lives'[k] = NoLife /\ outcome'[k] = "none"
            <3>1. k > latest /\ k # n
                  BY <1>2, <2>3
            <3> QED BY <1>4, <1>7, <3>1 DEF CountsSound, LivesOrdered
      <2>4. ASSUME NEW k \in 1 .. n, lives'[k] # NoLife
            PROVE  /\ lives'[k].started = born'[k] /\ born'[k] <= lives'[k].beat /\ lives'[k].beat <= tick
                   /\ lives'[k].stopped = (outcome'[k] = "stop")
                   /\ \A j \in k + 1 .. n : lives'[k].beat < born'[j]
            <3>1. CASE k = n
                  <4>1. outcome[n] = "none"
                        BY <1>2 DEF CountsSound, LivesOrdered
                  <4>2. \A j \in n + 1 .. n : FALSE
                        BY <1>2
                  <4>3. lives'[k] = f /\ born'[k] = tick /\ outcome'[k] = "none"
                        BY <1>4, <1>7, <3>1, <4>1
                  <4>4. f.started = tick /\ tick <= f.beat /\ f.beat <= tick /\ f.stopped = FALSE
                        BY <1>6
                  <4>5. f.stopped = (outcome'[k] = "stop")
                        BY <4>3, <4>4
                  <4> QED BY <3>1, <4>2, <4>3, <4>4, <4>5
            <3>2. CASE k # n
                  <4>1. k \in 1 .. latest /\ k \in Lives!Lives /\ latest # 0
                        BY <1>1, <1>2, <3>2
                  <4>2. lives'[k] = lives[k] /\ born'[k] = born[k] /\ lives[k] # NoLife
                        BY <1>7, <2>4, <3>2, <4>1
                  <4>3. /\ lives[k].started = born[k] /\ born[k] <= lives[k].beat /\ lives[k].beat <= tick
                        /\ lives[k].stopped = (outcome[k] = "stop") /\ lives[k].beat \in Nat
                        /\ \A j \in k + 1 .. latest : lives[k].beat < born[j]
                        BY <4>1, <4>2, RowFacts
                  <4>4. lives[k].beat < tick
                        <5>1. CASE k = latest
                              BY <1>4, <4>1, <5>1
                        <5>2. CASE k # latest
                              <6>1. latest \in k + 1 .. latest /\ latest \in Lives!Lives
                                    BY <1>2, <4>1, <5>2 DEF OneLife
                              <6>2. lives[k].beat < born[latest] /\ born[latest] \in Nat
                                    BY <4>3, <6>1 DEF CountsSound, LifeTypes
                              <6> QED BY <1>4, <1>6, <4>3, <6>2
                        <5> QED BY <5>1, <5>2
                  <4>5. ASSUME NEW j \in k + 1 .. n
                        PROVE  lives[k].beat < born'[j]
                        <5>1. CASE j = n
                              BY <1>7, <4>4, <5>1
                        <5>2. CASE j # n
                              <6>1. j \in k + 1 .. latest /\ j \in Lives!Lives
                                    BY <1>1, <1>2, <4>1, <5>2
                              <6> QED BY <1>7, <4>3, <5>2, <6>1
                        <5> QED BY <5>1, <5>2
                  <4> QED BY <1>4, <4>2, <4>3, <4>5
            <3> QED BY <3>1, <3>2
      <2>5. born'[n] <= tick
            BY <1>6, <1>7
      <2> QED BY <1>4, <2>2, <2>3, <2>4, <2>5 DEF LivesOrdered
<1>11. PresentLife'
      <2>1. outcome[n] = "none"
            BY <1>2 DEF CountsSound, LivesOrdered
      <2>2. tick <= tick + 0
            BY <1>6
      <2> QED BY <1>4, <1>6, <1>7, <2>1, <2>2 DEF PresentLife
<1>12. LastStop(n)' = LastStop(n) /\ Stopped' = LastStop(n)
      <2>1. LastStop(n)' = LastStop(n)
            BY <1>4 DEF LastStop
      <2> QED BY <1>4, <2>1 DEF Stopped, LastStop
<1>13. n - 1 = latest /\ \A k \in 1 .. latest : k \in Lives!Lives /\ k # n
      BY <1>1, <1>2
<1>14. CASE latest = 0 \/ outcome[latest] = "stop"
      <2>1. LastStop(n) = latest
            <3>1. latest \in 0 .. n - 1 /\ \A k \in latest + 1 .. n - 1 : FALSE
                  BY <1>1, <1>2
            <3> QED BY <1>2, <1>14, <3>1, LastStopUnique
      <2>2. Stopped' = latest /\ Streaking' = {}
            <3>1. latest + 1 .. n - 1 = {}
                  BY <1>1, <1>2
            <3> QED BY <1>4, <1>12, <2>1, <3>1 DEF Streaking
      <2>3. lives'[latest] # NoLife
            BY <1>2, <1>7 DEF CountsSound, PresentLife, SiblingLives
      <2>4. RowsLeft'
            BY <1>4, <1>13, <2>2, <2>3 DEF RowsLeft
      <2>5. RowsNumbered'
            <3>1. 0 = n - 1 - latest
                  BY <1>1, <1>2
            <3>2. lives'[n].restarts = n - 1 - Stopped'
                  BY <1>6, <1>7, <2>2, <3>1
            <3> QED BY <1>4, <1>7, <2>2, <3>2 DEF RowsNumbered, ExactRow
      <2> QED BY <1>8, <1>9, <1>10, <1>11, <2>4, <2>5 DEF CountsSound
<1>15. CASE latest # 0 /\ outcome[latest] # "stop"
      <2>1. PICK s : s = Stopped
            OBVIOUS
      <2>2. /\ s \in 0 .. latest - 1 /\ (s # 0 => outcome[s] = "stop") /\ Streaking = s + 1 .. latest - 1
            /\ \A k \in s + 1 .. latest - 1 : outcome[k] # "stop"
            BY <1>15, <2>1, StreakFacts
      <2>3. LastStop(n) = s
            <3>1. s \in 0 .. n - 1 /\ \A k \in s + 1 .. n - 1 : k = latest \/ k \in s + 1 .. latest - 1
                  BY <1>1, <1>2, <2>2
            <3> QED BY <1>2, <1>15, <2>2, <3>1, LastStopUnique
      <2>4. Stopped' = s /\ Streaking' = s + 1 .. latest
            BY <1>4, <1>12, <1>13, <2>3 DEF Streaking
      <2>5. \A k \in s + 1 .. latest : k \in 1 .. latest /\ k \in Lives!Lives /\ k # n /\ (k = latest \/ (k \in Streaking /\ k < latest))
            BY <1>2, <1>13, <2>2
      <2>6. lives'[latest] = lives[latest] /\ lives[latest] # NoLife
            BY <1>2, <1>7, <1>15 DEF CountsSound, PresentLife, OneLife
      <2>7. RowsLeft'
            <3>1. ASSUME NEW j \in s + 1 .. latest, NEW k \in s + 1 .. latest, j < k, lives'[j] # NoLife
                  PROVE  lives'[k] # NoLife
                  <4>1. j # latest
                        BY <1>2, <2>2, <3>1
                  <4>2. lives[j] # NoLife /\ j \in Streaking
                        BY <1>7, <2>5, <3>1, <4>1
                  <4>3. CASE k = latest
                        BY <2>6, <4>3
                  <4>4. CASE k # latest
                        <5>1. k \in Streaking /\ lives'[k] = lives[k]
                              BY <1>7, <2>5, <4>4
                        <5> QED BY <3>1, <4>2, <5>1 DEF CountsSound, RowsLeft
                  <4> QED BY <4>3, <4>4
            <3>2. s # 0 /\ lives'[s] = NoLife => \A k \in 1 .. s : lives'[k] = NoLife
                  <4>1. s \in Lives!Lives /\ s # n /\ \A k \in 1 .. s : k \in Lives!Lives /\ k # n
                        BY <1>2, <2>2
                  <4>2. s # 0 /\ lives[s] = NoLife => \A k \in 1 .. s : lives[k] = NoLife
                        BY <2>1 DEF CountsSound, RowsLeft
                  <4> QED BY <1>7, <4>1, <4>2
            <3> QED BY <1>4, <1>13, <2>4, <2>6, <3>1, <3>2 DEF RowsLeft
      <2>8. ASSUME NEW k \in s + 1 .. latest, lives'[k] # NoLife, k = s + 1 \/ lives'[k - 1] = NoLife
            PROVE  ExactRow(k)'
            <3>1. lives'[k] = lives[k]
                  BY <1>7, <2>5
            <3>2. ExactRow(k)
                  <4>1. CASE k = latest
                        <5>1. s = latest - 1
                              <6> SUFFICES ASSUME s # latest - 1 PROVE FALSE
                                  OBVIOUS
                              <6>1. latest > 1 /\ latest - 1 \in Lives!Lives /\ latest - 1 # n /\ k # s + 1
                                    BY <1>2, <2>2, <4>1
                              <6>2. lives'[latest - 1] = lives[latest - 1] /\ lives[latest - 1] # NoLife
                                    BY <1>7, <6>1 DEF CountsSound, RowsLeft
                              <6> QED BY <2>8, <4>1, <6>1, <6>2
                        <5> QED BY <1>15, <2>1, <4>1, <5>1 DEF CountsSound, RowsNumbered
                  <4>2. CASE k # latest
                        <5>1. k \in Streaking /\ (k = s + 1 \/ lives[k - 1] = NoLife)
                              <6>1. k # s + 1 => k - 1 \in Lives!Lives /\ k - 1 # n
                                    BY <1>2, <2>2, <2>5
                              <6> QED BY <1>7, <2>5, <2>8, <4>2, <6>1
                        <5> QED BY <2>1, <2>8, <3>1, <5>1 DEF CountsSound, RowsNumbered
                  <4> QED BY <4>1, <4>2
            <3> QED BY <2>1, <2>4, <3>1, <3>2 DEF ExactRow
      <2>9. s # n - 1
            BY <1>13, <1>2, <2>2
      <2>10. RowsNumbered'
            BY <1>4, <1>7, <2>4, <2>8, <2>9 DEF RowsNumbered, AskingLife
      <2> QED BY <1>8, <1>9, <1>10, <1>11, <2>7, <2>10 DEF CountsSound
<1> QED BY <1>14, <1>15

\* A life, or its sibling, beats.
LEMMA BeatKeeps ==
    ASSUME OneLife, CountsSound, NEW l \in Lives!Lives, Lives!Beat(l)
    PROVE  CountsSound'
<1>1. /\ pc[l] = "up" /\ UNCHANGED <<samePid, tick, pc, born, recount, since, latest, outcome, behind>>
      /\ lives' = [lives EXCEPT ![l] = IF @ = NoLife THEN [Lives!Fresh(born[l]) EXCEPT !.beat = tick]
                                   ELSE [@ EXCEPT !.beat = tick]]
      BY DEF Lives!Beat
<1>2. l = 0 \/ (l = latest /\ latest # 0)
      BY <1>1, WhoMoves
<1>3. lives[l] # NoLife /\ lives[l] \in Lives!InstanceRow /\ tick \in Nat /\ QuietAfter \in Nat
      BY <1>2, LifeFacts DEF CountsSound, SiblingLives, PresentLife, LifeTypes
<1>4. PICK r \in Lives!InstanceRow : r = lives[l]
      BY <1>3
<1>5. PICK b : b = [r EXCEPT !.beat = tick]
      OBVIOUS
<1>6. /\ b \in Lives!InstanceRow /\ b # NoLife /\ b.beat = tick
      /\ b.started = r.started /\ b.stopped = r.stopped /\ b.restarts = r.restarts
      <2>1. b \in Lives!InstanceRow
            BY <1>3, <1>5 DEF Lives!InstanceRow
      <2> QED BY <1>5, <2>1, LifeFacts DEF Lives!InstanceRow
<1>7. lives' = [lives EXCEPT ![l] = b]
      BY <1>1, <1>3, <1>4, <1>5
<1>8. lives'[l] = b /\ \A k \in Lives!Lives : k # l => lives'[k] = lives[k]
      BY <1>7 DEF CountsSound, LifeTypes
<1>9. LifeTypes'
      BY <1>1, <1>6, <1>7 DEF CountsSound, LifeTypes
<1>10. \A k \in Lives!Lives : /\ lives'[k] = NoLife <=> lives[k] = NoLife
                              /\ lives'[k] # NoLife => /\ lives'[k].started = lives[k].started /\ lives'[k].stopped = lives[k].stopped
                                                       /\ lives'[k].restarts = lives[k].restarts
      BY <1>3, <1>4, <1>6, <1>8
<1>11. tick >= tick - QuietAfter
      BY <1>3
<1>12. SiblingLives'
      <2>1. lives'[0].beat >= tick - QuietAfter
            BY <1>2, <1>6, <1>8, <1>11, LifeFacts DEF CountsSound, SiblingLives
      <2> QED BY <1>1, <1>10, <2>1, LifeFacts DEF CountsSound, SiblingLives
<1>13. latest \in Nat /\ latest \in Lives!Lives /\ Lives!Lives = 0 .. MaxLives /\ MaxLives \in Nat /\ \A k \in 1 .. latest : k \in Lives!Lives /\ k # 0
      BY LifeFacts DEF OneLife
<1>14. LivesOrdered'
      <2>1. \A k \in Lives!Lives : k > latest => lives'[k] = NoLife
            BY <1>10 DEF CountsSound, LivesOrdered
      <2>2. ASSUME NEW k \in 1 .. latest, lives'[k] # NoLife
            PROVE  /\ lives'[k].started = born[k] /\ lives'[k].stopped = (outcome[k] = "stop")
                   /\ born[k] <= lives'[k].beat /\ lives'[k].beat <= tick
                   /\ \A j \in k + 1 .. latest : lives'[k].beat < born[j]
            <3>1. k \in Lives!Lives /\ lives[k] # NoLife
                  BY <1>10, <1>13, <2>2
            <3>2. lives'[k].started = born[k] /\ lives'[k].stopped = (outcome[k] = "stop")
                  BY <1>10, <2>2, <3>1, RowFacts, <1>13
            <3>3. CASE k = l
                  <4>1. k = latest /\ \A j \in k + 1 .. latest : FALSE
                        BY <1>2, <1>13, <3>3
                  <4>2. tick <= tick
                        BY <1>3
                  <4> QED BY <1>6, <1>8, <3>2, <3>3, <4>1, <4>2 DEF CountsSound, LivesOrdered
            <3>4. CASE k # l
                  BY <1>8, <3>1, <3>2, <3>4 DEF CountsSound, LivesOrdered
            <3> QED BY <3>3, <3>4
      <2> QED BY <1>1, <2>1, <2>2 DEF CountsSound, LivesOrdered
<1>15. PresentLife'
      <2>1. pc[latest] = "up" /\ latest # 0 => lives'[latest].beat >= tick - QuietAfter
            BY <1>2, <1>6, <1>8, <1>11, <1>13 DEF CountsSound, PresentLife
      <2> QED BY <1>1, <1>10, <1>13, <2>1 DEF CountsSound, PresentLife
<1>16. Stopped' = Stopped /\ Streaking' = Streaking
      BY <1>1, LastStopKept DEF Streaking
<1>17. CASE latest = 0
      <2>1. Stopped = 0 /\ Streaking = {}
            <3>1. {k \in 1 .. latest - 1 : outcome[k] = "stop"} = {}
                  BY <1>17
            <3>2. Stopped = 0
                  BY <3>1 DEF Stopped, LastStop
            <3> QED BY <1>17, <3>2 DEF Streaking
      <2>2. RowsLeft' /\ RowsNumbered'
            BY <1>1, <1>16, <1>17, <2>1 DEF CountsSound, RowsLeft, RowsNumbered, AskingLife, SiblingLives
      <2> QED BY <1>9, <1>12, <1>14, <1>15, <2>2 DEF CountsSound
<1>18. CASE latest # 0
      <2>1. PICK s : s = Stopped
            OBVIOUS
      <2>2. s \in 0 .. latest - 1 /\ Streaking = s + 1 .. latest - 1 /\ latest \in 1 .. MaxLives
            BY <1>18, <2>1, StreakFacts
      <2>3. /\ \A k \in Streaking : k \in Lives!Lives /\ k # latest /\ k # 0 /\ (k = s + 1 \/ k - 1 \in Lives!Lives)
            /\ s \in Lives!Lives /\ (\A k \in 1 .. s : k \in Lives!Lives) /\ (latest > 1 => latest - 1 \in Lives!Lives)
            BY <1>13, <2>2
      <2>4. \A k \in Streaking : lives'[k] = lives[k]
            BY <1>2, <1>8, <2>3
      <2>5. RowsLeft'
            BY <1>1, <1>10, <1>16, <2>1, <2>3 DEF CountsSound, RowsLeft
      <2>6. \A k \in Lives!Lives : lives'[k] # NoLife => (ExactRow(k)' <=> ExactRow(k))
            BY <1>10, <1>16 DEF ExactRow
      <2>7. \A k \in Streaking : /\ Lives!GoneQuiet(k)' <=> Lives!GoneQuiet(k)
                                 /\ Lives!CrashDead(latest, k)' <=> Lives!CrashDead(latest, k)
            BY <1>1, <2>4 DEF Lives!GoneQuiet, Lives!CrashDead
      <2>8. ExactRow(latest)' <=> ExactRow(latest)
            BY <1>1, <1>10, <1>13, <1>16, <1>18 DEF ExactRow, CountsSound, PresentLife
      <2>9. \A k \in Streaking : lives'[k] # NoLife /\ (k = s + 1 \/ lives'[k - 1] = NoLife) => ExactRow(k)'
            BY <1>10, <2>1, <2>3, <2>6 DEF CountsSound, RowsNumbered
      <2>10. pc[latest] \in {"recountAt", "prune"} =>
                \A j, k \in Streaking : j < k /\ lives'[j] # NoLife /\ lives'[k] # NoLife /\ Lives!GoneQuiet(k)' => ExactRow(j)'
            BY <2>3, <2>4, <2>6, <2>7 DEF CountsSound, RowsNumbered
      <2>11. pc[latest] \in {"recountAt", "prune"} /\ since = 0 =>
                \A k \in Streaking : lives'[k] # NoLife /\ Lives!GoneQuiet(k)' => ExactRow(k)'
            BY <2>3, <2>4, <2>6, <2>7 DEF CountsSound, RowsNumbered
      <2>12. AskingLife /\ latest \notin behind /\ (\A k \in Streaking : lives'[k] # NoLife => Lives!CrashDead(latest, k)') => ExactRow(latest)'
            BY <2>4, <2>7, <2>8 DEF CountsSound, RowsNumbered
      <2>13. /\ s = latest - 1 => ExactRow(latest)'
             /\ pc[latest] \in {"prune", "up"} /\ recount[latest] = Lives!Unset /\ latest \notin behind => ExactRow(latest)'
             /\ pc[latest] = "prune" => recount[latest] # Lives!Asking
            BY <1>18, <2>1, <2>8 DEF CountsSound, RowsNumbered
      <2>14. RowsNumbered'
            BY <1>1, <1>16, <2>1, <2>9, <2>10, <2>11, <2>12, <2>13 DEF RowsNumbered, AskingLife
      <2> QED BY <1>9, <1>12, <1>14, <1>15, <2>5, <2>14 DEF CountsSound
<1> QED BY <1>17, <1>18

\* A life ends: it stops, or crashes.
LEMMA EndKeeps ==
    ASSUME OneLife, CountsSound, latest # 0, Lives!Crash(latest) \/ \E fails \in BOOLEAN : Lives!Stop(latest, fails)
    PROVE  CountsSound'
<1>0. latest \in Nat /\ latest \in Lives!Lives /\ latest \in 1 .. latest /\ Lives!Lives = 0 .. MaxLives /\ MaxLives \in Nat
      BY StreakFacts, LifeFacts DEF OneLife
<1>1. PICK r \in Lives!InstanceRow : r = lives[latest]
      BY <1>0 DEF CountsSound, PresentLife, LifeTypes
<1>2. /\ pc' = [pc EXCEPT ![latest] = "ended"] /\ recount' = [recount EXCEPT ![latest] = Lives!Unset]
      /\ UNCHANGED <<tick, born, since, latest>> /\ pc[latest] \notin {"new", "ended"}
      BY DEF Lives!Crash, Lives!Stop
<1>3. outcome[latest] = "none" /\ lives[latest] # NoLife /\ r # NoLife /\ r.stopped = FALSE
      <2>1. outcome[latest] = "none" /\ lives[latest] # NoLife
            BY <1>2 DEF CountsSound, PresentLife
      <2>2. lives[latest].stopped = (outcome[latest] = "stop")
            BY <1>0, <2>1, RowFacts
      <2>3. lives[latest].stopped = FALSE
            BY <2>1, <2>2
      <2> QED BY <1>1, <2>1, <2>3
<1>4. PICK t : t = [r EXCEPT !.stopped = TRUE]
      OBVIOUS
<1>5. t \in Lives!InstanceRow /\ t # NoLife /\ t.stopped = TRUE /\ t.started = r.started /\ t.beat = r.beat /\ t.restarts = r.restarts
      <2>1. t \in Lives!InstanceRow
            BY <1>4 DEF Lives!InstanceRow
      <2> QED BY <1>4, <2>1, LifeFacts DEF Lives!InstanceRow
<1>6. \/ lives' = lives /\ outcome' = [outcome EXCEPT ![latest] = "crash"]
      \/ lives' = [lives EXCEPT ![latest] = t] /\ outcome' = [outcome EXCEPT ![latest] = "stop"]
      <2>1. CASE Lives!Crash(latest)
            BY <2>1 DEF Lives!Crash
      <2>2. ASSUME NEW fails \in BOOLEAN, Lives!Stop(latest, fails)
            PROVE  \/ lives' = lives /\ outcome' = [outcome EXCEPT ![latest] = "crash"]
                   \/ lives' = [lives EXCEPT ![latest] = t] /\ outcome' = [outcome EXCEPT ![latest] = "stop"]
            <3>1. /\ lives' = IF fails \/ lives[latest] = NoLife THEN lives ELSE [lives EXCEPT ![latest].stopped = TRUE]
                  /\ outcome' = [outcome EXCEPT ![latest] = IF lives'[latest] # NoLife /\ lives'[latest].stopped THEN "stop" ELSE "crash"]
                  BY <2>2 DEF Lives!Stop
            <3>2. CASE fails
                  BY <1>1, <1>3, <3>1, <3>2
            <3>3. CASE ~fails
                  <4>1. lives' = [lives EXCEPT ![latest] = t]
                        BY <1>1, <1>3, <1>4, <3>1, <3>3
                  <4>2. lives'[latest] = t
                        BY <1>0, <4>1 DEF CountsSound, LifeTypes
                  <4> QED BY <1>5, <3>1, <4>1, <4>2
            <3> QED BY <3>2, <3>3
      <2> QED BY <2>1, <2>2
<1>7. /\ lives' \in [Lives!Lives -> Lives!InstanceRow \cup {NoLife}] /\ outcome' \in [Lives!Lives -> {"none", "crash", "stop"}]
      /\ lives'[latest].stopped = (outcome'[latest] = "stop")
      /\ lives'[latest] # NoLife /\ lives'[latest].started = lives[latest].started /\ lives'[latest].beat = lives[latest].beat
      /\ lives'[latest].restarts = lives[latest].restarts
      /\ \A k \in Lives!Lives : k # latest => lives'[k] = lives[k] /\ outcome'[k] = outcome[k]
      <2>1. lives \in [Lives!Lives -> Lives!InstanceRow \cup {NoLife}] /\ outcome \in [Lives!Lives -> {"none", "crash", "stop"}]
            BY DEF CountsSound, LifeTypes
      <2>2. CASE lives' = lives /\ outcome' = [outcome EXCEPT ![latest] = "crash"]
            BY <1>0, <1>1, <1>3, <2>1, <2>2
      <2>3. CASE lives' = [lives EXCEPT ![latest] = t] /\ outcome' = [outcome EXCEPT ![latest] = "stop"]
            BY <1>0, <1>1, <1>3, <1>5, <2>1, <2>3
      <2> QED BY <1>6, <2>2, <2>3
<1>8. LifeTypes'
      BY <1>0, <1>2, <1>7 DEF CountsSound, LifeTypes, Lives!Unset
<1>9. SiblingLives'
      BY <1>0, <1>2, <1>7, LifeFacts DEF CountsSound, SiblingLives
<1>10. \A k \in 1 .. latest : k \in Lives!Lives
      BY <1>0
<1>11. LivesOrdered'
      <2>1. \A k \in Lives!Lives : k > latest => lives'[k] = NoLife /\ outcome'[k] = "none"
            <3>1. \A k \in Lives!Lives : k > latest => k # latest
                  BY <1>0
            <3> QED BY <1>7, <3>1 DEF CountsSound, LivesOrdered
      <2>2. ASSUME NEW k \in 1 .. latest, lives'[k] # NoLife
            PROVE  /\ lives'[k].started = born[k] /\ lives'[k].stopped = (outcome'[k] = "stop")
                   /\ born[k] <= lives'[k].beat /\ lives'[k].beat <= tick
                   /\ \A j \in k + 1 .. latest : lives'[k].beat < born[j]
            <3>1. CASE k = latest
                  BY <1>3, <1>7, <2>2, <3>1 DEF CountsSound, LivesOrdered
            <3>2. CASE k # latest
                  BY <1>7, <1>10, <2>2, <3>2 DEF CountsSound, LivesOrdered
            <3> QED BY <3>1, <3>2
      <2> QED BY <1>2, <2>1, <2>2 DEF CountsSound, LivesOrdered
<1>12. PresentLife'
      <2>1. pc'[latest] = "ended"
            BY <1>0, <1>2 DEF OneLife
      <2> QED BY <1>2, <1>7, <2>1 DEF PresentLife
<1>13. Stopped' = Stopped /\ Streaking' = Streaking
      <2>1. \A k \in 1 .. latest - 1 : k \in Lives!Lives /\ k # latest
            BY <1>0
      <2>2. Stopped' = Stopped
            BY <1>2, <1>7, <2>1, LastStopKept
      <2> QED BY <1>2, <2>2 DEF Streaking
<1>14. PICK s : s = Stopped
      OBVIOUS
<1>15. s \in 0 .. latest - 1 /\ Streaking = s + 1 .. latest - 1
      BY <1>14, StreakFacts
<1>16. /\ \A k \in Streaking : k \in Lives!Lives /\ k # latest /\ (k = s + 1 \/ (k - 1 \in Lives!Lives /\ k - 1 # latest))
       /\ s \in Lives!Lives /\ s # latest /\ (\A k \in 1 .. s : k \in Lives!Lives /\ k # latest)
       /\ (latest > 1 => latest - 1 \in Lives!Lives /\ latest - 1 # latest)
      BY <1>0, <1>15
<1>17. RowsLeft'
      BY <1>2, <1>7, <1>13, <1>14, <1>16 DEF CountsSound, RowsLeft
<1>18. RowsNumbered'
      <2>1. pc'[latest] = "ended"
            BY <1>0, <1>2 DEF OneLife
      <2>2. \A k \in Lives!Lives : ExactRow(k)' <=> ExactRow(k)
            <3>1. \A k \in Lives!Lives : k # latest => lives'[k].restarts = lives[k].restarts
                  BY <1>7
            <3> QED BY <1>7, <1>13, <3>1 DEF ExactRow
      <2>3. \A k \in Streaking : lives'[k] # NoLife /\ (k = s + 1 \/ lives'[k - 1] = NoLife) => ExactRow(k)'
            BY <1>7, <1>14, <1>16, <2>2 DEF CountsSound, RowsNumbered
      <2>4. s = latest - 1 => ExactRow(latest)'
            BY <1>0, <1>2, <1>14, <2>2 DEF CountsSound, RowsNumbered
      <2> QED BY <1>2, <1>13, <1>14, <2>1, <2>3, <2>4 DEF RowsNumbered, AskingLife
<1> QED BY <1>8, <1>9, <1>11, <1>12, <1>17, <1>18 DEF CountsSound

\* A tick: a row that goes quiet during a registration is the newest of those that do.
LEMMA TickKeeps ==
    ASSUME OneLife, CountsSound, 0 \notin paused, latest \notin paused, Lives!Tick
    PROVE  CountsSound'
<1>0. latest \in Nat /\ latest \in Lives!Lives /\ 0 \in Lives!Lives /\ tick \in Nat /\ QuietAfter \in Nat
      BY LifeFacts DEF OneLife, CountsSound, LifeTypes
<1>1. /\ tick' = tick + 1 /\ since' = 1 /\ tick + 1 \in Nat
      /\ UNCHANGED <<samePid, lives, pc, born, recount, latest, outcome>>
      /\ \A l \in Lives!Lives : pc[l] \in {"count", "recountAt", "prune"} => since = 0
      BY <1>0 DEF Lives!Tick
<1>2. \A l \in Lives!Lives \ paused : pc[l] = "up" /\ lives[l] # NoLife => lives[l].beat >= (tick + 1) - QuietAfter
      BY DEF Lives!Tick
<1>3. LifeTypes'
      BY <1>1 DEF CountsSound, LifeTypes
<1>4. SiblingLives'
      BY <1>0, <1>1, <1>2 DEF CountsSound, SiblingLives
<1>5. LivesOrdered'
      <2>1. born[latest] \in Nat /\ \A k \in 1 .. latest : lives[k] # NoLife => lives[k].beat \in Nat
            <3>1. ASSUME NEW k \in 1 .. latest, lives[k] # NoLife
                  PROVE  lives[k].beat \in Nat
                  <4>1. latest # 0
                        BY <1>0, <3>1
                  <4> QED BY <3>1, <4>1, RowFacts
            <3> QED BY <1>0, <3>1 DEF CountsSound, LifeTypes
      <2>2. born[latest] <= tick + 1
            BY <1>0, <2>1 DEF CountsSound, LivesOrdered
      <2>3. \A k \in 1 .. latest : lives[k] # NoLife => lives[k].beat <= tick + 1
            <3>1. \A k \in 1 .. latest : lives[k] # NoLife => lives[k].beat <= tick
                  BY DEF CountsSound, LivesOrdered
            <3> QED BY <1>0, <2>1, <3>1
      <2> QED BY <1>1, <2>2, <2>3 DEF CountsSound, LivesOrdered
<1>6. PresentLife'
      <2>1. ASSUME latest # 0, pc[latest] \in {"count", "recountAt", "prune"}
            PROVE  tick + 1 <= born[latest] + 1
            <3>1. tick <= born[latest] + since /\ since = 0 /\ born[latest] \in Nat
                  BY <1>0, <1>1, <2>1 DEF CountsSound, PresentLife, LifeTypes
            <3> QED BY <1>0, <3>1
      <2>2. latest # 0 /\ pc[latest] = "up" => lives[latest].beat >= (tick + 1) - QuietAfter
            BY <1>0, <1>2 DEF CountsSound, PresentLife
      <2> QED BY <1>1, <2>1, <2>2 DEF CountsSound, PresentLife
<1>7. Stopped' = Stopped /\ Streaking' = Streaking
      BY <1>1, LastStopKept DEF Streaking
<1>8. RowsLeft'
      BY <1>1, <1>7 DEF CountsSound, RowsLeft
<1>9. \A k : ExactRow(k)' <=> ExactRow(k)
      BY <1>1, <1>7 DEF ExactRow
<1>10. ASSUME pc[latest] \in {"recountAt", "prune"}, NEW j \in Streaking, NEW k \in Streaking, j < k,
              lives[j] # NoLife, lives[k] # NoLife, lives[k].beat < (tick + 1) - QuietAfter
       PROVE  ExactRow(j)
       <2>1. latest # 0 /\ since = 0
             BY <1>0, <1>1, <1>10 DEF CountsSound, SiblingLives
       <2>2. j \in 1 .. latest - 1 /\ k \in 1 .. latest - 1
             BY <2>1, StreakFacts
       <2>3. j \in 1 .. latest /\ k \in 1 .. latest
             BY <1>0, <2>2
       <2>4. lives[j].beat < lives[k].beat /\ lives[j].beat \in Nat /\ lives[k].beat \in Nat
             BY <1>10, <2>1, <2>2, <2>3, OlderIsDead, RowFacts
       <2>5. Lives!GoneQuiet(j)
             BY <1>0, <1>10, <2>4 DEF Lives!GoneQuiet
       <2> QED BY <1>10, <2>1, <2>5 DEF CountsSound, RowsNumbered
<1>11. RowsNumbered'
      <2>1. since' # 0 /\ behind \subseteq behind'
            BY <1>0, <1>1 DEF Lives!Tick
      <2>2. pc[latest] \in {"recountAt", "prune"} =>
                \A j, k \in Streaking : j < k /\ lives[j] # NoLife /\ lives[k] # NoLife /\ Lives!GoneQuiet(k)' => ExactRow(j)
            <3>1. \A k \in Streaking : Lives!GoneQuiet(k)' <=> lives[k].beat < (tick + 1) - QuietAfter
                  BY <1>1 DEF Lives!GoneQuiet
            <3> QED BY <1>10, <3>1
      <2>3. ASSUME AskingLife, latest \notin behind', NEW k \in Streaking, lives[k] # NoLife, Lives!CrashDead(latest, k)'
            PROVE  Lives!CrashDead(latest, k)
            <3>1. latest # 0 /\ (pc[latest] = "recountAt" \/ recount[latest] = Lives!Asking)
                  BY <2>3 DEF AskingLife
            <3>2. k \in 1 .. latest - 1 /\ k \in Lives!Streak(latest)
                  BY <2>3, <3>1, StreakFacts, StreakIs
            <3>3. ~Lives!MissedAt(latest, tick')
                  BY <1>0, <2>3 DEF Lives!Tick
            <3>4. Lives!CrashDead(latest, k) \/ ~(lives[k].beat < tick' - QuietAfter)
                  BY <3>1, <3>2, <3>3 DEF Lives!MissedAt
            <3>5. Lives!GoneQuiet(k)' <=> lives[k].beat < tick' - QuietAfter
                  BY <1>1 DEF Lives!GoneQuiet
            <3>6. Lives!GoneQuiet(k)' \/ Lives!CrashDead(latest, k)
                  BY <1>1, <2>3 DEF Lives!CrashDead
            <3> QED BY <3>4, <3>5, <3>6
      <2>4. AskingLife /\ latest \notin behind' /\ (\A k \in Streaking : lives[k] # NoLife => Lives!CrashDead(latest, k)') => ExactRow(latest)
            <3>1. AskingLife /\ latest \notin behind' /\ (\A k \in Streaking : lives[k] # NoLife => Lives!CrashDead(latest, k)')
                    => latest \notin behind /\ \A k \in Streaking : lives[k] # NoLife => Lives!CrashDead(latest, k)
                  BY <2>1, <2>3
            <3> QED BY <3>1 DEF CountsSound, RowsNumbered
      <2>5. AskingLife' <=> AskingLife
            BY <1>1 DEF AskingLife
      <2>6. latest # 0 /\ pc[latest] \in {"prune", "up"} /\ recount[latest] = Lives!Unset /\ latest \notin behind' => ExactRow(latest)
            BY <2>1 DEF CountsSound, RowsNumbered
      <2>7. /\ \A k \in Streaking : lives[k] # NoLife /\ (k = Stopped + 1 \/ lives[k - 1] = NoLife) => ExactRow(k)
            /\ latest # 0 /\ Stopped = latest - 1 => ExactRow(latest)
            /\ pc[latest] = "prune" => recount[latest] # Lives!Asking
            BY DEF CountsSound, RowsNumbered
      <2> QED BY <1>1, <1>7, <1>9, <2>1, <2>2, <2>4, <2>5, <2>6, <2>7 DEF RowsNumbered
<1> QED BY <1>3, <1>4, <1>5, <1>6, <1>8, <1>11 DEF CountsSound

\* What the steps read is all the invariant is about.
LEMMA CountsKept ==
    ASSUME CountsSound, UNCHANGED <<samePid, tick, lives, pc, born, recount, since, latest, outcome, behind>>
    PROVE  CountsSound'
<1>1. Stopped' = Stopped /\ Streaking' = Streaking
      BY LastStopKept DEF Streaking
<1>2. LifeTypes' /\ SiblingLives' /\ PresentLife' /\ RowsLeft'
      BY <1>1 DEF CountsSound, LifeTypes, SiblingLives, PresentLife, RowsLeft
<1>3. LivesOrdered'
      BY DEF CountsSound, LivesOrdered
<1>4. /\ \A k : ExactRow(k)' <=> ExactRow(k)
      /\ \A k : Lives!GoneQuiet(k)' <=> Lives!GoneQuiet(k)
      /\ \A k : Lives!CrashDead(latest, k)' <=> Lives!CrashDead(latest, k)
      BY <1>1 DEF ExactRow, Lives!GoneQuiet, Lives!CrashDead
<1>5. RowsNumbered'
      BY <1>1, <1>4 DEF CountsSound, RowsNumbered, AskingLife
<1> QED BY <1>2, <1>3, <1>5 DEF CountsSound

\* Every step keeps the invariant.
LEMMA LivesKeep ==
    ASSUME LivesInv, [Lives!Next]_registryVars
    PROVE  LivesInv'
<1>1. OneLife /\ OneLife'
      BY OneLifeKeeps DEF LivesInv
<1>2. latest \in Nat /\ 0 \in 0 .. latest /\ latest \in 0 .. latest /\ latest + 1 \in Nat /\ latest + 1 >= latest /\ latest >= latest
      BY <1>1, LifeFacts DEF OneLife
<1> SUFFICES ASSUME Unspoiled'
             PROVE  CountsSound'
    BY <1>1 DEF LivesInv
<1>3. CASE UNCHANGED registryVars
      <2>1. CountsSound
            BY <1>1, <1>2, <1>3, CleanKept DEF registryVars, LivesInv
      <2> QED BY <1>3, <2>1, CountsKept DEF registryVars
<1>4. CASE Lives!Tick
      <2>1. Unspoiled /\ CountsSound
            BY <1>1, <1>2, <1>4, CleanKept DEF Lives!Tick, LivesInv
      <2>2. 0 \notin paused /\ latest \notin paused
            BY <1>1, <1>2, <2>1 DEF Unspoiled, OneLife
      <2> QED BY <1>1, <1>4, <2>1, <2>2, TickKeeps
<1>5. CASE Lives!Maintain
      <2>1. trimmed' = (trimmed \/ lives' # lives) /\ ~trimmed'
            BY <1>5 DEF Lives!Maintain, Unspoiled
      <2>2. ~trimmed /\ lives' = lives
            BY <2>1
      <2>3. CountsSound
            BY <1>1, <1>2, <1>5, <2>2, CleanKept DEF Lives!Maintain, LivesInv
      <2> QED BY <1>5, <2>2, <2>3, CountsKept DEF Lives!Maintain
<1>6. ASSUME NEW fails \in BOOLEAN, Lives!Register(fails)
      PROVE  CountsSound'
      <2>1. latest' = latest + 1 /\ spoiled \subseteq spoiled' /\ trimmed' = trimmed
            BY <1>6 DEF Lives!Register, Lives!NextLife
      <2>2. CountsSound
            BY <1>1, <1>2, <2>1, CleanKept DEF LivesInv
      <2> QED BY <1>1, <1>6, <2>2, RegisterKeeps
<1>7. ASSUME NEW l \in Lives!Lives,
             \/ Lives!CountAtStart(l) \/ Lives!RecountAtStart(l) \/ Lives!PruneLives(l) \/ Lives!RegistrationFails(l)
             \/ Lives!Recount(l) \/ Lives!RecountAtAgain(l) \/ Lives!RecountFails(l) \/ Lives!Beat(l) \/ Lives!Crash(l) \/ Lives!Pause(l)
             \/ \E fails \in BOOLEAN : Lives!Stop(l, fails)
      PROVE  CountsSound'
      <2>1. latest' = latest /\ spoiled \subseteq spoiled' /\ trimmed' = trimmed /\ pc[l] \notin {"new", "ended"}
            BY <1>7 DEF Lives!CountAtStart, Lives!RecountAtStart, Lives!PruneLives, Lives!RegistrationFails,
               Lives!Recount,
                  Lives!RecountAtAgain, Lives!RecountFails, Lives!Beat, Lives!Crash, Lives!Pause, Lives!Stop
      <2>2. CountsSound
            BY <1>1, <1>2, <2>1, CleanKept DEF LivesInv
      <2>3. l = 0 \/ (l = latest /\ latest # 0)
            BY <1>1, <2>1, <2>2, WhoMoves
      <2>4. CASE Lives!Beat(l)
            BY <1>1, <2>2, <2>4, BeatKeeps
      <2>5. CASE Lives!Pause(l)
            <3>1. l \in 0 .. latest /\ l \in spoiled'
                  BY <1>2, <2>3, <2>5 DEF Lives!Pause
            <3> QED BY <2>1, <3>1 DEF Unspoiled
      <2>6. CASE l # 0 /\ ~Lives!Beat(l) /\ ~Lives!Pause(l)
            <3>1. l = latest /\ latest # 0
                  BY <2>3, <2>6
            <3> QED BY <1>1, <1>7, <2>2, <2>6, <3>1, CountAtStartKeeps, RecountAtStartKeeps, PruneLivesKeeps,
                       RegistrationFailsKeeps, RecountKeeps, RecountAtAgainKeeps, RecountFailsKeeps, EndKeeps
      <2>7. CASE l = 0 /\ ~Lives!Beat(l) /\ ~Lives!Pause(l)
            <3>1. pc[0] = "up" /\ ~(recount[0] >= 0) /\ recount[0] = Lives!Unset /\ recount[0] # Lives!Asking
                  BY <2>2 DEF CountsSound, SiblingLives, Lives!Unset, Lives!Asking
            <3> QED BY <1>7, <2>7, <3>1 DEF Lives!CountAtStart, Lives!RecountAtStart, Lives!PruneLives,
               Lives!RegistrationFails, Lives!Recount,
                  Lives!RecountAtAgain, Lives!RecountFails, Lives!Crash, Lives!Stop
      <2> QED BY <2>4, <2>5, <2>6, <2>7
<1> QED BY <1>3, <1>4, <1>5, <1>6, <1>7 DEF Lives!Next

\* What the property says of a life that has nothing left to wait for.
LEMMA LivesHold ==
    ASSUME LivesInv
    PROVE  Lives!CrashRestartsExact
<1> SUFFICES ASSUME NEW l \in Lives!Lives \ {0}, pc[l] = "up", recount[l] = Lives!Unset, ~trimmed, l \notin behind, \A k \in 0 .. l : k \notin spoiled
             PROVE  lives[l] # NoLife /\ lives[l].restarts = Lives!CrashesBefore(l)
    BY DEF Lives!CrashRestartsExact
<1>1. l = latest /\ latest # 0 /\ l \in Nat \ {0}
      BY LifeFacts DEF LivesInv, OneLife
<1>2. CountsSound
      BY <1>1 DEF LivesInv, Unspoiled
<1>3. lives[l] # NoLife /\ ExactRow(latest)
      BY <1>1, <1>2 DEF CountsSound, PresentLife, RowsNumbered
<1> QED BY <1>1, <1>3, CrashesCount DEF ExactRow, Stopped

\* The sibling alone.
LEMMA LivesStart ==
    ASSUME Lives!Init
    PROVE  LivesInv
<1>1. /\ tick = 1 /\ latest = 0 /\ since = 0 /\ 0 \in Lives!Lives /\ QuietAfter \in Nat /\ QuietAfter >= 1 /\ Lives!Lives = 0 .. MaxLives /\ MaxLives \in Nat
      /\ paused = {} /\ spoiled = {}
      BY LifeFacts DEF Lives!Init
<1>2. OneLife
      BY <1>1 DEF Lives!Init, OneLife
<1>3. Lives!Fresh(0) \in Lives!InstanceRow /\ Lives!Fresh(0).started = 0 /\ Lives!Fresh(0).stopped = FALSE /\ Lives!Fresh(0).beat = 0
      BY DEF Lives!Fresh, Lives!InstanceRow
<1>4. LifeTypes
      BY <1>1, <1>3 DEF Lives!Init, LifeTypes, Lives!Unset
<1>5. lives[0] = Lives!Fresh(0) /\ lives[0] # NoLife
      BY <1>1, <1>3, LifeFacts DEF Lives!Init
<1>6. SiblingLives
      <2>1. 0 >= 1 - QuietAfter
            BY <1>1
      <2> QED BY <1>1, <1>3, <1>5, <2>1 DEF Lives!Init, SiblingLives
<1>7. LivesOrdered
      <2>1. \A i, j \in 0 .. 0 : ~(i < j)
            OBVIOUS
      <2>2. \A k \in Lives!Lives : k > 0 => lives[k] = NoLife /\ outcome[k] = "none"
            BY <1>1 DEF Lives!Init
      <2>3. \A k \in 1 .. 0 : FALSE
            OBVIOUS
      <2> QED BY <1>1, <2>1, <2>2, <2>3 DEF Lives!Init, LivesOrdered
<1>8. Stopped = 0 /\ Streaking = {}
      <2>1. {k \in 1 .. latest - 1 : outcome[k] = "stop"} = {}
            BY <1>1
      <2>2. Stopped = 0
            BY <2>1 DEF Stopped, LastStop
      <2> QED BY <1>1, <2>2 DEF Streaking
<1>9. PresentLife /\ RowsLeft /\ RowsNumbered
      BY <1>1, <1>8 DEF Lives!Init, PresentLife, RowsLeft, RowsNumbered, AskingLife
<1> QED BY <1>2, <1>4, <1>6, <1>7, <1>9 DEF LivesInv, CountsSound

\* The rows of a process whose lives were all counted and did not miss beats: the newest
\* lives are there, the earliest that is left shows its exact count, and the present life
\* does once it waits for no recount, unless a row went quiet between its two statements or
\* its recount failed.
THEOREM LivesInvariant == AllSpec => []LivesInv
<1>1. AllInit => LivesInv
      BY LivesStart DEF AllInit, LivesRest
<1>2. LivesInv /\ [AllNext]_allVars => LivesInv'
      <2> SUFFICES ASSUME LivesInv, [AllNext]_allVars
                   PROVE  [Lives!Next]_registryVars
          BY LivesKeep
      <2>1. CASE LifeStep
            BY <2>1 DEF LifeStep
      <2>2. CASE ClaimStep \/ ListStep \/ ClockStep
            BY <2>2 DEF ClaimStep, ListStep, ClockStep
      <2>3. CASE UNCHANGED allVars
            BY <2>3 DEF allVars
      <2> QED BY <2>1, <2>2, <2>3 DEF AllNext
<1> QED BY <1>1, <1>2, PTL DEF AllSpec

\* CrashRestartsExact: a life with nothing left to wait for shows how many lives crashed in
\* a row before it (countCrashRestarts, crashRecountAt and pruneDeadInstances), also when
\* rows of that streak are pruned, and whatever an earlier life of it showed.  The life
\* itself may be behind: a row went quiet between its two statements, or its recount failed.
THEOREM CrashRestartsTheorem == AllSpec => []CrashRestartsExact
<1>1. LivesInv => CrashRestartsExact
      BY LivesHold DEF CrashRestartsExact
<1> QED BY <1>1, LivesInvariant, PTL

================================================================================
