---------------------------- MODULE JobClaims_proofs ----------------------------
(* Proofs of the safety properties of JobClaims, for every set of jobs and     *)
(* workers, every retry limit, group limit and bound.                          *)
EXTENDS JobClaimsLease, FiniteSetTheorems, TLAPS

\* What the statements leave behind is a row.
LEMMA RowTypes ==
    ASSUME NEW r \in Row, NEW b \in BOOLEAN, NEW d \in BOOLEAN
    PROVE  /\ NewRow(d) \in Row
           /\ NoRow \in Row
           /\ ClaimedRow(r) \in Row
           /\ CompletedRow(r) \in Row
           /\ FailedRow(r, b, d) \in Row
           /\ RestoredRow(r) \in Row
<1> USE ConstantsAssumption DEF Row, JobStates, Unsettled, Queued
<1>1. NewRow(d) \in Row /\ NoRow \in Row
      BY DEF NewRow, NoRow
<1>2. ClaimedRow(r) \in Row
      <2>1. (IF r.started THEN r.retryCount + 1 ELSE r.retryCount) \in Nat
            OBVIOUS
      <2> QED BY <2>1 DEF ClaimedRow
<1>3. CompletedRow(r) \in Row
      BY DEF CompletedRow
<1>4. FailedRow(r, b, d) \in Row
      <2> DEFINE retries == r.retryCount < r.retryLimit /\ ~b
      <2>1. (IF retries THEN "retry" ELSE "failed") \in JobStates
            OBVIOUS
      <2>3. (~retries) \in BOOLEAN
            OBVIOUS
      <2>4. (IF r.retryCount = r.retryLimit THEN r.due ELSE d) \in BOOLEAN
            <3>1. r.due \in BOOLEAN
                  OBVIOUS
            <3> QED BY <3>1
      <2>2. FailedRow(r, b, d) =
                [r EXCEPT !.state = IF retries THEN "retry" ELSE "failed",
                          !.completedOn = ~retries,
                          !.due = IF r.retryCount = r.retryLimit THEN r.due ELSE d]
            BY DEF FailedRow
      <2> HIDE DEF retries
      <2> QED BY <2>1, <2>2, <2>3, <2>4
<1>5. RestoredRow(r) \in Row
      BY DEF RestoredRow
<1> QED BY <1>1, <1>2, <1>3, <1>4, <1>5

\* What fail() may leave behind is a row.
LEMMA FailOutcomesType ==
    ASSUME TypeOK, NEW j \in Jobs, NEW b \in BOOLEAN
    PROVE  FailOutcomes(j, b) \subseteq Row
<1>1. row[j] \in Row
      BY DEF TypeOK
<1>2. \A d \in BOOLEAN : FailedRow(row[j], b, d) \in Row
      BY <1>1, RowTypes
<1> QED BY <1>2 DEF FailOutcomes

\* The empty table and idle workers are well typed.
LEMMA InitTypeOK == Init => TypeOK
BY ConstantsAssumption
   DEF Init, TypeOK, NoRow, Row, JobStates, Unsettled, Queued, Phases, Holding

\* One step of a worker keeps every variable in its type.
LEMMA WorkerTypeOK ==
    ASSUME TypeOK, NEW w \in Workers, WorkerStep(w)
    PROVE  TypeOK'
<1> USE ConstantsAssumption DEF TypeOK, Phases, Holding
<1> DEFINE R == row[held[w]]
<1>1. CASE FetchSnapshot(w)
      BY <1>1 DEF FetchSnapshot, ghostVars
<1>2. CASE FetchClaim(w)
      <2>1. PICK j \in seen[w] :
                /\ row' = [row EXCEPT ![j] = ClaimedRow(row[j])]
                /\ phase' = [phase EXCEPT ![w] = IF GroupOf[j] = NoGroup THEN "running" ELSE "claimed"]
                /\ held' = [held EXCEPT ![w] = j]
                /\ attempt' = [attempt EXCEPT ![w] = ClaimedRow(row[j]).retryCount]
                /\ token' = [token EXCEPT ![w] = claims[j] + 1]
                /\ claims' = [claims EXCEPT ![j] = claims[j] + 1]
            BY <1>2 DEF FetchClaim
      <2>2. j \in Jobs /\ ClaimedRow(row[j]) \in Row /\ ClaimedRow(row[j]).retryCount \in Nat
            BY RowTypes DEF Row
      <2> QED BY <1>2, <2>1, <2>2 DEF FetchClaim
<1>3. CASE FetchNothing(w)
      BY <1>3 DEF FetchNothing, ghostVars
<1>4. CASE CountGroup(w)
      BY <1>4 DEF CountGroup, ghostVars
<1>5. CASE GiveBack(w)
      <2>1. held[w] \in Jobs
            BY <1>5 DEF GiveBack
      <2>2. RestoredRow(row[held[w]]) \in Row
            BY <2>1, RowTypes
      <2> QED BY <1>5, <2>1, <2>2 DEF GiveBack, Restore, Release
<1>6. CASE HandlerCompletes(w) \/ HandlerFails(w) \/ HandlerDeadLetters(w) \/ HandlerTimesOut(w)
      <2>1. held[w] \in Jobs /\ phase[w] = "running"
            BY <1>6 DEF HandlerCompletes, HandlerFails, HandlerDeadLetters, HandlerTimesOut
      <2>2. PICK S \in SUBSET Row : SettleHeld(w, S)
            <3>1. CompletedRow(row[held[w]]) \in Row
                  BY <2>1, RowTypes
            <3>2. FailOutcomes(held[w], TRUE) \in SUBSET Row /\ FailOutcomes(held[w], FALSE) \in SUBSET Row
                  BY <2>1, FailOutcomesType
            <3>3. {CompletedRow(row[held[w]])} \in SUBSET Row
                  BY <3>1
            <3> QED BY <1>6, <3>2, <3>3
                    DEF HandlerCompletes, HandlerFails, HandlerDeadLetters, HandlerTimesOut
      <2>3. row' \in [Jobs -> Row]
            BY <2>1, <2>2 DEF SettleHeld
      <2>4. CASE phase' = [phase EXCEPT ![w] = "overrun"] /\ UNCHANGED <<held, attempt, token, seen, ghostVars>>
            BY <2>1, <2>3, <2>4 DEF ghostVars
      <2>5. CASE Release(w, "idle") /\ UNCHANGED ghostVars
            BY <2>1, <2>3, <2>5 DEF Release, ghostVars
      <2> QED BY <1>6, <2>4, <2>5
              DEF HandlerCompletes, HandlerFails, HandlerDeadLetters, HandlerTimesOut
<1>7. CASE OverrunReturns(w) \/ Crash(w)
      BY <1>7 DEF OverrunReturns, Crash, Release, ghostVars
<1> QED BY <1>1, <1>2, <1>3, <1>4, <1>5, <1>6, <1>7 DEF WorkerStep

\* So does one step of the table: a producer, the clock, the supervisor or an operator.
LEMMA TableTypeOK ==
    ASSUME TypeOK, NEW j \in Jobs, RowStep(j)
    PROVE  TypeOK'
<1> USE ConstantsAssumption
<1>1. row[j] \in Row /\ FailOutcomes(j, FALSE) \subseteq Row
      BY FailOutcomesType DEF TypeOK
<1>a. /\ [row[j] EXCEPT !.due = TRUE] \in Row
      /\ [row[j] EXCEPT !.state = "cancelled", !.completedOn = TRUE] \in Row
      /\ [row[j] EXCEPT !.state = "created", !.completedOn = FALSE] \in Row
      BY <1>1 DEF Row, JobStates, Unsettled, Queued
<1>b. [row[j] EXCEPT !.state = "retry", !.completedOn = FALSE, !.retryLimit = row[j].retryLimit + 1] \in Row
      <2>1. row[j].retryLimit + 1 \in Nat
            BY <1>1 DEF Row
      <2> QED BY <1>1, <2>1 DEF Row, JobStates, Unsettled, Queued
<1>c. /\ NoRow \in Row
      /\ CompletedRow(row[j]) \in Row
      /\ RestoredRow(row[j]) \in Row
      /\ \A d \in BOOLEAN : NewRow(d) \in Row
      BY <1>1, RowTypes
<1>2. row' \in [Jobs -> Row]
      <2> SUFFICES \E r \in Row : row' = [row EXCEPT ![j] = r]
            BY DEF TypeOK
      <2>1. CASE Send(j)
            BY <2>1, <1>c DEF Send
      <2>2. CASE StartAfterPasses(j)
            BY <2>2, <1>a DEF StartAfterPasses
      <2>3. CASE CancelJob(j) \/ ResumeJob(j) \/ RetryJob(j)
            BY <2>3, <1>a, <1>b DEF CancelJob, ResumeJob, RetryJob, Update
      <2>4. CASE Expire(j) \/ FailJob(j)
            BY <2>4, <1>1 DEF Expire, FailJob, Update
      <2>5. CASE Sweep(j) \/ DeleteJob(j) \/ CompleteJob(j) \/ RestoreJob(j)
            BY <2>5, <1>c DEF Sweep, DeleteJob, CompleteJob, RestoreJob, Restore, Update
      <2> QED BY <2>1, <2>2, <2>3, <2>4, <2>5 DEF RowStep
<1>3. UNCHANGED workerVars /\ UNCHANGED claims
      BY DEF RowStep, Send, StartAfterPasses, Expire, Sweep, CancelJob, ResumeJob, RetryJob, FailJob,
             CompleteJob, DeleteJob, RestoreJob, Restore, Update, ghostVars
<1>4. /\ resetAt' \in [Jobs -> Nat]
      /\ resumed' \in [Jobs -> BOOLEAN]
      BY DEF RowStep, Send, StartAfterPasses, Expire, Sweep, CancelJob, ResumeJob, RetryJob, FailJob,
             CompleteJob, DeleteJob, RestoreJob, Restore, Update, ghostVars, TypeOK
<1> QED BY <1>2, <1>3, <1>4 DEF TypeOK, workerVars

\* Every reachable state is well typed, and a worker holds a job exactly in the
\* phases in which it has a claim.
THEOREM TypeCorrect == Spec => []TypeOK
<1>1. TypeOK /\ [Next]_vars => TypeOK'
      <2>1. TypeOK /\ UNCHANGED vars => TypeOK'
            BY DEF TypeOK, vars, workerVars, ghostVars
      <2> QED BY <2>1, WorkerTypeOK, TableTypeOK DEF Next
<1> QED BY <1>1, InitTypeOK, PTL DEF Spec

-----------------------------------------------------------------------------
(* The attempt fence. *)

\* What each statement does to the columns the attempt numbering rests on.
LEMMA ClaimedFields ==
    ASSUME NEW r \in Row
    PROVE  /\ ClaimedRow(r).state = "active"
           /\ ClaimedRow(r).started = TRUE
           /\ ClaimedRow(r).retryCount = IF r.started THEN r.retryCount + 1 ELSE r.retryCount
           /\ ClaimedRow(r).retryLimit = r.retryLimit
BY DEF Row, ClaimedRow

\* completeJobs leaves the attempt number, the limit and started_on alone.
LEMMA CompletedFields ==
    ASSUME NEW r \in Row
    PROVE  /\ CompletedRow(r).state = "completed"
           /\ CompletedRow(r).started = r.started
           /\ CompletedRow(r).retryCount = r.retryCount
           /\ CompletedRow(r).retryLimit = r.retryLimit
BY DEF Row, CompletedRow

\* So does failJobsBody, which retries only below retry_limit.
LEMMA FailedFields ==
    ASSUME NEW r \in Row, NEW b \in BOOLEAN, NEW d \in BOOLEAN
    PROVE  /\ FailedRow(r, b, d).state \in {"retry", "failed"}
           /\ FailedRow(r, b, d).state = "retry" => r.retryCount < r.retryLimit
           /\ FailedRow(r, b, d).started = r.started
           /\ FailedRow(r, b, d).retryCount = r.retryCount
           /\ FailedRow(r, b, d).retryLimit = r.retryLimit
BY DEF Row, FailedRow

\* restoreJobs clears started_on and keeps retry_count.
LEMMA RestoredFields ==
    ASSUME NEW r \in Row
    PROVE  /\ r.state = "absent" => RestoredRow(r) = r
           /\ r.state # "absent" => RestoredRow(r).state = "created" /\ RestoredRow(r).started = FALSE
           /\ RestoredRow(r).retryCount = r.retryCount
           /\ RestoredRow(r).retryLimit = r.retryLimit
BY DEF Row, RestoredRow

\* A worker's settle, an expiry, fail() and complete() keep the attempt number.
LEMMA SettledFields ==
    ASSUME TypeOK, NEW j \in Jobs,
           NEW r \in {CompletedRow(row[j])} \cup FailOutcomes(j, FALSE) \cup FailOutcomes(j, TRUE)
    PROVE  /\ r \in Row
           /\ r.state \in {"completed", "retry", "failed"}
           /\ r.state = "retry" => row[j].retryCount < row[j].retryLimit
           /\ r.started = row[j].started
           /\ r.retryCount = row[j].retryCount
           /\ r.retryLimit = row[j].retryLimit
<1>1. row[j] \in Row
      BY DEF TypeOK
<1>2. CASE r = CompletedRow(row[j])
      BY <1>1, <1>2, RowTypes, CompletedFields
<1>3. CASE r \in FailOutcomes(j, FALSE) \cup FailOutcomes(j, TRUE)
      <2>1. PICK b \in BOOLEAN, d \in BOOLEAN : r = FailedRow(row[j], b, d)
            BY <1>3 DEF FailOutcomes
      <2>2. r \in Row
            BY <1>1, <2>1, RowTypes
      <2> QED BY <1>1, <2>1, <2>2, FailedFields
<1> QED BY <1>2, <1>3

\* A step that takes no claim keeps the order of attempts when it either leaves
\* started_on and retry_count of the row alone or restarts the numbering.
LEMMA KeepsAttemptOrder ==
    ASSUME TypeOK, AttemptOrder, NEW j \in Jobs, NEW r \in Row,
           row' = [row EXCEPT ![j] = r],
           claims' = claims,
           \/ /\ resetAt' = resetAt
              /\ r.state \in JobStates =>
                    /\ row[j].state \in JobStates
                    /\ r.started = row[j].started
                    /\ r.retryCount = row[j].retryCount
           \/ resetAt' = [resetAt EXCEPT ![j] = claims[j]],
           \A w \in Workers : phase'[w] \in Holding =>
                /\ phase[w] \in Holding
                /\ held'[w] = held[w]
                /\ attempt'[w] = attempt[w]
                /\ token'[w] = token[w]
    PROVE  AttemptOrder'
<1> SUFFICES ASSUME NEW w \in Workers, phase'[w] \in Holding
             PROVE  /\ token'[w] <= claims'[held'[w]]
                    /\ Numbered(w)' /\ row'[held'[w]].state \in JobStates =>
                        /\ row'[held'[w]].started
                        /\ token'[w] = claims'[held'[w]] => attempt'[w] = row'[held'[w]].retryCount
                        /\ token'[w] < claims'[held'[w]] => attempt'[w] < row'[held'[w]].retryCount
      BY DEF AttemptOrder
<1> DEFINE k == held[w]
<1>1. /\ phase[w] \in Holding /\ k \in Jobs
      /\ held'[w] = k /\ attempt'[w] = attempt[w] /\ token'[w] = token[w]
      BY DEF TypeOK
<1>2. /\ token[w] \in Nat /\ claims[k] \in Nat /\ resetAt[k] \in Nat
      /\ token[w] <= claims[k]
      /\ token[w] > resetAt[k] /\ row[k].state \in JobStates =>
            /\ row[k].started
            /\ token[w] = claims[k] => attempt[w] = row[k].retryCount
            /\ token[w] < claims[k] => attempt[w] < row[k].retryCount
      BY <1>1 DEF TypeOK, AttemptOrder, Numbered
<1>3. Numbered(w)' <=> token[w] > resetAt'[k]
      BY <1>1 DEF Numbered
<1>4. CASE k # j
      <2>1. row'[k] = row[k] /\ resetAt'[k] = resetAt[k]
            BY <1>1, <1>4 DEF TypeOK
      <2> QED BY <1>1, <1>2, <1>3, <2>1
<1>5. CASE k = j /\ resetAt' = resetAt
      <2>1. row'[k] = r
            BY <1>5 DEF TypeOK
      <2>2. CASE r.state \in JobStates /\ Numbered(w)'
            <3>1. /\ row[k].state \in JobStates
                  /\ r.started = row[k].started
                  /\ r.retryCount = row[k].retryCount
                  BY <1>5, <1>2, <1>3, <2>2 DEF TypeOK
            <3> QED BY <1>1, <1>2, <1>3, <1>5, <2>1, <2>2, <3>1
      <2> QED BY <1>1, <1>2, <1>3, <2>1, <2>2
<1>6. CASE k = j /\ resetAt' = [resetAt EXCEPT ![j] = claims[j]]
      <2>1. resetAt'[k] = claims[k]
            BY <1>6 DEF TypeOK
      <2> QED BY <1>1, <1>2, <1>3, <2>1
<1> QED BY <1>4, <1>5, <1>6

\* The claim itself: the new holder carries the row's new retry_count, and every
\* earlier holder falls behind it because started_on was set.
LEMMA ClaimKeepsAttemptOrder ==
    ASSUME TypeOK, AttemptOrder, NEW w \in Workers, FetchClaim(w)
    PROVE  AttemptOrder'
<1>1. PICK j \in seen[w] :
        /\ Fetchable(j)
        /\ row' = [row EXCEPT ![j] = ClaimedRow(row[j])]
        /\ held' = [held EXCEPT ![w] = j]
        /\ attempt' = [attempt EXCEPT ![w] = ClaimedRow(row[j]).retryCount]
        /\ token' = [token EXCEPT ![w] = claims[j] + 1]
        /\ claims' = [claims EXCEPT ![j] = claims[j] + 1]
      BY DEF FetchClaim, LockedRowPasses
<1>2. /\ j \in Jobs
      /\ row[j] \in Row
      /\ row[j].state \in JobStates
      /\ resetAt' = resetAt
      BY <1>1 DEF TypeOK, FetchClaim, Fetchable, JobStates, Unsettled
<1>3. /\ ClaimedRow(row[j]).started = TRUE
      /\ ClaimedRow(row[j]).retryCount = IF row[j].started THEN row[j].retryCount + 1 ELSE row[j].retryCount
      BY <1>2, ClaimedFields
<1>4. ASSUME NEW v \in Workers, phase'[v] \in Holding
      PROVE  /\ token'[v] <= claims'[held'[v]]
             /\ Numbered(v)' /\ row'[held'[v]].state \in JobStates =>
                 /\ row'[held'[v]].started
                 /\ token'[v] = claims'[held'[v]] => attempt'[v] = row'[held'[v]].retryCount
                 /\ token'[v] < claims'[held'[v]] => attempt'[v] < row'[held'[v]].retryCount
      <2>1. CASE v = w
            BY <1>1, <1>2, <1>3, <2>1 DEF TypeOK
      <2>2. CASE v # w
            <3> DEFINE k == held[v]
            <3>1. /\ held'[v] = k /\ attempt'[v] = attempt[v] /\ token'[v] = token[v]
                  /\ phase'[v] = phase[v] /\ k \in Jobs
                  BY <1>1, <1>4, <2>2 DEF TypeOK, FetchClaim
            <3>2. /\ token[v] \in Nat /\ claims[k] \in Nat /\ resetAt[k] \in Nat /\ attempt[v] \in Nat
                  /\ row[k].retryCount \in Nat
                  /\ token[v] <= claims[k]
                  /\ token[v] > resetAt[k] /\ row[k].state \in JobStates =>
                        /\ row[k].started
                        /\ token[v] = claims[k] => attempt[v] = row[k].retryCount
                        /\ token[v] < claims[k] => attempt[v] < row[k].retryCount
                  BY <1>4, <3>1 DEF TypeOK, AttemptOrder, Numbered, Row
            <3>3. Numbered(v)' <=> token[v] > resetAt[k]
                  BY <3>1, <1>2 DEF Numbered
            <3>4. CASE k # j
                  <4>1. row'[k] = row[k] /\ claims'[k] = claims[k]
                        BY <1>1, <3>1, <3>4 DEF TypeOK
                  <4> QED BY <3>1, <3>2, <3>3, <4>1
            <3>5. CASE k = j
                  <4>1. row'[k] = ClaimedRow(row[k]) /\ claims'[k] = claims[k] + 1
                        BY <1>1, <1>2, <3>5 DEF TypeOK
                  <4>2. CASE Numbered(v)'
                        <5>1. row[k].started /\ attempt[v] <= row[k].retryCount
                              BY <1>2, <3>2, <3>3, <3>5, <4>2
                        <5>2. row'[k].started = TRUE /\ row'[k].retryCount = row[k].retryCount + 1
                              BY <1>3, <3>5, <4>1, <5>1
                        <5> QED BY <3>1, <3>2, <4>1, <5>1, <5>2
                  <4> QED BY <3>1, <3>2, <4>1, <4>2
            <3> QED BY <3>4, <3>5
      <2> QED BY <2>1, <2>2
<1> QED BY <1>4 DEF AttemptOrder

\* Every step of a worker, its claims and its fenced settles, keeps the order of
\* attempts.
LEMMA WorkerKeepsAttemptOrder ==
    ASSUME TypeOK, AttemptOrder, NEW w \in Workers, WorkerStep(w)
    PROVE  AttemptOrder'
<1>1. CASE FetchClaim(w)
      BY <1>1, ClaimKeepsAttemptOrder
<1>2. CASE FetchSnapshot(w) \/ FetchNothing(w) \/ CountGroup(w)
      <2>1. /\ UNCHANGED <<row, held, attempt, token, claims, resetAt>>
            /\ \A v \in Workers : phase'[v] \in Holding => phase[v] \in Holding
            BY <1>2 DEF FetchSnapshot, FetchNothing, CountGroup, ghostVars, TypeOK, Holding
      <2> QED BY <2>1 DEF AttemptOrder, Numbered
<1>3. CASE OverrunReturns(w) \/ Crash(w)
      <2>1. /\ UNCHANGED <<row, claims, resetAt>>
            /\ \A v \in Workers : phase'[v] \in Holding =>
                    phase[v] \in Holding /\ held'[v] = held[v] /\ attempt'[v] = attempt[v] /\ token'[v] = token[v]
            BY <1>3 DEF OverrunReturns, Crash, Release, ghostVars, TypeOK, Holding
      <2> QED BY <2>1 DEF AttemptOrder, Numbered
<1>4. ASSUME phase[w] \in {"excess", "running"},
             Release(w, "idle") \/ (phase' = [phase EXCEPT ![w] = "overrun"] /\ UNCHANGED <<held, attempt, token>>)
      PROVE  \A v \in Workers : phase'[v] \in Holding =>
                phase[v] \in Holding /\ held'[v] = held[v] /\ attempt'[v] = attempt[v] /\ token'[v] = token[v]
      BY <1>4 DEF Release, TypeOK, Holding
<1>5. CASE GiveBack(w)
      <2>1. held[w] \in Jobs /\ RestoredRow(row[held[w]]) \in Row
            BY <1>5, RowTypes DEF GiveBack, TypeOK, Holding
      <2> QED BY <1>4, <1>5, <2>1, KeepsAttemptOrder DEF GiveBack, Restore
<1>6. CASE HandlerCompletes(w) \/ HandlerFails(w) \/ HandlerDeadLetters(w) \/ HandlerTimesOut(w)
      <2> DEFINE j == held[w]
      <2>1. /\ j \in Jobs /\ row[j] \in Row
            /\ phase[w] = "running" /\ claims' = claims /\ resetAt' = resetAt
            BY <1>6 DEF HandlerCompletes, HandlerFails, HandlerDeadLetters, HandlerTimesOut, TypeOK, Holding, ghostVars
      <2>2. \A v \in Workers : phase'[v] \in Holding =>
                phase[v] \in Holding /\ held'[v] = held[v] /\ attempt'[v] = attempt[v] /\ token'[v] = token[v]
            BY <1>4, <1>6 DEF HandlerCompletes, HandlerFails, HandlerDeadLetters, HandlerTimesOut
      <2>3. CASE UNCHANGED row
            BY <2>1, <2>2, <2>3 DEF AttemptOrder, Numbered
      <2>4. CASE ~UNCHANGED row
            <3>1. PICK r \in {CompletedRow(row[j])} \cup FailOutcomes(j, FALSE) \cup FailOutcomes(j, TRUE) :
                        row' = [row EXCEPT ![j] = r] /\ FenceHolds(w)
                  BY <1>6, <2>4 DEF HandlerCompletes, HandlerFails, HandlerDeadLetters, HandlerTimesOut, SettleHeld
            <3>2. r \in Row /\ r.started = row[j].started /\ r.retryCount = row[j].retryCount
                  BY <2>1, <3>1, SettledFields
            <3>3. row[j].state \in JobStates
                  BY <3>1 DEF FenceHolds, JobStates, Unsettled
            <3> QED BY <2>1, <2>2, <3>1, <3>2, <3>3, KeepsAttemptOrder
      <2> QED BY <2>3, <2>4
<1> QED BY <1>1, <1>2, <1>3, <1>5, <1>6 DEF WorkerStep

\* Every step of a producer, the supervisor or an operator keeps the order of
\* attempts: those that delete or restore a row restart its numbering.
LEMMA TableKeepsAttemptOrder ==
    ASSUME TypeOK, AttemptOrder, NEW j \in Jobs, RowStep(j)
    PROVE  AttemptOrder'
<1>1. row[j] \in Row
      BY DEF TypeOK
<1>2. /\ claims' = claims
      /\ \A w \in Workers : phase'[w] \in Holding =>
            phase[w] \in Holding /\ held'[w] = held[w] /\ attempt'[w] = attempt[w] /\ token'[w] = token[w]
      BY DEF RowStep, Send, StartAfterPasses, Expire, Sweep, CancelJob, ResumeJob, RetryJob, FailJob,
             CompleteJob, DeleteJob, RestoreJob, Restore, Update, ghostVars, workerVars
<1>3. CASE Send(j) \/ RestoreJob(j)
      <2>1. resetAt' = [resetAt EXCEPT ![j] = claims[j]]
            BY <1>3 DEF Send, RestoreJob, Restore
      <2>2. \E r \in Row : row' = [row EXCEPT ![j] = r]
            BY <1>1, <1>3, RowTypes DEF Send, RestoreJob, Restore
      <2> QED BY <1>2, <2>1, <2>2, KeepsAttemptOrder
<1>4. CASE Sweep(j) \/ DeleteJob(j)
      <2>1. resetAt' = resetAt /\ row' = [row EXCEPT ![j] = NoRow] /\ NoRow \in Row
            BY <1>1, <1>4, RowTypes DEF Sweep, DeleteJob, Update, ghostVars
      <2>2. NoRow.state \notin JobStates
            BY DEF NoRow, JobStates, Unsettled, Queued
      <2> QED BY <1>2, <2>1, <2>2, KeepsAttemptOrder
<1>5. ASSUME NEW r \in Row, row' = [row EXCEPT ![j] = r], resetAt' = resetAt,
             row[j].state \in JobStates, r.started = row[j].started, r.retryCount = row[j].retryCount
      PROVE  AttemptOrder'
      BY <1>2, <1>5, KeepsAttemptOrder
<1>6. CASE Expire(j) \/ FailJob(j) \/ CompleteJob(j)
      <2>1. PICK r \in {CompletedRow(row[j])} \cup FailOutcomes(j, FALSE) : row' = [row EXCEPT ![j] = r]
            BY <1>6 DEF Expire, FailJob, CompleteJob, Update
      <2>2. r \in Row /\ r.started = row[j].started /\ r.retryCount = row[j].retryCount
            BY <2>1, SettledFields
      <2>3. resetAt' = resetAt /\ row[j].state \in JobStates
            BY <1>6 DEF Expire, FailJob, CompleteJob, ghostVars, JobStates, Unsettled
      <2> QED BY <1>5, <2>1, <2>2, <2>3
<1>7. CASE StartAfterPasses(j) \/ CancelJob(j) \/ ResumeJob(j) \/ RetryJob(j)
      <2>1. row'[j] \in Row /\ row' = [row EXCEPT ![j] = row'[j]]
            <3>1. TypeOK'
                  BY <1>7, TableTypeOK DEF RowStep
            <3> QED BY <1>7, <3>1 DEF StartAfterPasses, CancelJob, ResumeJob, RetryJob, Update, TypeOK
      <2>2. row'[j].started = row[j].started /\ row'[j].retryCount = row[j].retryCount
            <3>1. CASE StartAfterPasses(j)
                  BY <1>1, <3>1 DEF StartAfterPasses, TypeOK, Row
            <3>2. CASE CancelJob(j)
                  BY <1>1, <3>2 DEF CancelJob, Update, TypeOK, Row
            <3>3. CASE ResumeJob(j)
                  BY <1>1, <3>3 DEF ResumeJob, Update, TypeOK, Row
            <3>4. CASE RetryJob(j)
                  BY <1>1, <3>4 DEF RetryJob, Update, TypeOK, Row
            <3> QED BY <1>7, <3>1, <3>2, <3>3, <3>4
      <2>3. resetAt' = resetAt /\ row[j].state \in JobStates
            BY <1>7 DEF StartAfterPasses, CancelJob, ResumeJob, RetryJob, ghostVars, JobStates, Unsettled
      <2> QED BY <1>5, <2>1, <2>2, <2>3
<1> QED BY <1>3, <1>4, <1>6, <1>7 DEF RowStep

\* The inductive invariant behind the fence: the attempts that workers carry are
\* ordered like the claims they were taken by (ClaimedRow increments retry_count).
THEOREM AttemptOrderInvariant == Spec => []AttemptOrder
<1>1. Init => AttemptOrder
      BY DEF Init, AttemptOrder, Holding
<1>2. TypeOK /\ AttemptOrder /\ [Next]_vars => AttemptOrder'
      <2>1. TypeOK /\ AttemptOrder /\ UNCHANGED vars => AttemptOrder'
            BY DEF AttemptOrder, Numbered, vars, workerVars, ghostVars
      <2> QED BY <2>1, WorkerKeepsAttemptOrder, TableKeepsAttemptOrder DEF Next
<1> QED BY <1>1, <1>2, TypeCorrect, PTL DEF Spec

\* The fence: whatever order claims, expiries, crashes and operator calls come
\* in, a settle whose fence matches belongs to the claim the row is active under.
THEOREM FenceTheorem == Spec => []FenceNamesOwnClaim
<1>1. TypeOK /\ AttemptOrder => FenceNamesOwnClaim
      <2> SUFFICES ASSUME TypeOK, AttemptOrder, NEW w \in Workers,
                          phase[w] \in Holding, FenceHolds(w), Numbered(w)
                   PROVE  Live(w)
            BY DEF FenceNamesOwnClaim
      <2> DEFINE j == held[w]
      <2>1. j \in Jobs /\ row[j].state = "active" /\ row[j].retryCount = attempt[w]
            BY DEF TypeOK, FenceHolds
      <2>2. row[j].state \in JobStates
            BY <2>1 DEF JobStates, Unsettled
      <2>3. token[w] <= claims[j] /\ (token[w] < claims[j] => attempt[w] < row[j].retryCount)
            BY <2>2 DEF AttemptOrder
      <2>4. token[w] \in Nat /\ claims[j] \in Nat /\ attempt[w] \in Nat
            BY <2>1 DEF TypeOK
      <2> QED BY <2>1, <2>3, <2>4 DEF Live
<1> QED BY <1>1, TypeCorrect, AttemptOrderInvariant, PTL

\* A worker's settle changes a row only by ending the worker's own live claim.
THEOREM SettlesOwnClaimTheorem == Spec => SettlesOwnClaimOnly
<1> DEFINE OwnOnly == \A w \in Workers :
                phase[w] = "running" /\ phase'[w] # "running" /\ Numbered(w)
                    /\ row'[held[w]] # row[held[w]]
                => Live(w)
<1>1. ASSUME TypeOK, FenceNamesOwnClaim, [Next]_vars
      PROVE  OwnOnly
      <2> SUFFICES ASSUME NEW w \in Workers, phase[w] = "running", phase'[w] # "running", Numbered(w),
                          row'[held[w]] # row[held[w]]
                   PROVE  FenceHolds(w)
            BY <1>1 DEF FenceNamesOwnClaim, Holding
      <2>1. CASE \E v \in Workers : WorkerStep(v)
            <3>1. PICK v \in Workers : WorkerStep(v)
                  BY <2>1
            <3>2. v = w
                  BY <1>1, <3>1 DEF TypeOK, WorkerStep, FetchSnapshot, FetchClaim, FetchNothing, CountGroup,
                         GiveBack, HandlerCompletes, HandlerFails, HandlerDeadLetters, HandlerTimesOut,
                         OverrunReturns, Crash, Release
            <3> QED BY <3>1, <3>2 DEF WorkerStep, FetchSnapshot, FetchClaim, FetchNothing, CountGroup,
                         GiveBack, HandlerCompletes, HandlerFails, HandlerDeadLetters, HandlerTimesOut,
                         OverrunReturns, Crash, SettleHeld
      <2>2. CASE \E j \in Jobs : RowStep(j)
            <3>1. UNCHANGED phase
                  BY <2>2 DEF RowStep, Send, StartAfterPasses, Expire, Sweep, CancelJob, ResumeJob, RetryJob,
                         FailJob, CompleteJob, DeleteJob, RestoreJob, Update, workerVars
            <3> QED BY <3>1
      <2>3. CASE UNCHANGED vars
            BY <2>3 DEF vars, workerVars
      <2> QED BY <1>1, <2>1, <2>2, <2>3 DEF Next
<1>2. TypeOK /\ FenceNamesOwnClaim /\ [Next]_vars => [OwnOnly]_vars
      BY <1>1
<1> QED BY <1>2, TypeCorrect, FenceTheorem, PTL DEF Spec, SettlesOwnClaimOnly

-----------------------------------------------------------------------------
(* Retry accounting. *)

\* What RetryAccounting says of one id, for a given row and given counts.
Accounted(r, c, z, m) ==
    /\ z <= c
    /\ r.state \in JobStates =>
        /\ ~r.started => c = z
        /\ r.started => c - z <= r.retryCount + 1
        /\ ~m =>
            /\ r.retryCount <= r.retryLimit
            /\ r.state = "created" => ~r.started
            /\ r.state = "retry" /\ r.started => r.retryCount < r.retryLimit

\* The accounts are kept job by job.
LEMMA AccountingByJob == RetryAccounting <=> \A j \in Jobs : Accounted(row[j], claims[j], resetAt[j], resumed[j])
BY DEF RetryAccounting, Accounted

\* A statement that changes one row keeps the accounts when it keeps that row's.
LEMMA KeepsAccounting ==
    ASSUME TypeOK, RetryAccounting, NEW j \in Jobs, NEW r,
           row' = [row EXCEPT ![j] = r],
           \A k \in Jobs \ {j} : claims'[k] = claims[k] /\ resetAt'[k] = resetAt[k] /\ resumed'[k] = resumed[k],
           Accounted(r, claims'[j], resetAt'[j], resumed'[j])
    PROVE  RetryAccounting'
<1>1. \A k \in Jobs : Accounted(row'[k], claims'[k], resetAt'[k], resumed'[k])
      <2> SUFFICES ASSUME NEW k \in Jobs
                   PROVE  Accounted(row'[k], claims'[k], resetAt'[k], resumed'[k])
            OBVIOUS
      <2>1. Accounted(row[k], claims[k], resetAt[k], resumed[k])
            BY AccountingByJob
      <2>2. CASE k = j
            BY <2>2 DEF TypeOK
      <2>3. CASE k # j
            BY <2>1, <2>3 DEF TypeOK
      <2> QED BY <2>2, <2>3
<1> QED BY <1>1 DEF RetryAccounting, Accounted

\* A settled row, completed or failed, keeps its accounts.
LEMMA SettledAccounts ==
    ASSUME TypeOK, RetryAccounting, NEW j \in Jobs, row[j].state \in JobStates,
           NEW r \in {CompletedRow(row[j])} \cup FailOutcomes(j, FALSE) \cup FailOutcomes(j, TRUE)
    PROVE  Accounted(r, claims[j], resetAt[j], resumed[j])
<1>1. Accounted(row[j], claims[j], resetAt[j], resumed[j])
      BY AccountingByJob
<1>2. /\ r.state \in {"completed", "retry", "failed"}
      /\ r.state = "retry" => row[j].retryCount < row[j].retryLimit
      /\ r.started = row[j].started
      /\ r.retryCount = row[j].retryCount
      /\ r.retryLimit = row[j].retryLimit
      BY SettledFields
<1>3. row[j].retryCount \in Nat /\ row[j].retryLimit \in Nat
      BY DEF TypeOK, Row
<1> QED BY <1>1, <1>2, <1>3 DEF Accounted

\* A restored row starts its accounts afresh.
LEMMA RestoredAccounts ==
    ASSUME TypeOK, RetryAccounting, NEW j \in Jobs
    PROVE  Accounted(RestoredRow(row[j]), claims[j], claims[j], resumed[j])
<1>1. Accounted(row[j], claims[j], resetAt[j], resumed[j]) /\ row[j] \in Row /\ claims[j] \in Nat
      BY AccountingByJob DEF TypeOK
<1>2. CASE row[j].state = "absent"
      <2>1. RestoredRow(row[j]) = row[j]
            BY <1>1, <1>2, RestoredFields
      <2>2. row[j].state \notin JobStates
            BY <1>2 DEF JobStates, Unsettled, Queued
      <2> QED BY <1>1, <2>1, <2>2 DEF Accounted
<1>3. CASE row[j].state # "absent"
      <2>1. /\ RestoredRow(row[j]).state = "created"
            /\ RestoredRow(row[j]).started = FALSE
            /\ RestoredRow(row[j]).retryCount = row[j].retryCount
            /\ RestoredRow(row[j]).retryLimit = row[j].retryLimit
            BY <1>1, <1>3, RestoredFields
      <2>2. row[j].state \in JobStates
            BY <1>1, <1>3 DEF Row
      <2> QED BY <1>1, <2>1, <2>2 DEF Accounted
<1> QED BY <1>2, <1>3

\* Every step of a worker keeps the accounts; a claim of a row in retry is covered
\* by retry_count < retry_limit.
LEMMA WorkerKeepsAccounting ==
    ASSUME TypeOK, RetryAccounting, NEW w \in Workers, WorkerStep(w)
    PROVE  RetryAccounting'
<1>1. CASE FetchClaim(w)
      <2>1. PICK j \in seen[w] :
                /\ Fetchable(j)
                /\ row' = [row EXCEPT ![j] = ClaimedRow(row[j])]
                /\ claims' = [claims EXCEPT ![j] = claims[j] + 1]
            BY <1>1 DEF FetchClaim, LockedRowPasses
      <2>2. /\ j \in Jobs /\ row[j] \in Row /\ row[j].state \in Queued
            /\ claims[j] \in Nat /\ resetAt[j] \in Nat
            /\ resetAt' = resetAt /\ resumed' = resumed
            BY <1>1, <2>1 DEF TypeOK, Fetchable, FetchClaim
      <2>3. Accounted(row[j], claims[j], resetAt[j], resumed[j])
            BY <2>2, AccountingByJob
      <2>4. /\ row[j].retryCount \in Nat /\ row[j].retryLimit \in Nat
            /\ row[j].state \in {"created", "retry"} /\ row[j].state \in JobStates
            BY <2>2 DEF Row, Queued, JobStates, Unsettled
      <2>5. /\ ClaimedRow(row[j]).state = "active"
            /\ ClaimedRow(row[j]).started = TRUE
            /\ ClaimedRow(row[j]).retryCount = IF row[j].started THEN row[j].retryCount + 1 ELSE row[j].retryCount
            /\ ClaimedRow(row[j]).retryLimit = row[j].retryLimit
            BY <2>2, ClaimedFields
      <2>6. Accounted(ClaimedRow(row[j]), claims[j] + 1, resetAt[j], resumed[j])
            BY <2>2, <2>3, <2>4, <2>5 DEF Accounted
      <2>7. claims'[j] = claims[j] + 1 /\ \A k \in Jobs \ {j} : claims'[k] = claims[k]
            BY <2>1, <2>2 DEF TypeOK
      <2> QED BY <2>1, <2>2, <2>6, <2>7, KeepsAccounting
<1>2. CASE GiveBack(w)
      <2>1. held[w] \in Jobs
            BY <1>2 DEF GiveBack, TypeOK, Holding
      <2>2. /\ row' = [row EXCEPT ![held[w]] = RestoredRow(row[held[w]])]
            /\ claims' = claims /\ resumed' = resumed
            /\ resetAt'[held[w]] = claims[held[w]]
            /\ \A k \in Jobs \ {held[w]} : resetAt'[k] = resetAt[k]
            BY <1>2, <2>1 DEF GiveBack, Restore, TypeOK
      <2> QED BY <2>1, <2>2, RestoredAccounts, KeepsAccounting
<1>3. CASE HandlerCompletes(w) \/ HandlerFails(w) \/ HandlerDeadLetters(w) \/ HandlerTimesOut(w)
      <2>1. /\ held[w] \in Jobs
            /\ claims' = claims /\ resetAt' = resetAt /\ resumed' = resumed
            BY <1>3 DEF HandlerCompletes, HandlerFails, HandlerDeadLetters, HandlerTimesOut, TypeOK, Holding, ghostVars
      <2>2. CASE UNCHANGED row
            BY <2>1, <2>2 DEF RetryAccounting
      <2>3. CASE ~UNCHANGED row
            <3>1. PICK r \in {CompletedRow(row[held[w]])} \cup FailOutcomes(held[w], FALSE) \cup FailOutcomes(held[w], TRUE) :
                        row' = [row EXCEPT ![held[w]] = r] /\ FenceHolds(w)
                  BY <1>3, <2>3 DEF HandlerCompletes, HandlerFails, HandlerDeadLetters, HandlerTimesOut, SettleHeld
            <3>2. row[held[w]].state \in JobStates
                  BY <3>1 DEF FenceHolds, JobStates, Unsettled
            <3>3. Accounted(r, claims'[held[w]], resetAt'[held[w]], resumed'[held[w]])
                  BY <2>1, <3>1, <3>2, SettledAccounts
            <3> QED BY <2>1, <3>1, <3>3, KeepsAccounting
      <2> QED BY <2>2, <2>3
<1>4. CASE FetchSnapshot(w) \/ FetchNothing(w) \/ CountGroup(w) \/ OverrunReturns(w) \/ Crash(w)
      <2>1. UNCHANGED <<row, claims, resetAt, resumed>>
            BY <1>4 DEF FetchSnapshot, FetchNothing, CountGroup, OverrunReturns, Crash, ghostVars
      <2> QED BY <2>1 DEF RetryAccounting
<1> QED BY <1>1, <1>2, <1>3, <1>4 DEF WorkerStep

\* Every step of a producer, the supervisor or an operator keeps the accounts.
LEMMA TableKeepsAccounting ==
    ASSUME TypeOK, RetryAccounting, NEW j \in Jobs, RowStep(j)
    PROVE  RetryAccounting'
<1>1. /\ row[j] \in Row /\ claims[j] \in Nat /\ resetAt[j] \in Nat
      /\ Accounted(row[j], claims[j], resetAt[j], resumed[j])
      BY AccountingByJob DEF TypeOK
<1>2. ASSUME NEW r, row' = [row EXCEPT ![j] = r], UNCHANGED ghostVars,
             Accounted(r, claims[j], resetAt[j], resumed[j])
      PROVE  RetryAccounting'
      BY <1>2, KeepsAccounting DEF ghostVars
<1>3. CASE Send(j)
      <2>1. PICK d \in BOOLEAN : row' = [row EXCEPT ![j] = NewRow(d)]
            BY <1>3 DEF Send
      <2>2. /\ claims' = claims /\ resetAt'[j] = claims[j] /\ resumed'[j] = FALSE
            /\ \A k \in Jobs \ {j} : resetAt'[k] = resetAt[k] /\ resumed'[k] = resumed[k]
            BY <1>3 DEF Send, TypeOK
      <2>3. Accounted(NewRow(d), claims'[j], resetAt'[j], resumed'[j])
            BY <1>1, <2>2, ConstantsAssumption DEF Accounted, NewRow
      <2> QED BY <2>1, <2>2, <2>3, KeepsAccounting
<1>4. CASE RestoreJob(j)
      <2>1. /\ row' = [row EXCEPT ![j] = RestoredRow(row[j])]
            /\ claims' = claims /\ resumed' = resumed /\ resetAt'[j] = claims[j]
            /\ \A k \in Jobs \ {j} : resetAt'[k] = resetAt[k]
            BY <1>4 DEF RestoreJob, Restore, TypeOK
      <2> QED BY <2>1, RestoredAccounts, KeepsAccounting
<1>5. CASE Sweep(j) \/ DeleteJob(j)
      <2>1. Accounted(NoRow, claims[j], resetAt[j], resumed[j])
            BY <1>1 DEF Accounted, NoRow, JobStates, Unsettled, Queued
      <2> QED BY <1>2, <1>5, <2>1 DEF Sweep, DeleteJob, Update
<1>6. CASE Expire(j) \/ FailJob(j) \/ CompleteJob(j)
      <2>1. PICK r \in {CompletedRow(row[j])} \cup FailOutcomes(j, FALSE) : row' = [row EXCEPT ![j] = r]
            BY <1>6 DEF Expire, FailJob, CompleteJob, Update
      <2>2. UNCHANGED ghostVars /\ row[j].state \in JobStates
            BY <1>6 DEF Expire, FailJob, CompleteJob, JobStates, Unsettled
      <2> QED BY <1>2, <2>1, <2>2, SettledAccounts
<1>7. CASE StartAfterPasses(j)
      <2>1. Accounted([row[j] EXCEPT !.due = TRUE], claims[j], resetAt[j], resumed[j])
            BY <1>1 DEF Accounted, Row
      <2> QED BY <1>2, <1>7, <2>1 DEF StartAfterPasses
<1>8. CASE CancelJob(j)
      <2>1. Accounted([row[j] EXCEPT !.state = "cancelled", !.completedOn = TRUE], claims[j], resetAt[j], resumed[j])
            BY <1>1, <1>8 DEF Accounted, Row, CancelJob, JobStates
      <2> QED BY <1>2, <1>8, <2>1 DEF CancelJob, Update
<1>9. CASE ResumeJob(j)
      <2>1. Accounted([row[j] EXCEPT !.state = "created", !.completedOn = FALSE], claims[j], resetAt[j], TRUE)
            BY <1>1, <1>9 DEF Accounted, Row, ResumeJob, JobStates
      <2>2. /\ claims' = claims /\ resetAt' = resetAt /\ resumed'[j] = TRUE
            /\ \A k \in Jobs \ {j} : resumed'[k] = resumed[k]
            BY <1>9 DEF ResumeJob, TypeOK
      <2> QED BY <1>9, <2>1, <2>2, KeepsAccounting DEF ResumeJob, Update
<1>10. CASE RetryJob(j)
      <2> DEFINE r == [row[j] EXCEPT !.state = "retry", !.completedOn = FALSE, !.retryLimit = row[j].retryLimit + 1]
      <2>1. /\ r.state = "retry" /\ r.started = row[j].started
            /\ r.retryCount = row[j].retryCount /\ r.retryLimit = row[j].retryLimit + 1
            /\ row[j].retryCount \in Nat /\ row[j].retryLimit \in Nat
            BY <1>1 DEF Row
      <2>2. row[j].state \in JobStates
            BY <1>10 DEF RetryJob, JobStates
      <2>3. row' = [row EXCEPT ![j] = r] /\ UNCHANGED ghostVars
            BY <1>10 DEF RetryJob, Update
      <2> HIDE DEF r
      <2>4. Accounted(r, claims[j], resetAt[j], resumed[j])
            BY <1>1, <2>1, <2>2 DEF Accounted
      <2> QED BY <1>2, <2>3, <2>4
<1> QED BY <1>3, <1>4, <1>5, <1>6, <1>7, <1>8, <1>9, <1>10 DEF RowStep

\* The accounts hold in every reachable state.
THEOREM RetryAccountingInvariant == Spec => []RetryAccounting
<1>1. Init => RetryAccounting
      BY DEF Init, RetryAccounting, NoRow, JobStates, Unsettled, Queued
<1>2. TypeOK /\ RetryAccounting /\ [Next]_vars => RetryAccounting'
      <2>1. TypeOK /\ RetryAccounting /\ UNCHANGED vars => RetryAccounting'
            BY DEF RetryAccounting, vars, ghostVars
      <2> QED BY <2>1, WorkerKeepsAccounting, TableKeepsAccounting DEF Next
<1> QED BY <1>1, <1>2, TypeCorrect, PTL DEF Spec

\* retry_limit bounds the attempts: a job that is not resumed runs at most
\* retry_limit + 1 times, whatever expires, crashes, is failed or retried.
THEOREM AttemptBudgetTheorem == Spec => []AttemptBudget
<1>1. TypeOK /\ RetryAccounting => AttemptBudget
      <2> SUFFICES ASSUME TypeOK, NEW j \in Jobs, row[j].state \in JobStates, ~resumed[j],
                          Accounted(row[j], claims[j], resetAt[j], resumed[j])
                   PROVE  claims[j] - resetAt[j] <= row[j].retryLimit + 1
            BY AccountingByJob DEF AttemptBudget
      <2>1. /\ claims[j] \in Nat /\ resetAt[j] \in Nat
            /\ row[j].retryCount \in Nat /\ row[j].retryLimit \in Nat
            BY DEF TypeOK, Row
      <2> QED BY <2>1 DEF Accounted
<1> QED BY <1>1, TypeCorrect, RetryAccountingInvariant, PTL

-----------------------------------------------------------------------------
(* Live claims and groups. *)

\* Two workers never carry the same claim of an id.
TokensDiffer ==
    \A v, w \in Workers :
        v # w /\ phase[v] \in Holding /\ phase[w] \in Holding /\ held[v] = held[w]
        => token[v] # token[w]

\* An active row was claimed after its attempts were last renumbered.
ActiveIsClaimed == \A j \in Jobs : row[j].state = "active" => resetAt[j] < claims[j]

\* Nothing but the fetch statement takes a claim or makes a row active.
LEMMA OnlyFetchClaims ==
    ASSUME TypeOK, [Next]_vars, \A w \in Workers : ~FetchClaim(w)
    PROVE  /\ claims' = claims
           /\ \A v \in Workers : phase'[v] \in Holding =>
                phase[v] \in Holding /\ held'[v] = held[v] /\ attempt'[v] = attempt[v] /\ token'[v] = token[v]
           /\ \A j \in Jobs : row'[j].state = "active" => row[j].state = "active" /\ resetAt'[j] = resetAt[j]
<1> DEFINE Frame == /\ claims' = claims
                    /\ \A v \in Workers : phase'[v] \in Holding =>
                            phase[v] \in Holding /\ held'[v] = held[v]
                            /\ attempt'[v] = attempt[v] /\ token'[v] = token[v]
           Rows == \A j \in Jobs : row'[j].state = "active" => row[j].state = "active" /\ resetAt'[j] = resetAt[j]
<1>1. ASSUME NEW j \in Jobs, NEW r, row' = [row EXCEPT ![j] = r], r.state # "active",
             \A k \in Jobs \ {j} : resetAt'[k] = resetAt[k]
      PROVE  Rows
      BY <1>1 DEF TypeOK
<1>2. ASSUME NEW j \in Jobs, NEW r \in {CompletedRow(row[j])} \cup FailOutcomes(j, FALSE) \cup FailOutcomes(j, TRUE)
      PROVE  r.state # "active"
      BY <1>2, SettledFields
<1>4. CASE UNCHANGED vars
      BY <1>4 DEF vars, workerVars, ghostVars
<1>5. ASSUME NEW w \in Workers, WorkerStep(w)
      PROVE  Frame /\ Rows
      <2>1. CASE FetchSnapshot(w) \/ FetchNothing(w) \/ CountGroup(w)
            BY <2>1 DEF FetchSnapshot, FetchNothing, CountGroup, ghostVars, TypeOK, Holding
      <2>2. CASE OverrunReturns(w) \/ Crash(w)
            BY <2>2 DEF OverrunReturns, Crash, Release, ghostVars, TypeOK, Holding
      <2>3. CASE GiveBack(w)
            <3>1. held[w] \in Jobs /\ RestoredRow(row[held[w]]).state # "active"
                  BY <2>3, RestoredFields DEF GiveBack, TypeOK, Holding
            <3>2. Rows
                  BY <1>1, <2>3, <3>1 DEF GiveBack, Restore, TypeOK
            <3> QED BY <2>3, <3>2 DEF GiveBack, Restore, Release, TypeOK, Holding
      <2>4. CASE HandlerCompletes(w) \/ HandlerFails(w) \/ HandlerDeadLetters(w) \/ HandlerTimesOut(w)
            <3>1. Frame
                  BY <2>4 DEF HandlerCompletes, HandlerFails, HandlerDeadLetters, HandlerTimesOut,
                              Release, ghostVars, TypeOK, Holding
            <3>2. held[w] \in Jobs /\ resetAt' = resetAt
                  BY <2>4 DEF HandlerCompletes, HandlerFails, HandlerDeadLetters, HandlerTimesOut,
                              ghostVars, TypeOK, Holding
            <3>3. \/ UNCHANGED row
                  \/ \E r \in {CompletedRow(row[held[w]])} \cup FailOutcomes(held[w], FALSE) \cup FailOutcomes(held[w], TRUE) :
                        row' = [row EXCEPT ![held[w]] = r]
                  BY <2>4 DEF HandlerCompletes, HandlerFails, HandlerDeadLetters, HandlerTimesOut, SettleHeld
            <3>4. Rows
                  BY <1>1, <1>2, <3>2, <3>3
            <3> QED BY <3>1, <3>4
      <2> QED BY <1>5, <2>1, <2>2, <2>3, <2>4 DEF WorkerStep
<1>6. ASSUME NEW j \in Jobs, RowStep(j)
      PROVE  Frame /\ Rows
      <2>1. Frame
            BY <1>6 DEF RowStep, Send, StartAfterPasses, Expire, Sweep, CancelJob, ResumeJob, RetryJob, FailJob,
                        CompleteJob, DeleteJob, RestoreJob, Restore, Update, ghostVars, workerVars
      <2>2. \A k \in Jobs \ {j} : resetAt'[k] = resetAt[k]
            BY <1>6 DEF RowStep, Send, StartAfterPasses, Expire, Sweep, CancelJob, ResumeJob, RetryJob, FailJob,
                        CompleteJob, DeleteJob, RestoreJob, Restore, Update, ghostVars, TypeOK
      <2>3. row[j] \in Row
            BY DEF TypeOK
      <2>4. CASE StartAfterPasses(j)
            BY <2>1, <2>3, <2>4 DEF StartAfterPasses, ghostVars, TypeOK, Row
      <2>5. CASE Send(j)
            BY <2>1, <1>1, <2>2, <2>5 DEF Send, NewRow
      <2>6. CASE Sweep(j) \/ DeleteJob(j)
            <3>1. row' = [row EXCEPT ![j] = NoRow] /\ NoRow.state # "active"
                  BY <2>6 DEF Sweep, DeleteJob, Update, NoRow
            <3> QED BY <1>1, <2>1, <2>2, <3>1
      <2>7. CASE Expire(j) \/ FailJob(j) \/ CompleteJob(j)
            <3>1. PICK r \in {CompletedRow(row[j])} \cup FailOutcomes(j, FALSE) : row' = [row EXCEPT ![j] = r]
                  BY <2>7 DEF Expire, FailJob, CompleteJob, Update
            <3>2. r.state # "active"
                  BY <1>2, <3>1
            <3> QED BY <1>1, <2>1, <2>2, <3>1, <3>2
      <2>8. CASE RestoreJob(j)
            <3>1. RestoredRow(row[j]).state # "active"
                  BY <2>3, <2>8, RestoredFields DEF RestoreJob, JobStates, Unsettled, Queued
            <3> QED BY <2>1, <1>1, <2>2, <2>8, <3>1 DEF RestoreJob, Restore
      <2>9. CASE CancelJob(j) \/ ResumeJob(j) \/ RetryJob(j)
            <3>1. row' = [row EXCEPT ![j] = row'[j]]
                  BY <2>9 DEF CancelJob, ResumeJob, RetryJob, Update, TypeOK
            <3>2. row'[j].state # "active"
                  <4>1. CASE CancelJob(j)
                        BY <2>3, <4>1 DEF CancelJob, Update, TypeOK, Row
                  <4>2. CASE ResumeJob(j)
                        BY <2>3, <4>2 DEF ResumeJob, Update, TypeOK, Row
                  <4>3. CASE RetryJob(j)
                        BY <2>3, <4>3 DEF RetryJob, Update, TypeOK, Row
                  <4> QED BY <2>9, <4>1, <4>2, <4>3
            <3> QED BY <1>1, <2>1, <2>2, <3>1, <3>2
      <2> QED BY <1>6, <2>1, <2>4, <2>5, <2>6, <2>7, <2>8, <2>9 DEF RowStep
<1> QED BY <1>4, <1>5, <1>6 DEF Next

\* A new claim's number is above every earlier one, so no two workers share one.
THEOREM TokensDifferInvariant == Spec => []TokensDiffer
<1>1. Init => TokensDiffer
      BY DEF Init, TokensDiffer, Holding
<1>2. ASSUME TypeOK, AttemptOrder, TokensDiffer, [Next]_vars
      PROVE  TokensDiffer'
      <2>1. CASE \A w \in Workers : ~FetchClaim(w)
            BY <1>2, <2>1, OnlyFetchClaims DEF TokensDiffer
      <2>2. CASE \E w \in Workers : FetchClaim(w)
            <3>1. PICK w \in Workers : FetchClaim(w)
                  BY <2>2
            <3>2. PICK j \in seen[w] :
                    /\ held' = [held EXCEPT ![w] = j]
                    /\ token' = [token EXCEPT ![w] = claims[j] + 1]
                  BY <3>1 DEF FetchClaim
            <3>3. j \in Jobs /\ claims[j] \in Nat
                  BY <1>2, <3>2 DEF TypeOK
            <3>4. \A v \in Workers \ {w} : phase'[v] = phase[v] /\ held'[v] = held[v] /\ token'[v] = token[v]
                  BY <1>2, <3>1 DEF FetchClaim, TypeOK
            <3>5. held'[w] = j /\ token'[w] = claims[j] + 1
                  BY <1>2, <3>2 DEF TypeOK
            <3>6. \A v \in Workers \ {w} : phase[v] \in Holding /\ held[v] = j => token[v] # claims[j] + 1
                  BY <1>2, <3>3 DEF AttemptOrder, TypeOK
            <3> QED BY <1>2, <3>4, <3>5, <3>6 DEF TokensDiffer
      <2> QED BY <2>1, <2>2
<1> QED BY <1>1, <1>2, TypeCorrect, AttemptOrderInvariant, PTL DEF Spec

\* At most one worker holds the live claim of a job.
LEMMA OneLiveHolder ==
    ASSUME TypeOK, TokensDiffer, NEW v \in Workers, NEW w \in Workers, Live(v), Live(w), held[v] = held[w]
    PROVE  v = w
BY DEF TokensDiffer, Live

\* The workers GroupLimitHolds counts.
Running(g) == {w \in Workers : phase[w] = "running" /\ Live(w) /\ GroupOf[held[w]] = g}

\* A live claim in a group is on an active job of the group, so there are no more
\* live claims than CountGroup counts jobs.
LEMMA LiveClaimsAreCounted ==
    ASSUME TypeOK, TokensDiffer, NEW g, NEW S \in SUBSET Workers,
           \A w \in S : Live(w) /\ GroupOf[held[w]] = g
    PROVE  /\ IsFiniteSet(S) /\ Cardinality(S) \in Nat
           /\ Cardinality(ActiveIn(g)) \in Nat
           /\ Cardinality(S) <= Cardinality(ActiveIn(g))
<1> DEFINE f == [w \in S |-> held[w]]
<1>1. \A w \in S : held[w] \in ActiveIn(g)
      BY DEF ActiveIn, Live, TypeOK
<1>2. f \in Injection(S, ActiveIn(g))
      BY <1>1, OneLiveHolder DEF Injection, IsInjective
<1>3. IsFiniteSet(ActiveIn(g)) /\ IsFiniteSet(S)
      BY ConstantsAssumption, FS_Subset DEF ActiveIn
<1>4. Cardinality(S) <= Cardinality(ActiveIn(g))
      BY <1>2, <1>3, FS_Injection
<1> QED BY <1>3, <1>4, FS_CardinalityType

\* A worker joins the running ones of a group only by counting the group.
LEMMA OnlyCountGroupStarts ==
    ASSUME TypeOK, AttemptOrder, [Next]_vars, NEW g, g # NoGroup, NEW w \in Workers, w \in Running(g)', w \notin Running(g)
    PROVE  CountGroup(w)
<1>1. CASE \A v \in Workers : ~FetchClaim(v)
      <2>1. /\ phase[w] \in Holding /\ held'[w] = held[w] /\ token'[w] = token[w] /\ claims' = claims
            /\ row[held[w]].state = "active"
            BY <1>1, OnlyFetchClaims DEF Running, Live, Holding, TypeOK
      <2>2. phase'[w] = "running" /\ phase[w] # "running"
            BY <2>1 DEF Running, Live
      <2>3. PICK v \in Workers : WorkerStep(v)
            BY <2>2 DEF Next, RowStep, Send, StartAfterPasses, Expire, Sweep, CancelJob, ResumeJob, RetryJob, FailJob,
                        CompleteJob, DeleteJob, RestoreJob, Update, workerVars, vars
      <2> QED BY <1>1, <2>2, <2>3
              DEF WorkerStep, FetchSnapshot, FetchNothing, CountGroup, GiveBack, HandlerCompletes, HandlerFails,
                  HandlerDeadLetters, HandlerTimesOut, OverrunReturns, Crash, Release, TypeOK
<1>2. CASE \E v \in Workers : FetchClaim(v)
      <2>1. PICK v \in Workers : FetchClaim(v)
            BY <1>2
      <2>2. PICK j \in seen[v] :
                /\ Fetchable(j)
                /\ row' = [row EXCEPT ![j] = ClaimedRow(row[j])]
                /\ phase' = [phase EXCEPT ![v] = IF GroupOf[j] = NoGroup THEN "running" ELSE "claimed"]
                /\ held' = [held EXCEPT ![v] = j]
                /\ token' = [token EXCEPT ![v] = claims[j] + 1]
                /\ claims' = [claims EXCEPT ![j] = claims[j] + 1]
            BY <2>1 DEF FetchClaim, LockedRowPasses
      <2>3. CASE v = w
            BY <2>2, <2>3 DEF Running, TypeOK
      <2>4. CASE v # w
            <3>1. phase'[w] = phase[w] /\ held'[w] = held[w] /\ token'[w] = token[w]
                  BY <2>2, <2>4 DEF TypeOK
            <3>2. phase[w] = "running" /\ held[w] \in Jobs /\ j \in Jobs
                  BY <2>2, <3>1 DEF Running, TypeOK, Holding
            <3>3. CASE held[w] = j
                  <4>1. token[w] <= claims[j] /\ token[w] \in Nat /\ claims[j] \in Nat
                        BY <3>2, <3>3 DEF AttemptOrder, TypeOK, Holding
                  <4>2. token[w] = claims[j] + 1
                        BY <2>2, <3>1, <3>2, <3>3 DEF Running, Live, TypeOK
                  <4> QED BY <4>1, <4>2
            <3>4. CASE held[w] # j
                  BY <2>2, <3>1, <3>2, <3>4 DEF Running, Live, TypeOK
            <3> QED BY <3>3, <3>4
      <2> QED BY <2>3, <2>4
<1> QED BY <1>1, <1>2

\* Counting keeps the limit: the counted jobs include that of every running claim
\* and the worker's own.
LEMMA CountKeepsLimit ==
    ASSUME TypeOK, TokensDiffer, NEW w \in Workers, CountGroup(w), NEW g, w \in Running(g)'
    PROVE  Cardinality(Running(g)') <= GroupLimit
<1>1. /\ UNCHANGED <<row, held, attempt, token, seen, ghostVars>>
      /\ phase[w] = "claimed" /\ phase' = [phase EXCEPT ![w] = phase'[w]]
      BY DEF CountGroup, TypeOK
<1>2. \A v \in Running(g)' : Live(v) /\ GroupOf[held[v]] = g
      BY <1>1 DEF Running, Live, TypeOK, Holding, ghostVars
<1>3. GroupOf[held[w]] = g /\ ~(Cardinality(ActiveIn(g)) > GroupLimit)
      <2>1. phase'[w] = "running" /\ GroupOf[held[w]] = g
            BY <1>2 DEF Running
      <2> QED BY <2>1 DEF CountGroup, TypeOK
<1>4. Running(g)' \in SUBSET Workers
      BY DEF Running
<1>5. /\ Cardinality(Running(g)') \in Nat /\ Cardinality(ActiveIn(g)) \in Nat
      /\ Cardinality(Running(g)') <= Cardinality(ActiveIn(g))
      <2> HIDE DEF Running
      <2> QED BY <1>2, <1>4, LiveClaimsAreCounted
<1> QED BY <1>3, <1>5, ConstantsAssumption

\* groupConcurrency across instances: whatever fetch statements overlap, the count
\* after the claim keeps a group's live running claims within the limit.
THEOREM GroupLimitTheorem == Spec => []GroupLimitHolds
<1> DEFINE Groups == {GroupOf[j] : j \in Jobs} \ {NoGroup}
           Within == \A g \in Groups : Cardinality(Running(g)) <= GroupLimit
<1>1. Within <=> GroupLimitHolds
      BY DEF GroupLimitHolds, Running
<1>2. Init => Within
      <2> SUFFICES ASSUME Init, NEW g \in Groups
                   PROVE  Cardinality(Running(g)) <= GroupLimit
            OBVIOUS
      <2>1. Running(g) = {}
            BY DEF Init, Running
      <2> QED BY <2>1, FS_EmptySet, ConstantsAssumption
<1>3. ASSUME TypeOK, AttemptOrder, TokensDiffer, Within, [Next]_vars
      PROVE  Within'
      <2> SUFFICES ASSUME NEW g \in Groups
                   PROVE  Cardinality(Running(g)') <= GroupLimit
            OBVIOUS
      <2>1. CASE Running(g)' \subseteq Running(g)
            <3>1. IsFiniteSet(Running(g))
                  BY ConstantsAssumption, FS_Subset DEF Running
            <3>2. /\ Cardinality(Running(g)') <= Cardinality(Running(g))
                  /\ Cardinality(Running(g)') \in Nat /\ Cardinality(Running(g)) \in Nat
                  BY <2>1, <3>1, FS_Subset, FS_CardinalityType
            <3> QED BY <1>3, <3>2, ConstantsAssumption
      <2>2. CASE ~(Running(g)' \subseteq Running(g))
            <3>1. PICK w \in Workers : w \in Running(g)' /\ w \notin Running(g)
                  BY <2>2 DEF Running
            <3>2. CountGroup(w)
                  BY <1>3, <3>1, OnlyCountGroupStarts
            <3> QED BY <1>3, <3>1, <3>2, CountKeepsLimit
      <2> QED BY <2>1, <2>2
<1>4. TypeOK /\ AttemptOrder /\ TokensDiffer /\ GroupLimitHolds /\ [Next]_vars => GroupLimitHolds'
      <2>1. (Within <=> GroupLimitHolds)'
            BY DEF GroupLimitHolds, Running
      <2> QED BY <1>1, <1>3, <2>1
<1>5. Init => GroupLimitHolds
      BY <1>1, <1>2
<1> QED BY <1>4, <1>5, TypeCorrect, AttemptOrderInvariant, TokensDifferInvariant, PTL DEF Spec

-----------------------------------------------------------------------------
(* JobClaims implements Lease: each step of the claims, the settles and the      *)
(* operators is a step of the lease or none.                                      *)

\* The number of a claim that renumbered nothing is above every renumbering.
THEOREM ActiveIsClaimedInvariant == Spec => []ActiveIsClaimed
<1>1. Init => ActiveIsClaimed
      BY DEF Init, ActiveIsClaimed, NoRow
<1>2. ASSUME TypeOK, RetryAccounting, ActiveIsClaimed, [Next]_vars
      PROVE  ActiveIsClaimed'
      <2>1. CASE \A w \in Workers : ~FetchClaim(w)
            BY <1>2, <2>1, OnlyFetchClaims DEF ActiveIsClaimed
      <2>2. CASE \E w \in Workers : FetchClaim(w)
            <3>1. PICK w \in Workers : FetchClaim(w)
                  BY <2>2
            <3>2. PICK j \in seen[w] :
                    /\ row' = [row EXCEPT ![j] = ClaimedRow(row[j])]
                    /\ claims' = [claims EXCEPT ![j] = claims[j] + 1]
                    /\ resetAt' = resetAt
                  BY <3>1 DEF FetchClaim
            <3>3. /\ j \in Jobs /\ claims[j] \in Nat /\ resetAt[j] \in Nat /\ resetAt[j] <= claims[j]
                  /\ claims'[j] = claims[j] + 1
                  BY <1>2, <3>2 DEF TypeOK, RetryAccounting
            <3>4. \A k \in Jobs \ {j} : row'[k] = row[k] /\ claims'[k] = claims[k]
                  BY <1>2, <3>2 DEF TypeOK
            <3> QED BY <1>2, <3>2, <3>3, <3>4 DEF ActiveIsClaimed
      <2> QED BY <2>1, <2>2
<1> QED BY <1>1, <1>2, TypeCorrect, RetryAccountingInvariant, PTL DEF Spec

\* What the mapping rests on.
IInv == TypeOK /\ AttemptOrder /\ TokensDiffer /\ RetryAccounting /\ ActiveIsClaimed

LEMMA IInvInvariant == Spec => []IInv
BY TypeCorrect, AttemptOrderInvariant, TokensDifferInvariant, RetryAccountingInvariant,
   ActiveIsClaimedInvariant, PTL DEF IInv

\* The mapped variables, under names of their own.
Cell == [j \in Jobs |-> CellOf(row[j])]
HolderSet(j) == {w \in Workers : Live(w) /\ held[w] = j}
Holders == [j \in Jobs |-> HolderSet(j)]
Blind == {w \in Workers : phase[w] \in Holding /\ ~Numbered(w)}

\* The cell of each state.
LEMMA Cells ==
    ASSUME NEW r \in Row
    PROVE  /\ r.state = "absent" <=> CellOf(r) = "none"
           /\ r.state \in Queued <=> CellOf(r) = "open"
           /\ r.state = "active" <=> CellOf(r) = "leased"
           /\ r.state \in {"completed", "cancelled", "failed"} <=> CellOf(r) = "closed"
BY DEF CellOf, Row, JobStates, Unsettled, Queued
-----------------------------------------------------------------------------
(* What changes of the rows and of the workers' claims map to. *)

\* No claim appears, and the claims that end are on j.
ClaimsEndOn(j) ==
    /\ claims' = claims
    /\ \A v \in Workers : phase'[v] \in Holding =>
            phase[v] \in Holding /\ held'[v] = held[v] /\ token'[v] = token[v]
    /\ \A v \in Workers : phase[v] \in Holding /\ phase'[v] \notin Holding => held[v] = j

\* A row that leaves the active state takes its cell and its lease with it.
LEMMA PutMaps ==
    ASSUME IInv, NEW j \in Jobs, NEW r, row' = [row EXCEPT ![j] = r], r.state # "active", ClaimsEndOn(j)
    PROVE  L!Put(j, CellOf(r))
<1>1. Cell' = [Cell EXCEPT ![j] = CellOf(r)]
      BY DEF Cell, IInv, TypeOK
<1>2. Holders' = [Holders EXCEPT ![j] = {}]
      <2>1. \A k \in Jobs \ {j} : HolderSet(k)' = HolderSet(k)
            BY DEF HolderSet, Live, ClaimsEndOn, IInv, TypeOK
      <2>2. HolderSet(j)' = {}
            BY DEF HolderSet, Live, IInv, TypeOK
      <2> QED BY <2>1, <2>2 DEF Holders
<1> QED BY <1>1, <1>2 DEF L!Put, Cell, Holders, HolderSet

\* A renumbering of j's attempts blinds every claim on j and no other.
LEMMA RenumberingBlinds ==
    ASSUME IInv, NEW j \in Jobs, resetAt' = [resetAt EXCEPT ![j] = claims[j]], ClaimsEndOn(j),
           NEW S, S = {v \in Workers : phase[v] \in Holding /\ phase'[v] \notin Holding}
    PROVE  Blind' = (Blind \cup L!Believers(j)) \ S
<1>1. \A v \in Workers : phase[v] \in Holding => held[v] \in Jobs /\ token[v] <= claims[held[v]]
      BY DEF IInv, TypeOK, AttemptOrder
<1>2. \A v \in Workers : token[v] \in Nat /\ (held[v] \in Jobs <=> phase[v] \in Holding)
      BY DEF IInv, TypeOK
<1>3. \A k \in Jobs : claims[k] \in Nat /\ resetAt[k] \in Nat /\ resetAt'[k] = IF k = j THEN claims[k] ELSE resetAt[k]
      BY DEF IInv, TypeOK
<1>4. ASSUME NEW v \in Workers
      PROVE  v \in Blind' <=> v \in (Blind \cup L!Believers(j)) \ S
      <2>1. CASE phase'[v] \in Holding
            <3>1. phase[v] \in Holding /\ held'[v] = held[v] /\ token'[v] = token[v] /\ held[v] \in Jobs /\ v \notin S
                  BY <1>1, <2>1 DEF ClaimsEndOn
            <3>2. v \in Blind' <=> ~(token[v] > resetAt'[held[v]])
                  BY <2>1, <3>1 DEF Blind, Numbered
            <3>3. v \in Blind <=> ~(token[v] > resetAt[held[v]])
                  BY <3>1 DEF Blind, Numbered
            <3>4. v \in L!Believers(j) <=> held[v] = j
                  BY DEF L!Believers
            <3>5. CASE held[v] = j
                  BY <1>1, <1>2, <1>3, <3>1, <3>2, <3>4, <3>5
            <3>6. CASE held[v] # j
                  BY <1>3, <3>1, <3>2, <3>3, <3>4, <3>6
            <3> QED BY <3>5, <3>6
      <2>2. CASE phase'[v] \notin Holding /\ phase[v] \in Holding
            BY <2>2 DEF Blind
      <2>3. CASE phase'[v] \notin Holding /\ phase[v] \notin Holding
            BY <1>2, <2>3 DEF Blind, L!Believers
      <2> QED BY <2>1, <2>2, <2>3
<1> QED BY <1>4 DEF Blind, L!Believers

\* A worker that lets go of its job is believed and blind no longer.
LEMMA ReleaseMaps ==
    ASSUME IInv, NEW w \in Workers, NEW j, held[w] = j, phase[w] \in Holding, Release(w, "idle")
    PROVE  /\ held' = [held EXCEPT ![w] = NoJob]
           /\ resetAt' = resetAt => Blind' = Blind \ {w}
           /\ claims' = claims => ClaimsEndOn(j)
           /\ {v \in Workers : phase[v] \in Holding /\ phase'[v] \notin Holding} = {w}
<1>1. /\ held' = [held EXCEPT ![w] = NoJob]
      /\ phase'[w] = "idle"
      /\ \A v \in Workers \ {w} : phase'[v] = phase[v] /\ held'[v] = held[v] /\ token'[v] = token[v]
      BY DEF Release, IInv, TypeOK
<1>2. phase'[w] \notin Holding
      BY <1>1 DEF Holding
<1>3. ASSUME resetAt' = resetAt
      PROVE  Blind' = Blind \ {w}
      BY <1>1, <1>2, <1>3 DEF Blind, Numbered
<1> QED BY <1>1, <1>2, <1>3 DEF ClaimsEndOn

\* Nothing the mapping looks at changes.
LEMMA Stutters ==
    ASSUME IInv, \A j \in Jobs : row'[j].state = row[j].state,
           \A v \in Workers : (phase'[v] \in Holding) = (phase[v] \in Holding),
           UNCHANGED <<held, token, claims, resetAt>>
    PROVE  UNCHANGED L!leaseVars
<1>1. Cell' = Cell
      BY DEF Cell, CellOf, IInv
<1>2. Holders' = Holders
      BY DEF Holders, HolderSet, Live, IInv, TypeOK
<1>3. Blind' = Blind
      BY DEF Blind, Numbered
<1> QED BY <1>1, <1>2, <1>3 DEF L!leaseVars, Cell, Holders, HolderSet, Blind
-----------------------------------------------------------------------------
(* Every step is a step of Lease. *)

\* The claim is a grant: the row was queued, so nobody held it, and the new claim's
\* number is above the last renumbering.
LEMMA ClaimGrants ==
    ASSUME IInv, NEW w \in Workers, FetchClaim(w)
    PROVE  \E j \in Jobs : L!Grant(w, j)
<1>1. PICK j \in seen[w] :
        /\ Fetchable(j)
        /\ row' = [row EXCEPT ![j] = ClaimedRow(row[j])]
        /\ phase' = [phase EXCEPT ![w] = IF GroupOf[j] = NoGroup THEN "running" ELSE "claimed"]
        /\ held' = [held EXCEPT ![w] = j]
        /\ token' = [token EXCEPT ![w] = claims[j] + 1]
        /\ claims' = [claims EXCEPT ![j] = claims[j] + 1]
        /\ resetAt' = resetAt
      BY DEF FetchClaim, LockedRowPasses
<1>2. /\ j \in Jobs /\ row[j] \in Row /\ row[j].state \in Queued
      /\ claims[j] \in Nat /\ resetAt[j] \in Nat /\ resetAt[j] <= claims[j]
      /\ held[w] = NoJob /\ phase[w] \notin Holding
      BY <1>1 DEF IInv, TypeOK, RetryAccounting, Fetchable, FetchClaim, Holding
<1>3. /\ phase'[w] \in Holding /\ held'[w] = j /\ token'[w] = claims[j] + 1
      /\ \A v \in Workers \ {w} : phase'[v] = phase[v] /\ held'[v] = held[v] /\ token'[v] = token[v]
      /\ \A k \in Jobs \ {j} : row'[k] = row[k] /\ claims'[k] = claims[k]
      /\ row'[j] = ClaimedRow(row[j]) /\ claims'[j] = claims[j] + 1
      BY <1>1, <1>2 DEF IInv, TypeOK, Holding
<1>4. row'[j].state = "active" /\ row'[j] \in Row
      <2>1. ClaimedRow(row[j]) \in Row
            BY <1>2, RowTypes
      <2>2. ClaimedRow(row[j]).state = "active"
            BY <1>2, ClaimedFields
      <2> QED BY <1>3, <2>1, <2>2
<1>5. Cell[j] = "open" /\ Cell' = [Cell EXCEPT ![j] = "leased"]
      <2>1. CellOf(row[j]) = "open" /\ CellOf(row'[j]) = "leased"
            BY <1>2, <1>4, Cells
      <2> QED BY <1>2, <1>3, <2>1 DEF Cell
<1>6. \A v \in Workers : phase[v] \in Holding => held[v] \in Jobs /\ token[v] <= claims[held[v]] /\ token[v] \in Nat
      BY DEF IInv, TypeOK, AttemptOrder
<1>7. Holders' = [Holders EXCEPT ![j] = {w}]
      <2>1. \A k \in Jobs \ {j} : HolderSet(k)' = HolderSet(k)
            BY <1>2, <1>3 DEF HolderSet, Live
      <2>2. HolderSet(j)' = {w}
            BY <1>2, <1>3, <1>4, <1>6 DEF HolderSet, Live
      <2> QED BY <2>1, <2>2 DEF Holders
<1>8. Blind' = Blind
      BY <1>1, <1>2, <1>3 DEF Blind, Numbered
<1>9. L!Grant(w, j)
      BY <1>1, <1>2, <1>5, <1>7, <1>8 DEF L!Grant, Cell, Holders, HolderSet, Blind
<1> QED BY <1>2, <1>9

\* The fence lets exactly the holder finish, or a blind worker.
LEMMA FenceFits ==
    ASSUME IInv, NEW w \in Workers, phase[w] \in Holding
    PROVE  /\ held[w] \in Jobs
           /\ Live(w) => FenceHolds(w)
           /\ FenceHolds(w) => Live(w) \/ (w \in Blind /\ row[held[w]].state = "active")
<1>1. held[w] \in Jobs
      BY DEF IInv, TypeOK
<1>2. /\ token[w] \in Nat /\ claims[held[w]] \in Nat /\ resetAt[held[w]] \in Nat /\ attempt[w] \in Nat
      /\ row[held[w]] \in Row
      BY <1>1 DEF IInv, TypeOK
<1>3. ASSUME Live(w)
      PROVE  FenceHolds(w)
      <2>1. row[held[w]].state = "active" /\ token[w] = claims[held[w]]
            BY <1>3 DEF Live
      <2>2. Numbered(w)
            BY <1>1, <2>1 DEF IInv, ActiveIsClaimed, Numbered
      <2>3. row[held[w]].state \in JobStates
            BY <2>1 DEF JobStates, Unsettled
      <2> QED BY <2>1, <2>2, <2>3 DEF IInv, AttemptOrder, FenceHolds
<1>4. ASSUME FenceHolds(w), w \notin Blind
      PROVE  Live(w)
      <2>1. Numbered(w)
            BY <1>4 DEF Blind
      <2>2. row[held[w]].state = "active" /\ row[held[w]].retryCount = attempt[w]
            BY <1>4 DEF FenceHolds
      <2>3. row[held[w]].state \in JobStates
            BY <2>2 DEF JobStates, Unsettled
      <2>4. token[w] <= claims[held[w]] /\ ~(token[w] < claims[held[w]])
            BY <1>2, <2>1, <2>2, <2>3 DEF IInv, AttemptOrder
      <2> QED BY <1>2, <2>2, <2>4 DEF Live
<1> QED BY <1>1, <1>3, <1>4 DEF FenceHolds

\* A settle is a finish: it ends the worker's own lease or changes nothing.
LEMMA SettleFinishes ==
    ASSUME IInv, NEW w \in Workers, NEW j, held[w] = j, phase[w] \in Holding,
           NEW rs \in SUBSET ({CompletedRow(row[j])} \cup FailOutcomes(j, FALSE) \cup FailOutcomes(j, TRUE)),
           SettleHeld(w, rs), claims' = claims, resetAt' = resetAt,
           \/ Release(w, "idle")
           \/ phase' = [phase EXCEPT ![w] = "overrun"] /\ UNCHANGED <<held, token>>
    PROVE  L!Finish(w)
<1>1. /\ j \in Jobs /\ j # NoJob
      /\ Live(w) => FenceHolds(w)
      /\ FenceHolds(w) => Live(w) \/ (w \in Blind /\ row[j].state = "active")
      BY FenceFits, ConstantsAssumption
<1>2. /\ ClaimsEndOn(j)
      /\ \/ held' = [held EXCEPT ![w] = NoJob] /\ Blind' = Blind \ {w}
         \/ held' = held /\ Blind' = Blind
      <2>1. CASE Release(w, "idle")
            BY <2>1, ReleaseMaps
      <2>2. CASE phase' = [phase EXCEPT ![w] = "overrun"] /\ UNCHANGED <<held, token>>
            <3>1. \A v \in Workers : phase'[v] \in Holding <=> phase[v] \in Holding
                  BY <2>2 DEF IInv, TypeOK, Holding
            <3> QED BY <2>2, <3>1 DEF ClaimsEndOn, Blind, Numbered
      <2> QED BY <2>1, <2>2
<1>3. L!LetGo(w)
      BY <1>2 DEF L!LetGo, Blind
<1>4. CASE FenceHolds(w)
      <2>1. PICK r \in rs : row' = [row EXCEPT ![j] = r]
            BY <1>4 DEF SettleHeld
      <2>2. r \in Row /\ r.state \in {"completed", "retry", "failed"}
            BY <1>1, SettledFields DEF IInv
      <2>3. L!Put(j, CellOf(r))
            <3>1. r.state # "active"
                  BY <2>2
            <3> QED BY <1>1, <1>2, <2>1, <3>1, PutMaps
      <2>4. CellOf(r) \in {"open", "closed"}
            BY <2>2, Cells DEF Queued
      <2>5. w \in HolderSet(j) \/ (w \in Blind /\ Cell[j] = "leased")
            <3>1. row[j] \in Row
                  BY <1>1 DEF IInv, TypeOK
            <3> QED BY <1>1, <1>4, <3>1, Cells DEF HolderSet, Cell
      <2>6. w \in Holders[j] \/ (w \in Blind /\ Cell[j] = "leased")
            BY <1>1, <2>5 DEF Holders
      <2> QED BY <1>1, <1>3, <2>3, <2>4, <2>6 DEF L!Finish, L!Put, Cell, Holders, HolderSet, Blind
<1>5. CASE ~FenceHolds(w)
      <2>1. row' = row /\ ~Live(w)
            BY <1>1, <1>5 DEF SettleHeld
      <2>2. Cell' = Cell
            BY <2>1 DEF Cell
      <2>3. Holders' = Holders
            <3>1. \A v \in Workers \ {w} : phase'[v] = phase[v] /\ held'[v] = held[v] /\ token'[v] = token[v]
                  BY DEF Release, IInv, TypeOK
            <3>2. ~Live(w)'
                  BY <1>2, <2>1 DEF Live, ClaimsEndOn
            <3>3. \A i \in Jobs : HolderSet(i)' = HolderSet(i)
                  BY <2>1, <3>1, <3>2 DEF HolderSet, Live
            <3> QED BY <3>3 DEF Holders
      <2>4. w \notin Holders[j]
            BY <1>1, <2>1 DEF Holders, HolderSet
      <2> QED BY <1>1, <1>3, <2>2, <2>3, <2>4 DEF L!Finish, Cell, Holders, HolderSet
<1> QED BY <1>4, <1>5

\* Each step of a worker.
LEMMA WorkerMaps ==
    ASSUME IInv, NEW w \in Workers, WorkerStep(w)
    PROVE  [L!LeaseNext]_(L!leaseVars)
<1>1. CASE FetchSnapshot(w) \/ FetchNothing(w) \/ CountGroup(w)
      <2>1. /\ UNCHANGED <<row, held, token, claims, resetAt>>
            /\ \A v \in Workers : (phase'[v] \in Holding) = (phase[v] \in Holding)
            BY <1>1 DEF FetchSnapshot, FetchNothing, CountGroup, ghostVars, IInv, TypeOK, Holding
      <2> QED BY <2>1, Stutters
<1>2. CASE FetchClaim(w)
      BY <1>2, ClaimGrants DEF L!LeaseNext
<1>3. CASE GiveBack(w)
      <2>0. PICK j \in Jobs : j = held[w]
            BY <1>3 DEF GiveBack, IInv, TypeOK, Holding
      <2>1. /\ j # NoJob /\ row[j] \in Row /\ phase[w] \in Holding
            /\ row' = [row EXCEPT ![j] = RestoredRow(row[j])]
            /\ resetAt' = [resetAt EXCEPT ![j] = claims[j]] /\ claims' = claims
            /\ Release(w, "idle")
            BY <1>3, <2>0, ConstantsAssumption DEF GiveBack, Restore, IInv, TypeOK, Holding
      <2>2. /\ held' = [held EXCEPT ![w] = NoJob] /\ ClaimsEndOn(j)
            /\ {v \in Workers : phase[v] \in Holding /\ phase'[v] \notin Holding} = {w}
            BY <2>0, <2>1, ReleaseMaps
      <2>3. Blind' = (Blind \cup L!Believers(j)) \ {w}
            BY <2>1, <2>2, RenumberingBlinds
      <2>4. PICK r : r = RestoredRow(row[j])
            OBVIOUS
      <2>5. r \in Row /\ r.state # "active" /\ row' = [row EXCEPT ![j] = r]
            BY <2>1, <2>4, RowTypes, RestoredFields
      <2>6. CellOf(r) = IF Cell[j] = "none" THEN "none" ELSE "open"
            <3>1. CASE row[j].state = "absent"
                  BY <2>1, <2>4, <3>1, RestoredFields, Cells DEF Cell
            <3>2. CASE row[j].state # "absent"
                  <4>1. r.state \in Queued
                        BY <2>1, <2>4, <3>2, RestoredFields DEF Queued
                  <4> QED BY <2>1, <2>5, <3>2, <4>1, Cells DEF Cell
            <3> QED BY <3>1, <3>2
      <2>7. L!Put(j, CellOf(r))
            BY <2>2, <2>5, PutMaps
      <2>8. L!HandBack(w)
            BY <2>0, <2>1, <2>2, <2>3, <2>6, <2>7 DEF L!HandBack, L!Put, L!Believers, Cell, Blind
      <2> QED BY <2>8 DEF L!LeaseNext
<1>4. CASE HandlerCompletes(w) \/ HandlerFails(w) \/ HandlerDeadLetters(w) \/ HandlerTimesOut(w)
      <2>1. phase[w] \in Holding /\ claims' = claims /\ resetAt' = resetAt
            BY <1>4 DEF HandlerCompletes, HandlerFails, HandlerDeadLetters, HandlerTimesOut, ghostVars, Holding
      <2>2. \/ Release(w, "idle")
            \/ phase' = [phase EXCEPT ![w] = "overrun"] /\ UNCHANGED <<held, token>>
            BY <1>4 DEF HandlerCompletes, HandlerFails, HandlerDeadLetters, HandlerTimesOut
      <2>0. PICK j \in Jobs : j = held[w]
            BY <2>1 DEF IInv, TypeOK
      <2>3. PICK rs \in SUBSET ({CompletedRow(row[j])} \cup FailOutcomes(j, FALSE) \cup FailOutcomes(j, TRUE)) :
                SettleHeld(w, rs)
            BY <1>4, <2>0 DEF HandlerCompletes, HandlerFails, HandlerDeadLetters, HandlerTimesOut
      <2>4. L!Finish(w)
            BY <2>0, <2>1, <2>2, <2>3, SettleFinishes
      <2> QED BY <2>4 DEF L!LeaseNext
<1>5. CASE OverrunReturns(w) \/ Crash(w)
      <2>1. /\ phase[w] \in Holding /\ UNCHANGED <<row, claims, resetAt>> /\ Release(w, "idle")
            /\ held[w] \in Jobs /\ held[w] # NoJob
            BY <1>5, ConstantsAssumption DEF OverrunReturns, Crash, ghostVars, Holding, IInv, TypeOK
      <2>2. held' = [held EXCEPT ![w] = NoJob] /\ Blind' = Blind \ {w}
            BY <2>1, ReleaseMaps
      <2>3. Cell' = Cell
            BY <2>1 DEF Cell
      <2>4. Holders' = [Holders EXCEPT ![held[w]] = @ \ {w}]
            <3>1. phase'[w] \notin Holding
                  BY <2>1 DEF Release, IInv, TypeOK, Holding
            <3>2. \A v \in Workers \ {w} : phase'[v] = phase[v] /\ held'[v] = held[v] /\ token'[v] = token[v]
                  BY <2>1 DEF Release, IInv, TypeOK
            <3>3. \A j \in Jobs : HolderSet(j)' = HolderSet(j) \ {w}
                  BY <2>1, <3>1, <3>2 DEF HolderSet, Live
            <3>4. \A j \in Jobs \ {held[w]} : w \notin HolderSet(j)
                  BY DEF HolderSet
            <3>5. \A j \in Jobs : HolderSet(j)' = IF j = held[w] THEN HolderSet(j) \ {w} ELSE HolderSet(j)
                  BY <3>3, <3>4
            <3> QED BY <2>1, <3>5 DEF Holders
      <2>5. L!Vanish(w)
            BY <2>1, <2>2, <2>3, <2>4 DEF L!Vanish, Cell, Holders, HolderSet, Blind
      <2> QED BY <2>5 DEF L!LeaseNext
<1> QED BY <1>1, <1>2, <1>3, <1>4, <1>5 DEF WorkerStep

\* Each step of a producer, the clock, the supervisor or an operator.
LEMMA TableMaps ==
    ASSUME IInv, NEW j \in Jobs, RowStep(j)
    PROVE  [L!LeaseNext]_(L!leaseVars)
<1>1. row[j] \in Row
      BY DEF IInv, TypeOK
<1>2. UNCHANGED workerVars /\ claims' = claims /\ ClaimsEndOn(j)
      BY DEF RowStep, Send, StartAfterPasses, Expire, Sweep, CancelJob, ResumeJob, RetryJob, FailJob,
             CompleteJob, DeleteJob, RestoreJob, Restore, Update, ghostVars, ClaimsEndOn, workerVars
<1>3. ASSUME NEW r \in Row, row' = [row EXCEPT ![j] = r], r.state # "active", resetAt' = resetAt,
             row[j].state # "absent"
      PROVE  L!Withdraw(j)
      <2>1. L!Put(j, CellOf(r))
            BY <1>2, <1>3, PutMaps
      <2>2. CellOf(r) \in {"none", "open", "closed"} /\ CellOf(row[j]) # "none"
            <3>1. CellOf(row[j]) # "none"
                  BY <1>1, <1>3, Cells
            <3>2. r.state \in {"absent", "completed", "cancelled", "failed"} \cup Queued
                  BY <1>3 DEF Row, JobStates, Unsettled
            <3>3. CellOf(r) \in {"none", "open", "closed"}
                  BY <3>2, Cells
            <3> QED BY <3>1, <3>3
      <2>3. held' = held /\ Blind' = Blind
            BY <1>2, <1>3 DEF workerVars, Blind, Numbered
      <2> QED BY <2>1, <2>2, <2>3 DEF L!Withdraw, Blind
<1>4. ASSUME NEW r \in Row, row' = [row EXCEPT ![j] = r], r.state = "created",
             resetAt' = [resetAt EXCEPT ![j] = claims[j]]
      PROVE  L!Offer(j) \/ L!Reset(j)
      <2>1. L!Put(j, CellOf(r))
            BY <1>2, <1>4, PutMaps
      <2>2. CellOf(r) = "open"
            BY <1>4, Cells DEF Queued
      <2>3. Blind' = Blind \cup L!Believers(j)
            <3>1. {v \in Workers : phase[v] \in Holding /\ phase'[v] \notin Holding} = {}
                  BY <1>2 DEF workerVars
            <3>2. Blind' = (Blind \cup L!Believers(j)) \ {}
                  BY <1>2, <1>4, <3>1, RenumberingBlinds
            <3> QED BY <3>2
      <2>4. held' = held
            BY <1>2 DEF workerVars
      <2> QED BY <2>1, <2>2, <2>3, <2>4 DEF L!Offer, L!Reset, Blind
<1>5. CASE StartAfterPasses(j)
      <2>1. \A k \in Jobs : row'[k].state = row[k].state
            BY <1>1, <1>5 DEF StartAfterPasses, IInv, TypeOK, Row
      <2> QED BY <1>2, <1>5, <2>1, Stutters DEF StartAfterPasses, ghostVars, workerVars
<1>6. CASE Send(j)
      <2>1. PICK d \in BOOLEAN : row' = [row EXCEPT ![j] = NewRow(d)]
            BY <1>6 DEF Send
      <2>2. NewRow(d) \in Row /\ NewRow(d).state = "created" /\ resetAt' = [resetAt EXCEPT ![j] = claims[j]]
            BY <1>1, <1>6, RowTypes DEF Send, NewRow
      <2> QED BY <1>4, <2>1, <2>2 DEF L!LeaseNext
<1>7. CASE RestoreJob(j)
      <2>1. RestoredRow(row[j]).state = "created"
            BY <1>1, <1>7, RestoredFields DEF RestoreJob, JobStates, Unsettled, Queued
      <2>2. RestoredRow(row[j]) \in Row
            BY <1>1, RowTypes
      <2> QED BY <1>4, <1>7, <2>1, <2>2 DEF RestoreJob, Restore, L!LeaseNext
<1>8. CASE Sweep(j) \/ DeleteJob(j)
      <2>1. row' = [row EXCEPT ![j] = NoRow] /\ NoRow.state = "absent" /\ resetAt' = resetAt
            BY <1>8 DEF Sweep, DeleteJob, Update, NoRow, ghostVars
      <2>2. NoRow \in Row
            BY <1>1, RowTypes
      <2>3. CASE row[j].state # "absent"
            BY <1>3, <2>1, <2>2, <2>3 DEF L!LeaseNext
      <2>4. CASE row[j].state = "absent"
            <3>1. \A k \in Jobs : row'[k].state = row[k].state
                  BY <2>1, <2>4 DEF IInv, TypeOK
            <3> QED BY <1>2, <2>1, <3>1, Stutters DEF workerVars
      <2> QED BY <2>3, <2>4
<1>9. CASE Expire(j) \/ FailJob(j) \/ CompleteJob(j)
      <2>1. PICK r \in {CompletedRow(row[j])} \cup FailOutcomes(j, FALSE) : row' = [row EXCEPT ![j] = r]
            BY <1>9 DEF Expire, FailJob, CompleteJob, Update
      <2>2. r \in Row /\ r.state \in {"completed", "retry", "failed"}
            BY <2>1, SettledFields DEF IInv
      <2>3. resetAt' = resetAt /\ row[j].state # "absent"
            BY <1>9 DEF Expire, FailJob, CompleteJob, ghostVars, Unsettled, Queued
      <2>4. r.state # "active"
            BY <2>2
      <2> QED BY <1>3, <2>1, <2>2, <2>3, <2>4 DEF L!LeaseNext
<1>10. CASE CancelJob(j) \/ ResumeJob(j) \/ RetryJob(j)
      <2>1. row' = [row EXCEPT ![j] = row'[j]] /\ row'[j] \in Row
            <3>1. TypeOK'
                  BY TableTypeOK DEF IInv
            <3> QED BY <1>10, <3>1 DEF CancelJob, ResumeJob, RetryJob, Update, IInv, TypeOK
      <2>2. row'[j].state # "active"
            <3>1. CASE CancelJob(j)
                  BY <1>1, <3>1 DEF CancelJob, Update, IInv, TypeOK, Row
            <3>2. CASE ResumeJob(j)
                  BY <1>1, <3>2 DEF ResumeJob, Update, IInv, TypeOK, Row
            <3>3. CASE RetryJob(j)
                  BY <1>1, <3>3 DEF RetryJob, Update, IInv, TypeOK, Row
            <3> QED BY <1>10, <3>1, <3>2, <3>3
      <2>3. resetAt' = resetAt /\ row[j].state # "absent"
            BY <1>10 DEF CancelJob, ResumeJob, RetryJob, ghostVars, Unsettled, Queued
      <2> QED BY <1>3, <2>1, <2>2, <2>3 DEF L!LeaseNext
<1> QED BY <1>5, <1>6, <1>7, <1>8, <1>9, <1>10 DEF RowStep

\* JobClaims implements Lease: in every behaviour of fetches, fences, settles,
\* expiries and operator calls, a job has at most one holder, and a worker that
\* finishes ends its own lease or, when it is blind, that of another.
THEOREM LeaseTheorem == Spec => ImplementsLease
<1>1. Init => L!LeaseInit
      <2> SUFFICES ASSUME Init PROVE L!LeaseInit
            OBVIOUS
      <2>1. Cell = [j \in Jobs |-> "none"]
            <3>1. NoRow \in Row /\ NoRow.state = "absent"
                  BY ConstantsAssumption DEF NoRow, Row, JobStates, Unsettled, Queued
            <3>2. CellOf(NoRow) = "none"
                  BY <3>1, Cells
            <3> QED BY <3>2 DEF Init, Cell
      <2>2. Holders = [j \in Jobs |-> {}]
            BY DEF Init, Holders, HolderSet, Live, Holding
      <2>3. Blind = {}
            BY DEF Init, Blind, Holding
      <2>4. held = [w \in Workers |-> NoJob]
            BY DEF Init
      <2> QED BY <2>1, <2>2, <2>3, <2>4 DEF L!LeaseInit, Cell, Holders, HolderSet, Blind
<1>2. IInv /\ [Next]_vars => [L!LeaseNext]_(L!leaseVars)
      <2>1. ASSUME IInv, UNCHANGED vars
            PROVE  UNCHANGED L!leaseVars
            BY <2>1, Stutters DEF vars, workerVars, ghostVars
      <2> QED BY <2>1, WorkerMaps, TableMaps DEF Next
<1> QED BY <1>1, <1>2, IInvInvariant, PTL DEF Spec, ImplementsLease, L!LeaseSpec
================================================================================
