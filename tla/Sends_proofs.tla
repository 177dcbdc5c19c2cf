------------------------------- MODULE Sends_proofs -------------------------------
(* Proofs about Sends, for any number of callers and jobs, any requests and every *)
(* policy: what an edit may touch, and when a waiting job may be swept.           *)
EXTENDS MCSends, FiniteSetTheorems, WellFoundedInduction, TLAPS

-----------------------------------------------------------------------------
(* The inductive invariant *)

\* keep_until is the queue's retention after what start_after would be without the
\* retries, of every row there is.
Kept(row) == row.state # "none" => row.keep + row.putOff = row.start + Retention

\* What a transaction has written and not committed: the rows it edited wait and are
\* locked, and the row it inserted is in nobody's way.
Pending(call) ==
    /\ call.edits # {} \/ call.ins.state # "none" => call.pc = "commit"
    /\ \A j \in call.edits : Waiting(j)
    /\ call.ins.state # "none" =>
          call.ins.state = "created" /\ Kept(call.ins) /\ jobs[call.id].state \in {"none", "swept"}

PendingApart ==
    \A c, d \in Callers : c # d /\ calls[c].ins.state # "none" /\ calls[d].ins.state # "none"
                             => calls[c].id # calls[d].id

IInv ==
    /\ TypeOK
    /\ \A j \in Ids : Kept(jobs[j])
    /\ \A c \in Callers : Pending(calls[c])
    /\ PendingApart

-----------------------------------------------------------------------------
(* Types *)

\* The parts of records.
LEMMA RowTypes ==
    /\ \A r \in Rows : r.start \in Int /\ r.keep \in Int /\ r.slot \in Int /\ r.putOff \in Int
    /\ NoRow \in Rows /\ NoRow.state = "none"
    /\ Idle \in CallRecords /\ Idle.edits = {} /\ Idle.ins = NoRow
<1>1. NoRow \in Rows /\ NoRow.state = "none"
      BY DEF NoRow, Row, Rows, NoSlot
<1>2. Request("none", "key", "newest", -1) \in
          [kind : Kinds \union {"none"}, by : {"key", "id"}, match : {"oldest", "newest", "all"}, start : Int]
      BY DEF Request, Kinds
<1>3. 0 \in Ids /\ 1 \in 1 .. UpsertAttempts /\ NoSlot \in Int
      BY SendsAssumption DEF Ids, UpsertAttempts, NoSlot
<1>4. Idle \in CallRecords /\ Idle.edits = {} /\ Idle.ins = NoRow
      BY <1>1, <1>2, <1>3 DEF Idle, CallRecords
<1> QED BY <1>1, <1>4 DEF Rows

\* The slot of an instant is an instant.
LEMMA SlotType == ASSUME NEW t \in Int PROVE SlotAt(t) \in Int
<1>1. t \div SingletonSeconds \in Int
      BY SendsAssumption
<1> QED BY <1>1, SendsAssumption DEF SlotAt

\* The row a call inserts waits, and is kept for the retention from its start.
LEMMA NewRowIsKept ==
    ASSUME TypeOK, NEW c \in Callers
    PROVE  NewRow(c) \in Rows /\ NewRow(c).state = "created" /\ Kept(NewRow(c))
<1>1. calls[c] \in CallRecords /\ now \in Int
      BY SendsAssumption DEF TypeOK
<1>2. PICK s : s = StartOf(calls[c])
      OBVIOUS
<1>3. s \in Int /\ s + Retention \in Int
      BY <1>1, <1>2, SendsAssumption DEF StartOf, CallRecords
<1>4. PICK sl : sl = IF calls[c].req.kind \in {"throttle", "debounce"}
                     THEN SlotAt(IF calls[c].second THEN now + SingletonSeconds ELSE now) ELSE NoSlot
      OBVIOUS
<1>5. sl \in Int
      <2>1. now + SingletonSeconds \in Int
            BY <1>1, SendsAssumption
      <2>2. SlotAt(now) \in Int /\ SlotAt(now + SingletonSeconds) \in Int /\ NoSlot \in Int
            BY <1>1, <2>1, SlotType DEF NoSlot
      <2> QED BY <1>4, <2>2
<1>6. (calls[c].req.by = "key") \in BOOLEAN /\ Mark(calls[c].req) \in BOOLEAN
      BY DEF Mark
<1>7. PICK k \in BOOLEAN, b \in BOOLEAN : k = (calls[c].req.by = "key") /\ b = Mark(calls[c].req)
      BY <1>6
<1>8. PICK cr : cr = IF calls[c].req.kind = "upsert" THEN calls[c].began ELSE now
      OBVIOUS
<1>9. cr \in Int
      BY <1>1, <1>8 DEF CallRecords
<1>10. NewRow(c) = Row("created", k, b, sl, s, s + Retention, c, cr)
      BY <1>2, <1>4, <1>7, <1>8 DEF NewRow
<1>11. PICK r : r = Row("created", k, b, sl, s, s + Retention, c, cr)
      OBVIOUS
<1>12. r \in Rows /\ r.state = "created" /\ r.start = s /\ r.keep = s + Retention /\ r.putOff = 0
      BY <1>3, <1>5, <1>9, <1>11 DEF Row, Rows
<1>13. r.keep + r.putOff = r.start + Retention
      BY <1>3, <1>12
<1> QED BY <1>10, <1>11, <1>12, <1>13 DEF Kept

\* A set of ids has a smallest one.
LEMMA SmallestOf ==
    ASSUME NEW S \in SUBSET Ids, S # {}
    PROVE  Min(S) \in S
<1>1. S \subseteq Nat /\ S # {}
      BY SendsAssumption DEF Ids
<1>2. \E x \in S : \A y \in S : <<y, x>> \notin OpToRel(<, Nat)
      BY <1>1, NatLessThanWellFounded, WFMin
<1>3. PICK x \in S : \A y \in S : <<y, x>> \notin OpToRel(<, Nat)
      BY <1>2
<1>4. ASSUME NEW y \in S, y < x
      PROVE  FALSE
      <2>1. <<y, x>> \in OpToRel(<, Nat)
            BY <1>1, <1>3, <1>4 DEF OpToRel
      <2> QED BY <1>3, <2>1
<1>5. \A y \in S : x =< y
      BY <1>1, <1>4
<1> QED BY <1>3, <1>5 DEF Min

\* An id is taken from the free ones.
LEMMA FreshIds == FreshId # {} => Min(FreshId) \in FreshId
BY SmallestOf DEF FreshId

-----------------------------------------------------------------------------
(* Frames *)

\* Before it commits a call has written nothing.
LEMMA OnlyCommitHolds ==
    ASSUME IInv, NEW c \in Callers, calls[c].pc # "commit"
    PROVE  calls[c].edits = {} /\ calls[c].ins.state = "none"
BY DEF IInv, Pending

\* A call that is over, or whose transaction is gone, holds nothing.
LEMMA OverTypes ==
    ASSUME NEW call \in CallRecords, NEW pc \in {"done", "failed"}
    PROVE  /\ Over(call, pc) \in CallRecords /\ Over(call, pc).edits = {} /\ Over(call, pc).ins.state = "none"
           /\ Abandoned(call) \in CallRecords /\ Abandoned(call).edits = {} /\ Abandoned(call).ins.state = "none"
<1>1. 0 \in Ids
      BY SendsAssumption DEF Ids
<1>2. Idle \in CallRecords /\ Idle.edits = {} /\ Idle.ins = NoRow /\ NoRow \in Rows /\ NoRow.state = "none"
      BY RowTypes
<1>3. [call.req EXCEPT !.start = -1, !.match = "newest"] \in
          [kind : Kinds \union {"none"}, by : {"key", "id"}, match : {"oldest", "newest", "all"}, start : Int]
      <2>1. PICK q \in [kind : Kinds \union {"none"}, by : {"key", "id"}, match : {"oldest", "newest", "all"},
                        start : Int] : q = call.req
            BY DEF CallRecords
      <2>2. -1 \in Int
            OBVIOUS
      <2> QED BY <2>1, <2>2
<1>4. Over(call, pc) \in CallRecords /\ Over(call, pc).edits = {} /\ Over(call, pc).ins.state = "none"
      BY <1>2, <1>3 DEF Over, CallRecords
<1>5. Abandoned(call) \in CallRecords /\ Abandoned(call).edits = {} /\ Abandoned(call).ins.state = "none"
      BY <1>1, <1>2 DEF Abandoned, CallRecords
<1> QED BY <1>4, <1>5

\* What a call has pending stays sound when its rows are left alone.
LEMMA PendingStays ==
    ASSUME IInv, NEW d \in Callers,
           calls'[d].edits = calls[d].edits, calls'[d].ins = calls[d].ins, calls'[d].id = calls[d].id,
           calls'[d].pc = calls[d].pc, calls'[d].req = calls[d].req,
           \A j \in calls[d].edits : Waiting(j)',
           calls[d].ins.state # "none" => jobs'[calls[d].id].state \in {"none", "swept"}
    PROVE  Pending(calls[d])'
BY DEF IInv, Pending

\* One call moves and holds nothing after; the table changes only where nobody holds.
LEMMA EmptyHanded ==
    ASSUME IInv, NEW c \in Callers, TypeOK',
           \A d \in Callers \ {c} : calls'[d] = calls[d],
           calls'[c].edits = {}, calls'[c].ins.state = "none",
           \A j \in Ids : Kept(jobs'[j]),
           \A d \in Callers \ {c} : \A j \in calls[d].edits : Waiting(j)',
           \A d \in Callers \ {c} : calls[d].ins.state # "none" => jobs'[calls[d].id].state \in {"none", "swept"}
    PROVE  IInv'
<1>1. Pending(calls[c])'
      BY DEF Pending
<1>2. \A d \in Callers \ {c} : Pending(calls[d])'
      BY PendingStays
<1>3. PendingApart'
      BY DEF IInv, PendingApart
<1> QED BY <1>1, <1>2, <1>3 DEF IInv

\* The same when the table does not change.
LEMMA EmptyHandedQuiet ==
    ASSUME IInv, NEW c \in Callers, TypeOK', jobs' = jobs,
           \A d \in Callers \ {c} : calls'[d] = calls[d],
           calls'[c].edits = {}, calls'[c].ins.state = "none"
    PROVE  IInv'
<1>1. \A d \in Callers \ {c} : \A j \in calls[d].edits : Waiting(j)'
      BY DEF IInv, Pending, Waiting
<1>2. \A d \in Callers \ {c} : calls[d].ins.state # "none" => jobs'[calls[d].id].state \in {"none", "swept"}
      BY DEF IInv, Pending
<1>3. \A j \in Ids : Kept(jobs'[j])
      BY DEF IInv
<1> QED BY <1>1, <1>2, <1>3, EmptyHanded

\* Put replaces one call.
LEMMA PutOne ==
    ASSUME TypeOK, NEW c \in Callers, NEW r \in CallRecords, Put(c, r)
    PROVE  /\ calls' \in [Callers -> CallRecords] /\ calls'[c] = r
           /\ \A d \in Callers \ {c} : calls'[d] = calls[d]
BY DEF TypeOK, Put

\* What EditsSafe asks of one step.
EditsStep ==
    \A j \in Ids :
        /\ jobs[j].state \in {"active", "completed"} =>
              /\ jobs'[j].data = jobs[j].data /\ jobs'[j].keep = jobs[j].keep
              /\ jobs'[j].start = jobs[j].start \/ (jobs[j].state = "active" /\ jobs'[j].state = "retry")
        /\ Waiting(j) /\ jobs'[j].state = "swept" => now > jobs[j].start - jobs[j].putOff + Retention

\* A step that leaves the table alone asks nothing.
LEMMA QuietEdits == jobs' = jobs => EditsStep
BY DEF EditsStep, Waiting

-----------------------------------------------------------------------------
(* The calls *)

\* A call begins.
LEMMA BeginStep ==
    ASSUME IInv, NEW c \in Callers, NEW r \in Requests, Begin(c, r)
    PROVE  IInv' /\ EditsStep
<1>1. TypeOK /\ calls[c] \in CallRecords /\ now \in Int
      BY SendsAssumption DEF IInv, TypeOK
<1>2. PICK n : n = [calls[c] EXCEPT !.pc = IF r.kind \in {"update", "upsert"} THEN "select" ELSE "insert",
                                    !.req = r, !.began = now]
      OBVIOUS
<1>3. r \in [kind : Kinds \union {"none"}, by : {"key", "id"}, match : {"oldest", "newest", "all"}, start : Int]
      BY SendsAssumption
<1>4. n \in CallRecords /\ n.edits = calls[c].edits /\ n.ins = calls[c].ins
      BY <1>1, <1>2, <1>3 DEF CallRecords
<1>5. Put(c, n) /\ calls[c].pc = "idle" /\ UNCHANGED <<policy, serializable, now, jobs, faults>>
      BY <1>2 DEF Begin
<1>6. TypeOK'
      BY <1>1, <1>4, <1>5, PutOne DEF TypeOK
<1> QED BY <1>1, <1>4, <1>5, <1>6, PutOne, OnlyCommitHolds, EmptyHandedQuiet, QuietEdits

\* The delay of a debounce, and the choice of an edit's targets.
LEMMA ChooseStep ==
    ASSUME IInv, NEW c \in Callers, Select(c) \/ \E e \in ClockErrors : Debounce(c, e)
    PROVE  IInv' /\ EditsStep
<1>1. TypeOK /\ calls[c] \in CallRecords /\ now \in Int
      BY SendsAssumption DEF IInv, TypeOK
<1>2. PICK n \in CallRecords : Put(c, n) /\ n.edits = calls[c].edits /\ n.ins = calls[c].ins
      <2>1. CASE Select(c)
            <3>1. PICK T \in Targets(calls[c].req) : Put(c, [calls[c] EXCEPT !.pc = "apply", !.target = T])
                  BY <2>1 DEF Select
            <3>2. T \subseteq Ids
                  BY <3>1 DEF Targets, Matches
            <3>3. PICK n : n = [calls[c] EXCEPT !.pc = "apply", !.target = T]
                  OBVIOUS
            <3>4. n \in CallRecords /\ n.edits = calls[c].edits /\ n.ins = calls[c].ins
                  BY <1>1, <3>2, <3>3 DEF CallRecords
            <3> QED BY <3>1, <3>3, <3>4
      <2>2. ASSUME NEW e \in ClockErrors, Debounce(c, e)
            PROVE  \E n \in CallRecords : Put(c, n) /\ n.edits = calls[c].edits /\ n.ins = calls[c].ins
            <3>1. now + e \in Int
                  BY <1>1, SendsAssumption
            <3>2. SlotAt(now + e) \in Int
                  BY <3>1, SlotType
            <3>3. PICK a : a = DebounceStartAfter(now + e)
                  OBVIOUS
            <3>4. a \in Int
                  BY <3>1, <3>2, <3>3, SendsAssumption DEF DebounceStartAfter
            <3>8. PICK b \in BOOLEAN : b = (SlotAt(now + e) >= calls[c].refused /\ e <= 1)
                  OBVIOUS
            <3>5. Put(c, [calls[c] EXCEPT !.pc = "insert", !.second = TRUE, !.after = a, !.timely = b])
                  BY <2>2, <3>3, <3>8 DEF Debounce
            <3>6. PICK n : n = [calls[c] EXCEPT !.pc = "insert", !.second = TRUE, !.after = a, !.timely = b]
                  OBVIOUS
            <3>7. n \in CallRecords /\ n.edits = calls[c].edits /\ n.ins = calls[c].ins
                  BY <1>1, <3>4, <3>6 DEF CallRecords
            <3> QED BY <3>5, <3>6, <3>7
      <2> QED BY <2>1, <2>2
<1>3. calls[c].pc # "commit" /\ UNCHANGED <<policy, serializable, now, jobs, faults>>
      BY DEF Select, Debounce
<1>4. TypeOK'
      BY <1>1, <1>2, <1>3, PutOne DEF TypeOK
<1> QED BY <1>1, <1>2, <1>3, <1>4, PutOne, OnlyCommitHolds, EmptyHandedQuiet, QuietEdits

\* Rows that go in under fresh ids are in nobody's way.
LEMMA FreshKeeps ==
    ASSUME IInv, NEW c \in Callers, NEW F \in SUBSET FreshId, NEW row \in Rows,
           row.state = "created", Kept(row), calls' \in [Callers -> CallRecords],
           jobs' = [j \in Ids |-> IF j \in F THEN row ELSE jobs[j]],
           UNCHANGED <<policy, serializable, now, faults>>,
           \A d \in Callers \ {c} : calls'[d] = calls[d],
           calls'[c].edits = {}, calls'[c].ins.state = "none"
    PROVE  IInv' /\ EditsStep
<1>1. TypeOK
      BY DEF IInv
<1>2. \A j \in F : j \in Ids /\ jobs[j].state = "none"
                   /\ \A d \in Callers : calls[d].ins.state = "none" \/ calls[d].id # j
      BY DEF FreshId
<1>3. TypeOK'
      BY <1>1 DEF TypeOK
<1>4. \A j \in Ids : Kept(jobs'[j])
      BY DEF IInv
<1>5. ASSUME NEW d \in Callers \ {c}
      PROVE  /\ \A j \in calls[d].edits : Waiting(j)'
             /\ calls[d].ins.state # "none" => jobs'[calls[d].id].state \in {"none", "swept"}
      <2>1. calls[d] \in CallRecords
            BY <1>1 DEF TypeOK
      <2>2. calls[d].id \in Ids /\ calls[d].edits \subseteq Ids
            BY <2>1 DEF CallRecords
      <2>3. Pending(calls[d])
            BY DEF IInv
      <2>4. \A j \in calls[d].edits : Waiting(j)'
            BY <1>2, <2>2, <2>3 DEF Pending, Waiting
      <2>5. calls[d].ins.state # "none" => jobs'[calls[d].id].state \in {"none", "swept"}
            BY <1>2, <2>2, <2>3 DEF Pending
      <2> QED BY <2>4, <2>5
<1>6. EditsStep
      BY <1>2 DEF EditsStep, Waiting
<1> QED BY <1>3, <1>4, <1>5, <1>6, EmptyHanded

\* send(), throttled or debounced: the row goes in, or the slot is refused.
LEMMA SendStep ==
    ASSUME IInv, NEW c \in Callers, SendInsert(c)
    PROVE  IInv' /\ EditsStep
<1>1. TypeOK /\ calls[c] \in CallRecords /\ now \in Int
      BY SendsAssumption DEF IInv, TypeOK
<1>2. calls[c].pc = "insert" /\ FreshId # {} /\ UNCHANGED <<policy, serializable, now, faults>>
      BY DEF SendInsert
<1>3. calls[c].edits = {} /\ calls[c].ins.state = "none"
      BY <1>2, OnlyCommitHolds
<1>4. PICK row : row = NewRow(c)
      OBVIOUS
<1>5. row \in Rows /\ row.state = "created" /\ Kept(row)
      BY <1>1, <1>4, NewRowIsKept
<1>6. PICK f \in FreshId : f = Min(FreshId)
      BY <1>2, FreshIds
<1>7. CASE /\ jobs' = [jobs EXCEPT ![f] = row]
           /\ Put(c, Over([calls[c] EXCEPT !.answer = {f}], "done"))
      <2>1. [calls[c] EXCEPT !.answer = {f}] \in CallRecords
            BY <1>1 DEF CallRecords, FreshId
      <2>2. PICK n : n = Over([calls[c] EXCEPT !.answer = {f}], "done")
            OBVIOUS
      <2>3. n \in CallRecords /\ n.edits = {} /\ n.ins.state = "none"
            BY <2>1, <2>2, OverTypes
      <2>4. jobs' = [j \in Ids |-> IF j \in {f} THEN row ELSE jobs[j]]
            BY <1>1, <1>7 DEF TypeOK
      <2>5. /\ calls' \in [Callers -> CallRecords] /\ calls'[c] = n
            /\ \A d \in Callers \ {c} : calls'[d] = calls[d]
            BY <1>1, <1>7, <2>2, <2>3, PutOne
      <2> QED BY <1>2, <1>5, <2>3, <2>4, <2>5, FreshKeeps
<1>8. CASE /\ UNCHANGED jobs
           /\ Put(c, IF calls[c].req.kind = "debounce" /\ ~calls[c].second
                     THEN [calls[c] EXCEPT !.pc = "debounce", !.refused = SlotAt(now)]
                     ELSE Over(calls[c], "done"))
      <2>1. PICK n : n = IF calls[c].req.kind = "debounce" /\ ~calls[c].second
                     THEN [calls[c] EXCEPT !.pc = "debounce", !.refused = SlotAt(now)]
                     ELSE Over(calls[c], "done")
            OBVIOUS
      <2>2. SlotAt(now) \in Int
            BY <1>1, SlotType
      <2>3. n \in CallRecords /\ n.edits = {} /\ n.ins.state = "none"
            <3>1. CASE n = [calls[c] EXCEPT !.pc = "debounce", !.refused = SlotAt(now)]
                  BY <1>1, <1>3, <2>2, <3>1 DEF CallRecords
            <3>2. CASE n = Over(calls[c], "done")
                  BY <1>1, <3>2, OverTypes
            <3> QED BY <2>1, <3>1, <3>2
      <2>4. /\ calls' \in [Callers -> CallRecords] /\ calls'[c] = n
            /\ \A d \in Callers \ {c} : calls'[d] = calls[d]
            BY <1>1, <1>8, <2>1, <2>3, PutOne
      <2>5. TypeOK'
            BY <1>1, <1>2, <1>8, <2>4 DEF TypeOK
      <2> QED BY <1>8, <2>3, <2>4, <2>5, EmptyHandedQuiet, QuietEdits
<1> QED BY <1>4, <1>6, <1>7, <1>8 DEF SendInsert

\* The ids of a batch are fresh.
LEMMA BatchIds ==
    ASSUME NEW c \in Callers, InsertBatch(c)
    PROVE  \E F \in SUBSET FreshId :
               /\ jobs' = [j \in Ids |-> IF j \in F THEN NewRow(c) ELSE jobs[j]]
               /\ Put(c, Over([calls[c] EXCEPT !.answer = F], "done"))
<1>1. Min(FreshId) \in FreshId
      BY FreshIds DEF InsertBatch
<1>2. CASE Meets(NewRow(c), Min(FreshId))
      BY <1>2 DEF InsertBatch
<1>3. CASE Cardinality(FreshId) >= 2
      <2>1. FreshId \ {Min(FreshId)} # {}
            <3>1. Cardinality({Min(FreshId)}) = 1
                  BY FS_Singleton
            <3>2. FreshId # {Min(FreshId)}
                  BY <1>3, <3>1
            <3> QED BY <1>1, <3>2
      <2>2. Min(FreshId \ {Min(FreshId)}) \in FreshId
            BY <2>1, SmallestOf DEF FreshId
      <2> QED BY <1>1, <2>2 DEF InsertBatch
<1> QED BY <1>2, <1>3 DEF InsertBatch

\* insert(): the rows of the batch that nothing refused.
LEMMA BatchStep ==
    ASSUME IInv, NEW c \in Callers, InsertBatch(c)
    PROVE  IInv' /\ EditsStep
<1>1. TypeOK /\ calls[c] \in CallRecords
      BY DEF IInv, TypeOK
<1>2. calls[c].pc = "insert" /\ UNCHANGED <<policy, serializable, now, faults>>
      BY DEF InsertBatch
<1>3. PICK row : row = NewRow(c)
      OBVIOUS
<1>4. row \in Rows /\ row.state = "created" /\ Kept(row)
      BY <1>1, <1>3, NewRowIsKept
<1>5. PICK F \in SUBSET FreshId :
          /\ jobs' = [j \in Ids |-> IF j \in F THEN row ELSE jobs[j]]
          /\ Put(c, Over([calls[c] EXCEPT !.answer = F], "done"))
      BY <1>3, BatchIds
<1>6. [calls[c] EXCEPT !.answer = F] \in CallRecords
      BY <1>1 DEF CallRecords, FreshId
<1>7. PICK n : n = Over([calls[c] EXCEPT !.answer = F], "done")
      OBVIOUS
<1>8. n \in CallRecords /\ n.edits = {} /\ n.ins.state = "none"
      BY <1>6, <1>7, OverTypes
<1>9. /\ calls' \in [Callers -> CallRecords] /\ calls'[c] = n
       /\ \A d \in Callers \ {c} : calls'[d] = calls[d]
      BY <1>1, <1>5, <1>7, <1>8, PutOne
<1> QED BY <1>2, <1>4, <1>5, <1>8, <1>9, FreshKeeps

\* An edit keeps a row a row, in its state and kept for as long.
LEMMA EditedKeeps ==
    ASSUME NEW row \in Rows, row.state # "none", Kept(row), NEW c \in Callers,
           NEW call \in CallRecords
    PROVE  /\ Edited(row, c, call.req) \in Rows /\ Kept(Edited(row, c, call.req))
           /\ Edited(row, c, call.req).state = row.state
<1>1. PICK s : s = call.req.start
      OBVIOUS
<1>2. s \in Int
      BY <1>1 DEF CallRecords
<1>3. row.keep + row.putOff = row.start + Retention /\ row.start \in Int /\ row.keep \in Int /\ row.putOff \in Int
      BY DEF Kept, Rows
<1>4. CASE s = -1
      <2>1. PICK e : e = [row EXCEPT !.data = c]
            OBVIOUS
      <2>2. e \in Rows /\ e.state = row.state /\ e.start = row.start /\ e.keep = row.keep /\ e.putOff = row.putOff
            BY <2>1 DEF Rows
      <2>3. Edited(row, c, call.req) = e
            BY <1>1, <1>4, <2>1 DEF Edited
      <2> QED BY <1>3, <2>2, <2>3 DEF Kept
<1>5. CASE s # -1
      <2>1. PICK k : k = s + (row.keep - row.start)
            OBVIOUS
      <2>2. k \in Int /\ k + row.putOff = s + Retention
            BY <1>2, <1>3, <2>1, SendsAssumption
      <2>3. PICK e : e = [row EXCEPT !.data = c, !.start = s, !.keep = k]
            OBVIOUS
      <2>4. e \in Rows /\ e.state = row.state /\ e.start = s /\ e.keep = k /\ e.putOff = row.putOff
            BY <1>2, <2>2, <2>3 DEF Rows
      <2>5. Edited(row, c, call.req) = e
            BY <1>1, <1>5, <2>1, <2>3 DEF Edited
      <2> QED BY <2>2, <2>4, <2>5 DEF Kept
<1> QED BY <1>4, <1>5

\* A statement that edits waiting rows and commits at once.
LEMMA WriteKeeps ==
    ASSUME IInv, NEW c \in Callers, NEW n \in CallRecords, Put(c, n), n.edits = {}, n.ins.state = "none",
           jobs' \in [Ids -> Rows], UNCHANGED <<policy, serializable, now, faults>>,
           \A j \in Ids : /\ Kept(jobs'[j]) /\ jobs'[j].state = jobs[j].state
                          /\ ~Waiting(j) => jobs'[j] = jobs[j]
    PROVE  IInv' /\ EditsStep
<1>1. TypeOK
      BY DEF IInv
<1>2. /\ calls' \in [Callers -> CallRecords] /\ calls'[c] = n
      /\ \A d \in Callers \ {c} : calls'[d] = calls[d]
      BY <1>1, PutOne
<1>3. TypeOK'
      BY <1>1, <1>2 DEF TypeOK
<1>4. ASSUME NEW d \in Callers \ {c}
      PROVE  /\ \A j \in calls[d].edits : Waiting(j)'
             /\ calls[d].ins.state # "none" => jobs'[calls[d].id].state \in {"none", "swept"}
      <2>1. calls[d].id \in Ids /\ calls[d].edits \subseteq Ids
            BY <1>1 DEF TypeOK, CallRecords
      <2> QED BY <2>1 DEF IInv, Pending, Waiting
<1>5. EditsStep
      BY DEF EditsStep, Waiting
<1> QED BY <1>2, <1>3, <1>4, <1>5, EmptyHanded

\* A call takes hold of rows, and the table stays.
LEMMA HoldsKeeps ==
    ASSUME IInv, NEW c \in Callers, TypeOK', jobs' = jobs,
           \A d \in Callers \ {c} : calls'[d] = calls[d], Pending(calls[c])',
           calls'[c].ins.state # "none" =>
               \A d \in Callers \ {c} : calls[d].ins.state # "none" => calls[d].id # calls'[c].id
    PROVE  IInv'
<1>1. \A d \in Callers \ {c} : Pending(calls[d])'
      <2>1. ASSUME NEW d \in Callers \ {c}
            PROVE  /\ \A j \in calls[d].edits : Waiting(j)'
                   /\ calls[d].ins.state # "none" => jobs'[calls[d].id].state \in {"none", "swept"}
            BY DEF IInv, Pending, Waiting
      <2> QED BY <2>1, PendingStays
<1>2. PendingApart'
      BY DEF IInv, PendingApart
<1>3. \A j \in Ids : Kept(jobs'[j])
      BY DEF IInv
<1> QED BY <1>1, <1>2, <1>3 DEF IInv

\* update() writes to the locked rows that still wait; upsert() locks them.
LEMMA ApplyStep ==
    ASSUME IInv, NEW c \in Callers, Apply(c)
    PROVE  IInv' /\ EditsStep
<1>1. TypeOK /\ calls[c] \in CallRecords /\ jobs \in [Ids -> Rows]
      BY DEF IInv, TypeOK
<1>2. PICK T : T = StillWaiting(calls[c].target)
      OBVIOUS
<1>3. T \subseteq Ids /\ \A j \in T : Waiting(j)
      BY <1>1, <1>2 DEF StillWaiting, CallRecords
<1>4. /\ calls[c].pc = "apply" /\ UNCHANGED <<policy, serializable, now, faults>>
      /\ \A j \in calls[c].target : ~Locked(j)
      BY DEF Apply
<1>5. calls[c].edits = {} /\ calls[c].ins.state = "none"
      BY <1>4, OnlyCommitHolds
<1>6. CASE calls[c].req.kind = "update"
      <2>1. PICK n : n = Over([calls[c] EXCEPT !.answer = T], "done")
            OBVIOUS
      <2>2. [calls[c] EXCEPT !.answer = T] \in CallRecords
            BY <1>1, <1>3 DEF CallRecords
      <2>3. n \in CallRecords /\ n.edits = {} /\ n.ins.state = "none"
            BY <2>1, <2>2, OverTypes
      <2>4. /\ Put(c, n)
            /\ jobs' = [j \in Ids |-> IF j \in T THEN Edited(jobs[j], c, calls[c].req) ELSE jobs[j]]
            BY <1>2, <1>6, <2>1 DEF Apply
      <2>5. ASSUME NEW j \in Ids
            PROVE  /\ jobs'[j] \in Rows /\ Kept(jobs'[j]) /\ jobs'[j].state = jobs[j].state
                   /\ ~Waiting(j) => jobs'[j] = jobs[j]
            <3>1. CASE j \in T
                  <4>1. Kept(jobs[j]) /\ Waiting(j) /\ jobs[j] \in Rows
                        BY <1>1, <1>3, <3>1 DEF IInv
                  <4>2. PICK row \in Rows : row = jobs[j]
                        BY <4>1
                  <4>3. PICK call \in CallRecords : call = calls[c]
                        BY <1>1
                  <4>4. jobs'[j] = Edited(row, c, call.req)
                        BY <2>4, <3>1, <4>2, <4>3
                  <4> QED BY <4>1, <4>2, <4>4, EditedKeeps DEF Waiting
            <3>2. CASE j \notin T
                  BY <1>1, <2>4, <3>2 DEF IInv
            <3> QED BY <3>1, <3>2
      <2>6. jobs' \in [Ids -> Rows]
            BY <2>4, <2>5
      <2> QED BY <1>1, <1>4, <2>3, <2>4, <2>5, <2>6, WriteKeeps
<1>7. CASE calls[c].req.kind # "update"
      <2>1. PICK n : n = [calls[c] EXCEPT !.pc = IF T = {} /\ ~calls[c].second THEN "insert" ELSE "commit",
                                       !.edits = T, !.answer = T]
            OBVIOUS
      <2>2. /\ n \in CallRecords /\ n.edits = T /\ n.ins = calls[c].ins /\ n.id = calls[c].id
            /\ n.req = calls[c].req /\ (T # {} => n.pc = "commit")
            BY <1>1, <1>3, <2>1 DEF CallRecords
      <2>3. Put(c, n) /\ UNCHANGED jobs
            BY <1>2, <1>7, <2>1 DEF Apply
      <2>4. /\ calls' \in [Callers -> CallRecords] /\ calls'[c] = n
            /\ \A d \in Callers \ {c} : calls'[d] = calls[d]
            BY <1>1, <2>2, <2>3, PutOne
      <2>5. TypeOK'
            BY <1>1, <1>4, <2>3, <2>4 DEF TypeOK
      <2>6. Pending(calls[c])'
            <3>1. \A j \in T : Waiting(j)'
                  BY <1>3, <2>3 DEF Waiting
            <3> QED BY <1>5, <2>2, <2>4, <3>1 DEF Pending
      <2> QED BY <1>4, <1>5, <2>2, <2>3, <2>4, <2>5, <2>6, HoldsKeeps, QuietEdits
<1> QED BY <1>6, <1>7

\* upsert()'s insert: a row nobody sees, under an id nobody has.
LEMMA UpsertInsertStep ==
    ASSUME IInv, NEW c \in Callers, UpsertInsert(c)
    PROVE  IInv' /\ EditsStep
<1>1. TypeOK /\ calls[c] \in CallRecords
      BY DEF IInv, TypeOK
<1>2. /\ calls[c].pc = "insert" /\ (calls[c].req.by = "id" \/ FreshId # {})
      /\ UNCHANGED <<policy, serializable, now, jobs, faults>>
      BY DEF UpsertInsert
<1>3. calls[c].edits = {} /\ calls[c].ins.state = "none"
      BY <1>2, OnlyCommitHolds DEF UpsertInsert
<1>4. PICK row : row = NewRow(c)
      OBVIOUS
<1>5. row \in Rows /\ row.state = "created" /\ Kept(row)
      BY <1>1, <1>4, NewRowIsKept
<1>6. PICK id : id = IdFor(c)
      OBVIOUS
<1>7. id \in Ids
      <2>1. CASE calls[c].req.by = "id"
            BY <1>6, <2>1, SendsAssumption DEF IdFor, Ids
      <2>2. CASE calls[c].req.by # "id"
            BY <1>2, <1>6, <2>2, FreshIds DEF IdFor, FreshId
      <2> QED BY <2>1, <2>2
<1>8. CASE Meets(row, id)
      <2>1. PICK n : n = [calls[c] EXCEPT !.pc = "select", !.second = TRUE]
            OBVIOUS
      <2>2. n \in CallRecords /\ n.edits = {} /\ n.ins.state = "none"
            BY <1>1, <1>3, <2>1 DEF CallRecords
      <2>3. Put(c, n)
            BY <1>4, <1>6, <1>8, <2>1 DEF UpsertInsert
      <2>4. /\ calls' \in [Callers -> CallRecords] /\ calls'[c] = n
            /\ \A d \in Callers \ {c} : calls'[d] = calls[d]
            BY <1>1, <2>2, <2>3, PutOne
      <2>5. TypeOK'
            BY <1>1, <1>2, <2>4 DEF TypeOK
      <2> QED BY <1>2, <2>2, <2>4, <2>5, EmptyHandedQuiet, QuietEdits
<1>9. CASE ~Meets(row, id)
      <2>1. PICK n : n = [calls[c] EXCEPT !.pc = "commit", !.ins = row, !.id = id, !.answer = {id}]
            OBVIOUS
      <2>2. n \in CallRecords /\ n.pc = "commit" /\ n.edits = {} /\ n.ins = row /\ n.id = id
            BY <1>1, <1>3, <1>5, <1>7, <2>1 DEF CallRecords
      <2>3. Put(c, n)
            BY <1>4, <1>6, <1>9, <2>1 DEF UpsertInsert
      <2>4. /\ calls' \in [Callers -> CallRecords] /\ calls'[c] = n
            /\ \A d \in Callers \ {c} : calls'[d] = calls[d]
            BY <1>1, <2>2, <2>3, PutOne
      <2>5. TypeOK'
            BY <1>1, <1>2, <2>4 DEF TypeOK
      <2>6. jobs[id].state \in {"none", "swept"}
            BY <1>9 DEF Meets, There
      <2>7. Pending(calls[c])'
            BY <1>2, <1>5, <2>2, <2>4, <2>6 DEF Pending
      <2>8. \A d \in Callers \ {c} : calls[d].ins.state # "none" => calls[d].id # id
            BY <1>4, <1>6 DEF UpsertInsert, Blocked
      <2> QED BY <1>2, <2>2, <2>4, <2>5, <2>7, <2>8, HoldsKeeps, QuietEdits
<1> QED BY <1>8, <1>9

\* The end of upsert()'s transaction: what it held becomes visible.
LEMMA CommitStep ==
    ASSUME IInv, NEW c \in Callers, Commit(c)
    PROVE  IInv' /\ EditsStep
<1>1. TypeOK /\ calls[c] \in CallRecords /\ jobs \in [Ids -> Rows] /\ Pending(calls[c])
      BY DEF IInv, TypeOK
<1>2. PICK call \in CallRecords : call = calls[c]
      BY <1>1
<1>3. /\ jobs' = [j \in Ids |-> IF call.ins.state # "none" /\ j = call.id THEN call.ins
                                ELSE IF j \in call.edits THEN Edited(jobs[j], c, call.req) ELSE jobs[j]]
      /\ calls' = [d \in Callers |-> IF d = c THEN Over(call, "done")
                                     ELSE [calls[d] EXCEPT !.stale = @ \/ InTx(d)]]
      /\ UNCHANGED <<policy, serializable, now, faults>>
      BY <1>2 DEF Commit
<1>4. /\ \A j \in call.edits : Waiting(j)
      /\ call.ins.state # "none" => /\ call.ins.state = "created" /\ Kept(call.ins) /\ call.ins \in Rows
                                    /\ jobs[call.id].state \in {"none", "swept"} /\ call.id \in Ids
      BY <1>1, <1>2 DEF Pending, CallRecords
<1>5. ASSUME NEW j \in Ids
      PROVE  /\ jobs'[j] \in Rows /\ Kept(jobs'[j])
             /\ Waiting(j) => jobs'[j].state = jobs[j].state
             /\ jobs[j].state \in {"active", "completed"} => jobs'[j] = jobs[j]
             /\ ~(call.ins.state # "none" /\ j = call.id) => jobs'[j].state = jobs[j].state
      <2>1. CASE call.ins.state # "none" /\ j = call.id
            BY <1>3, <1>4, <2>1 DEF Waiting
      <2>2. CASE ~(call.ins.state # "none" /\ j = call.id) /\ j \in call.edits
            <3>1. PICK row \in Rows : row = jobs[j]
                  BY <1>1
            <3>2. Kept(row) /\ row.state \in {"created", "retry"}
                  BY <1>4, <2>2, <3>1 DEF IInv, Waiting
            <3>3. jobs'[j] = Edited(row, c, call.req)
                  BY <1>3, <2>2, <3>1
            <3>4. jobs'[j] \in Rows /\ Kept(jobs'[j]) /\ jobs'[j].state = row.state
                  BY <3>2, <3>3, EditedKeeps
            <3> QED BY <3>1, <3>2, <3>4
      <2>3. CASE ~(call.ins.state # "none" /\ j = call.id) /\ j \notin call.edits
            BY <1>1, <1>3, <2>3 DEF IInv
      <2> QED BY <2>1, <2>2, <2>3
<1>6. Over(call, "done") \in CallRecords /\ Over(call, "done").edits = {} /\ Over(call, "done").ins.state = "none"
      BY OverTypes
<1>7. ASSUME NEW d \in Callers \ {c}
      PROVE  /\ calls'[d] \in CallRecords
             /\ calls'[d].edits = calls[d].edits /\ calls'[d].ins = calls[d].ins /\ calls'[d].id = calls[d].id
             /\ calls'[d].pc = calls[d].pc /\ calls'[d].req = calls[d].req
      <2>1. PICK old \in CallRecords : old = calls[d]
            BY <1>1 DEF TypeOK
      <2>2. (old.stale \/ InTx(d)) \in BOOLEAN
            BY DEF CallRecords, InTx
      <2>3. PICK b \in BOOLEAN : b = (old.stale \/ InTx(d))
            BY <2>2
      <2>4. calls'[d] = [old EXCEPT !.stale = b]
            BY <1>3, <2>1, <2>3
      <2> QED BY <2>1, <2>4 DEF CallRecords
<1>8. calls'[c] = Over(call, "done") /\ calls' \in [Callers -> CallRecords]
      BY <1>3, <1>6, <1>7
<1>9. TypeOK'
      BY <1>1, <1>3, <1>5, <1>8 DEF TypeOK
<1>10. ASSUME NEW d \in Callers \ {c}
       PROVE  Pending(calls[d])'
      <2>1. calls[d].id \in Ids /\ calls[d].edits \subseteq Ids /\ Pending(calls[d])
            BY <1>1 DEF IInv, TypeOK, CallRecords
      <2>2. \A j \in calls[d].edits : Waiting(j)'
            BY <1>5, <2>1 DEF Pending, Waiting
      <2>3. calls[d].ins.state # "none" => jobs'[calls[d].id].state \in {"none", "swept"}
            <3>1. calls[d].ins.state # "none" => ~(call.ins.state # "none" /\ calls[d].id = call.id)
                  BY <1>2 DEF IInv, PendingApart
            <3> QED BY <1>5, <2>1, <3>1 DEF Pending
      <2> QED BY <1>7, <2>2, <2>3, PendingStays
<1>11. Pending(calls[c])'
      BY <1>6, <1>8 DEF Pending
<1>12. PendingApart'
      BY <1>6, <1>7, <1>8 DEF IInv, PendingApart
<1>13. IInv'
      BY <1>5, <1>9, <1>10, <1>11, <1>12 DEF IInv
<1>14. EditsStep
      BY <1>5 DEF EditsStep, Waiting
<1> QED BY <1>13, <1>14

\* A transaction is lost, or runs again.
LEMMA LostStep ==
    ASSUME IInv, NEW c \in Callers, SerializationFails(c) \/ TxLost(c)
    PROVE  IInv' /\ EditsStep
<1>1. TypeOK /\ calls[c] \in CallRecords /\ now \in Int
      BY SendsAssumption DEF IInv, TypeOK
<1>2. PICK lost : lost = Abandoned(calls[c])
      OBVIOUS
<1>3. lost \in CallRecords /\ lost.edits = {} /\ lost.ins.state = "none" /\ lost.attempts = calls[c].attempts
      BY <1>1, <1>2, OverTypes DEF Abandoned, CallRecords
<1>4. PICK over : over = Over(lost, "failed")
      OBVIOUS
<1>5. over \in CallRecords /\ over.edits = {} /\ over.ins.state = "none"
      BY <1>3, <1>4, OverTypes
<1>6. ASSUME NEW n \in CallRecords, Put(c, n), n.edits = {}, n.ins.state = "none", UNCHANGED jobs,
             UNCHANGED <<policy, serializable, now>>, faults' \in 0 .. MaxFaults
      PROVE  IInv' /\ EditsStep
      <2>1. /\ calls' \in [Callers -> CallRecords] /\ calls'[c] = n
            /\ \A d \in Callers \ {c} : calls'[d] = calls[d]
            BY <1>1, <1>6, PutOne
      <2>2. TypeOK'
            BY <1>1, <1>6, <2>1 DEF TypeOK
      <2> QED BY <1>6, <2>1, <2>2, EmptyHandedQuiet, QuietEdits
<1>7. CASE TxLost(c)
      <2>1. Put(c, over) /\ UNCHANGED <<policy, serializable, now, jobs>> /\ faults < MaxFaults /\ faults' = faults + 1
            BY <1>2, <1>4, <1>7 DEF TxLost
      <2>2. faults' \in 0 .. MaxFaults
            BY <1>1, <2>1, SendsAssumption DEF TypeOK
      <2> QED BY <1>5, <1>6, <2>1, <2>2
<1>8. CASE SerializationFails(c)
      <2>1. UNCHANGED <<policy, serializable, now, jobs, faults>> /\ faults \in 0 .. MaxFaults
            BY <1>1, <1>8 DEF SerializationFails, TypeOK
      <2>2. CASE calls[c].attempts = UpsertAttempts
            <3>1. Put(c, over)
                  BY <1>2, <1>4, <1>8, <2>2 DEF SerializationFails
            <3> QED BY <1>5, <1>6, <2>1, <3>1
      <2>3. CASE calls[c].attempts # UpsertAttempts
            <3>1. PICK a : a = lost.attempts + 1
                  OBVIOUS
            <3>2. a \in 1 .. UpsertAttempts
                  BY <1>1, <1>3, <2>3, <3>1 DEF CallRecords, UpsertAttempts
            <3>3. PICK n : n = [lost EXCEPT !.pc = "select", !.attempts = a, !.stale = FALSE,
                                            !.second = FALSE, !.began = now]
                  OBVIOUS
            <3>4. n \in CallRecords /\ n.edits = {} /\ n.ins.state = "none"
                  BY <1>1, <1>3, <3>2, <3>3 DEF CallRecords
            <3>5. Put(c, n)
                  <4>1. lost \in CallRecords /\ [lost EXCEPT !.pc = "select", !.attempts = @ + 1, !.stale = FALSE,
                                            !.second = FALSE, !.began = now] = n
                        BY <1>3, <3>1, <3>3
                  <4> QED BY <1>2, <1>8, <2>3, <4>1 DEF SerializationFails
            <3> QED BY <1>6, <2>1, <3>4, <3>5
      <2> QED BY <2>2, <2>3
<1> QED BY <1>7, <1>8

-----------------------------------------------------------------------------
(* The worker, the sweep and the clock *)

\* A job in another state is the job it was.
LEMMA StateFields ==
    ASSUME TypeOK, NEW j \in Ids, NEW s \in {"active", "completed", "swept"}, SetState(j, s)
    PROVE  \E row \in Rows :
              /\ jobs' = [jobs EXCEPT ![j] = row] /\ row.state = s
              /\ row.data = jobs[j].data /\ row.keep = jobs[j].keep /\ row.start = jobs[j].start
              /\ row.putOff = jobs[j].putOff /\ row.slot = jobs[j].slot /\ row.created = jobs[j].created
              /\ row.byKey = jobs[j].byKey /\ row.keyed = jobs[j].keyed
<1>1. PICK old \in Rows : old = jobs[j]
      BY DEF TypeOK
<1>2. PICK row : row = [old EXCEPT !.state = s]
      OBVIOUS
<1>3. row \in Rows /\ row.state = s
      BY <1>2 DEF Rows
<1>4. /\ row.data = old.data /\ row.keep = old.keep /\ row.start = old.start
      /\ row.putOff = old.putOff /\ row.slot = old.slot /\ row.created = old.created
      /\ row.byKey = old.byKey /\ row.keyed = old.keyed
      BY <1>2 DEF Rows
<1>5. jobs' = [jobs EXCEPT ![j] = row]
      BY <1>1, <1>2 DEF SetState
<1> QED BY <1>1, <1>3, <1>4, <1>5

\* A retry is the job it was, put off.
LEMMA RetryFields ==
    ASSUME TypeOK, NEW j \in Ids, NEW delay \in RetryDelays, jobs' = [jobs EXCEPT ![j] = Retried(@, now + delay)]
    PROVE  \E row \in Rows :
              /\ jobs' = [jobs EXCEPT ![j] = row] /\ row.state = "retry"
              /\ row.data = jobs[j].data /\ row.keep = jobs[j].keep /\ row.start = now + delay
              /\ row.putOff = jobs[j].putOff + ((now + delay) - jobs[j].start)
              /\ row.slot = jobs[j].slot /\ row.created = jobs[j].created
              /\ row.byKey = jobs[j].byKey /\ row.keyed = jobs[j].keyed
<1>1. PICK old \in Rows : old = jobs[j]
      BY DEF TypeOK
<1>2. now + delay \in Int /\ old.start \in Int /\ old.putOff \in Int
      BY <1>1, SendsAssumption, RowTypes DEF TypeOK
<1>3. PICK t \in Int : t = now + delay
      BY <1>2
<1>4. PICK o \in Int : o = old.putOff + (t - old.start)
      BY <1>2
<1>5. PICK row : row = [old EXCEPT !.state = "retry", !.start = t, !.putOff = o]
      OBVIOUS
<1>6. row \in Rows /\ row.state = "retry" /\ row.start = t /\ row.putOff = o
      BY <1>5 DEF Rows
<1>7. /\ row.data = old.data /\ row.keep = old.keep /\ row.slot = old.slot /\ row.created = old.created
      /\ row.byKey = old.byKey /\ row.keyed = old.keyed
      BY <1>5 DEF Rows
<1>8. Retried(old, t) = row
      BY <1>4, <1>5 DEF Retried
<1>9. jobs' = [jobs EXCEPT ![j] = row]
      BY <1>1, <1>3, <1>8
<1>10. row.start = now + delay /\ row.putOff = jobs[j].putOff + ((now + delay) - jobs[j].start)
      <2>1. old.putOff = jobs[j].putOff /\ old.start = jobs[j].start
            BY <1>1
      <2>2. o = jobs[j].putOff + (t - jobs[j].start)
            BY <1>4, <2>1, Zenon
      <2> QED BY <1>3, <1>6, <2>2, Zenon
<1>11. /\ row.data = jobs[j].data /\ row.keep = jobs[j].keep /\ row.slot = jobs[j].slot
       /\ row.created = jobs[j].created /\ row.byKey = jobs[j].byKey /\ row.keyed = jobs[j].keyed
      BY <1>1, <1>7
<1> QED BY <1>6, <1>9, <1>10, <1>11, Zenon

\* A job moves to another state, if nobody holds it or it does not wait.
LEMMA MoveStep ==
    ASSUME IInv, NEW j \in Ids, NEW row \in Rows, jobs' = [jobs EXCEPT ![j] = row],
           row.state \in {"active", "completed", "retry", "swept"}, Kept(row),
           calls' = calls \/ Seen, UNCHANGED <<policy, serializable, now, faults>>,
           jobs[j].state \notin {"none", "swept"}, Waiting(j) => ~Locked(j)
    PROVE  IInv' /\ jobs'[j] = row /\ \A i \in Ids \ {j} : jobs'[i] = jobs[i]
<1>1. TypeOK /\ jobs \in [Ids -> Rows]
      BY DEF IInv, TypeOK
<1>2. jobs'[j] = row
      BY <1>1
<1>3. jobs'[j] \in Rows /\ Kept(jobs'[j]) /\ \A i \in Ids \ {j} : jobs'[i] = jobs[i]
      BY <1>1, <1>2
<1>4. jobs' \in [Ids -> Rows]
      BY <1>1, <1>2, <1>3
<1>5. ASSUME NEW d \in Callers
      PROVE  /\ calls'[d] \in CallRecords
             /\ calls'[d].edits = calls[d].edits /\ calls'[d].ins = calls[d].ins /\ calls'[d].id = calls[d].id
             /\ calls'[d].pc = calls[d].pc /\ calls'[d].req = calls[d].req
      <2>1. PICK old \in CallRecords : old = calls[d]
            BY <1>1 DEF TypeOK
      <2>2. CASE Seen
            <3>1. PICK b \in BOOLEAN : b = (old.claimed \/ (Busy(d) /\ calls[d].req.kind = "upsert"))
                  <4>1. (old.claimed \/ (Busy(d) /\ calls[d].req.kind = "upsert")) \in BOOLEAN
                        BY DEF CallRecords, Busy
                  <4> QED BY <4>1
            <3>2. calls'[d] = [old EXCEPT !.claimed = b]
                  BY <2>1, <2>2, <3>1 DEF Seen
            <3> QED BY <2>1, <3>2 DEF CallRecords
      <2> QED BY <2>1, <2>2
<1>6. calls' \in [Callers -> CallRecords]
      BY <1>1, <1>5 DEF Seen, TypeOK
<1>7. TypeOK'
      BY <1>1, <1>4, <1>6 DEF TypeOK
<1>8. \A i \in Ids : Kept(jobs'[i])
      BY <1>3 DEF IInv
<1>9. ASSUME NEW d \in Callers
      PROVE  Pending(calls[d])'
      <2>1. calls[d].id \in Ids /\ calls[d].edits \subseteq Ids /\ Pending(calls[d])
            BY <1>1 DEF IInv, TypeOK, CallRecords
      <2>2. j \notin calls[d].edits
            BY <2>1 DEF Pending, Locked
      <2>3. \A i \in calls[d].edits : Waiting(i)'
            BY <1>3, <2>1, <2>2 DEF Pending, Waiting
      <2>4. calls[d].ins.state # "none" => calls[d].id # j
            BY <2>1 DEF Pending
      <2>5. calls[d].ins.state # "none" => jobs'[calls[d].id].state \in {"none", "swept"}
            BY <1>3, <2>1, <2>4 DEF Pending
      <2> QED BY <1>5, <2>3, <2>5, PendingStays
<1>10. PendingApart'
      BY <1>5 DEF IInv, PendingApart
<1> QED BY <1>2, <1>3, <1>7, <1>8, <1>9, <1>10 DEF IInv

\* fetchNextJob, the settles and the sweep.
LEMMA TableStep ==
    ASSUME IInv, NEW j \in Ids, Fetch(j) \/ Settle(j) \/ Sweep(j)
    PROVE  IInv' /\ EditsStep
<1>1. TypeOK
      BY DEF IInv
<1>2. /\ jobs[j].start \in Int /\ jobs[j].keep \in Int /\ jobs[j].putOff \in Int /\ now \in Int
      /\ Retention \in Int /\ RetryDelays \subseteq Int
      BY <1>1, SendsAssumption, RowTypes DEF TypeOK
<1>3. jobs[j].state \notin {"none", "swept"} /\ Kept(jobs[j])
      BY DEF Fetch, Settle, Sweep, Waiting, IInv
<1>4. jobs[j].keep + jobs[j].putOff = jobs[j].start + Retention
      BY <1>3 DEF Kept
<1>5. CASE Fetch(j) \/ Sweep(j)
      <2>1. /\ Seen /\ UNCHANGED <<policy, serializable, now, faults>> /\ ~Locked(j) /\ Waiting(j)
            BY <1>5 DEF Fetch, Sweep
      <2>2. PICK s \in {"active", "swept"} : SetState(j, s) /\ (s = "swept" => jobs[j].keep < now)
            BY <1>5 DEF Fetch, Sweep
      <2>3. PICK row \in Rows :
                /\ jobs' = [jobs EXCEPT ![j] = row] /\ row.state = s
                /\ row.keep = jobs[j].keep /\ row.start = jobs[j].start /\ row.putOff = jobs[j].putOff
            BY <1>1, <2>2, StateFields
      <2>4. Kept(row)
            BY <1>4, <2>3 DEF Kept
      <2>5. IInv' /\ jobs'[j] = row /\ \A i \in Ids \ {j} : jobs'[i] = jobs[i]
            BY <1>3, <2>1, <2>3, <2>4, MoveStep
      <2>6. row.state = "swept" => now > jobs[j].start - jobs[j].putOff + Retention
            BY <1>2, <1>4, <2>2, <2>3
      <2> QED BY <2>1, <2>5, <2>6 DEF EditsStep, Waiting
<1>6. CASE Settle(j)
      <2>1. calls' = calls /\ UNCHANGED <<policy, serializable, now, faults>> /\ jobs[j].state = "active"
            BY <1>6 DEF Settle
      <2>2. CASE SetState(j, "completed")
            <3>1. PICK row \in Rows :
                      /\ jobs' = [jobs EXCEPT ![j] = row] /\ row.state = "completed" /\ row.data = jobs[j].data
                      /\ row.keep = jobs[j].keep /\ row.start = jobs[j].start /\ row.putOff = jobs[j].putOff
                  BY <1>1, <2>2, StateFields
            <3>2. Kept(row)
                  BY <1>4, <3>1 DEF Kept
            <3>3. IInv' /\ jobs'[j] = row /\ \A i \in Ids \ {j} : jobs'[i] = jobs[i]
                  BY <1>3, <2>1, <3>1, <3>2, MoveStep DEF Waiting
            <3> QED BY <2>1, <3>1, <3>3 DEF EditsStep, Waiting
      <2>3. ASSUME NEW delay \in RetryDelays, jobs' = [jobs EXCEPT ![j] = Retried(@, now + delay)]
            PROVE  IInv' /\ EditsStep
            <3>1. PICK row \in Rows :
                      /\ jobs' = [jobs EXCEPT ![j] = row] /\ row.state = "retry" /\ row.data = jobs[j].data
                      /\ row.keep = jobs[j].keep /\ row.start = now + delay
                      /\ row.putOff = jobs[j].putOff + ((now + delay) - jobs[j].start)
                      /\ row.slot = jobs[j].slot /\ row.created = jobs[j].created
                      /\ row.byKey = jobs[j].byKey /\ row.keyed = jobs[j].keyed
                  BY <1>1, <2>3, RetryFields
            <3>2. row.keep + row.putOff = row.start + Retention
                  BY <1>2, <1>4, <3>1
            <3>3. IInv' /\ jobs'[j] = row /\ \A i \in Ids \ {j} : jobs'[i] = jobs[i]
                  BY <1>3, <2>1, <3>1, <3>2, MoveStep DEF Waiting, Kept
            <3> QED BY <2>1, <3>1, <3>3 DEF EditsStep, Waiting
      <2> QED BY <1>6, <2>2, <2>3 DEF Settle
<1> QED BY <1>5, <1>6

\* What stands still keeps all of it.
LEMMA StillStep ==
    ASSUME IInv, UNCHANGED <<policy, serializable, jobs, calls, faults>>, now' \in FirstTime .. MaxTime
    PROVE  IInv' /\ EditsStep
<1>1. TypeOK'
      BY DEF IInv, TypeOK
<1>2. \A d \in Callers : Pending(calls[d])'
      BY DEF IInv, Pending, Waiting
<1>3. PendingApart'
      BY DEF IInv, PendingApart
<1> QED BY <1>1, <1>2, <1>3, QuietEdits DEF IInv

\* Every step keeps the invariant, and is a step EditsSafe allows.
LEMMA NextKeeps == IInv /\ [Next]_vars => IInv' /\ EditsStep
<1> SUFFICES ASSUME IInv, [Next]_vars PROVE IInv' /\ EditsStep
    OBVIOUS
<1>1. ASSUME NEW c \in Callers,
             \/ \E r \in Requests : Begin(c, r)
             \/ SendInsert(c) \/ InsertBatch(c) \/ \E e \in ClockErrors : Debounce(c, e)
             \/ Select(c) \/ Apply(c) \/ UpsertInsert(c) \/ Commit(c)
             \/ SerializationFails(c) \/ TxLost(c)
      PROVE  IInv' /\ EditsStep
      BY <1>1, BeginStep, ChooseStep, SendStep, BatchStep, ApplyStep, UpsertInsertStep, CommitStep, LostStep
<1>2. ASSUME NEW j \in Ids, Fetch(j) \/ Settle(j) \/ Sweep(j)
      PROVE  IInv' /\ EditsStep
      BY <1>2, TableStep
<1>3. CASE Tick
      <2>1. now' \in FirstTime .. MaxTime
            BY <1>3, SendsAssumption DEF Tick, IInv, TypeOK
      <2> QED BY <1>3, <2>1, StillStep DEF Tick
<1>4. CASE UNCHANGED vars
      BY <1>4, StillStep DEF vars, IInv, TypeOK
<1> QED BY <1>1, <1>2, <1>3, <1>4 DEF Next

\* The rows an earlier send has left.
LEMMA Initially == Init => IInv
<1> SUFFICES ASSUME Init PROVE IInv
    OBVIOUS
<1>1. now \in FirstTime .. MaxTime /\ faults \in 0 .. MaxFaults /\ <<policy, serializable>> \in Modes
      <2>1. PICK m \in Modes : policy = m[1] /\ serializable = m[2]
            BY DEF Init
      <2>2. m = <<m[1], m[2]>>
            BY SendsAssumption
      <2> QED BY <2>1, <2>2, SendsAssumption DEF Init
<1>2. calls \in [Callers -> CallRecords] /\ \A c \in Callers : calls[c] = Idle
      BY RowTypes DEF Init
<1>3. PICK s \in {"none", "created", "active"} :
          jobs = [[j \in Ids |-> NoRow] EXCEPT ![1] =
                    IF s = "none" THEN @ ELSE Row(s, TRUE, FALSE, NoSlot, 0, Retention, NoCaller, 0)]
      BY DEF Init
<1>4. PICK row : row = Row(s, TRUE, FALSE, NoSlot, 0, Retention, NoCaller, 0)
      OBVIOUS
<1>5. row \in Rows /\ Kept(row)
      BY <1>4, SendsAssumption DEF Row, Rows, Kept, NoSlot
<1>6. 1 \in Ids
      BY SendsAssumption DEF Ids
<1>7. \A j \in Ids : jobs[j] = NoRow \/ jobs[j] = row
      BY <1>3, <1>4, <1>6
<1>8. jobs \in [Ids -> Rows] /\ \A j \in Ids : Kept(jobs[j])
      BY <1>3, <1>5, <1>7, RowTypes DEF Kept
<1>9. \A c \in Callers : Pending(calls[c])
      BY <1>2, RowTypes DEF Pending
<1>10. PendingApart
      BY <1>2, RowTypes DEF PendingApart
<1> QED BY <1>1, <1>2, <1>8, <1>9, <1>10 DEF IInv, TypeOK

-----------------------------------------------------------------------------
(* What calls agree on *)

\* A row that an upsert by key inserted and nobody has started.
Marked(row) == row.byKey /\ row.state = "created"

\* job_i13: of one key there is one such row, those not committed counted.
OneMark ==
    /\ \A i, j \in Ids : Marked(jobs[i]) /\ Marked(jobs[j]) => i = j
    /\ \A c \in Callers, j \in Ids : Marked(calls[c].ins) => ~Marked(jobs[j])
    /\ \A c, d \in Callers : Marked(calls[c].ins) /\ Marked(calls[d].ins) => c = d

\* The rows of upserts by key have the key.
MarksKeyed == \A j \in Ids : jobs[j].byKey => jobs[j].keyed

\* The row an upsert by key inserted is its own, until it commits and after.
InsertSound(c) ==
    /\ calls[c].ins.state # "none" => (calls[c].ins.byKey => calls[c].ins.keyed) /\ calls[c].ins.data = c
    /\ calls[c].id # 0 =>
          \/ calls[c].pc = "commit" /\ Marked(calls[c].ins) /\ jobs[calls[c].id].state = "none"
          \/ calls[c].pc = "done" /\ jobs[calls[c].id].byKey /\ jobs[calls[c].id].state # "none"

\* An upsert whose insert was refused finds a waiting job of the key, while none is claimed.
FindsJob(c) ==
    /\ calls[c].pc = "idle" => ~calls[c].second
    /\ calls[c].req.kind = "upsert" /\ calls[c].req.by = "key" /\ ~calls[c].claimed /\ policy # "exclusive" =>
          /\ calls[c].pc = "select" /\ calls[c].second => \E j \in Ids : Waiting(j) /\ jobs[j].keyed
          /\ calls[c].pc = "apply" /\ calls[c].second =>
                calls[c].target # {} /\ \A j \in calls[c].target : Waiting(j)
          /\ calls[c].pc \in {"commit", "done"} => calls[c].answer # {}

\* No two calls inserted one row.
InsertsApart ==
    \A c, d \in Callers :
        calls[c].pc = "done" /\ calls[d].pc = "done" /\ calls[c].id # 0 /\ calls[c].id = calls[d].id => c = d

AInv ==
    /\ OneMark /\ MarksKeyed /\ InsertsApart
    /\ \A c \in Callers : InsertSound(c) /\ FindsJob(c)

\* No row is swept from under a waiting upsert unseen, and none a call inserted goes.
WaitingStays == \A j \in Ids : Waiting(j) => Waiting(j)' /\ jobs'[j].keyed = jobs[j].keyed
RowsLast == \A j \in Ids \ {0} : jobs[j].state # "none" => jobs'[j].state # "none" /\ jobs'[j].byKey = jobs[j].byKey

\* What holds of a call goes on to hold when others move.
LEMMA CallStays ==
    ASSUME TypeOK, NEW d \in Callers, InsertSound(d), FindsJob(d), policy' = policy, RowsLast,
           calls'[d].pc = calls[d].pc, calls'[d].req = calls[d].req, calls'[d].id = calls[d].id,
           calls'[d].ins = calls[d].ins, calls'[d].second = calls[d].second,
           calls'[d].answer = calls[d].answer, calls'[d].target = calls[d].target,
           calls[d].claimed => calls'[d].claimed,
           WaitingStays \/ (Busy(d) /\ calls[d].req.kind = "upsert" => calls'[d].claimed),
           calls[d].id # 0 /\ calls[d].pc = "commit" => jobs'[calls[d].id].state = "none"
    PROVE  InsertSound(d)' /\ FindsJob(d)'
<1>1. calls[d].id \in Ids /\ calls[d].target \subseteq Ids
      BY DEF TypeOK, CallRecords
<1>2. InsertSound(d)'
      BY <1>1 DEF InsertSound, RowsLast
<1>3. ASSUME calls[d].req.kind = "upsert", calls[d].req.by = "key", ~calls'[d].claimed, policy # "exclusive",
             ~(calls[d].pc \in {"commit", "done"})
      PROVE  /\ calls[d].pc = "select" /\ calls[d].second => \E j \in Ids : Waiting(j)' /\ jobs'[j].keyed
             /\ calls[d].pc = "apply" /\ calls[d].second =>
                   calls[d].target # {} /\ \A j \in calls[d].target : Waiting(j)'
      <2>1. CASE calls[d].pc \in {"select", "apply"}
            <3>1. WaitingStays
                  BY <1>3, <2>1 DEF Busy
            <3> QED BY <1>1, <1>3, <2>1, <3>1 DEF WaitingStays, FindsJob
      <2>2. CASE calls[d].pc \notin {"select", "apply"}
            BY <2>2
      <2> QED BY <2>1, <2>2
<1>4. FindsJob(d)'
      BY <1>3 DEF FindsJob, Waiting
<1> QED BY <1>2, <1>4

\* A step of c that leaves the table alone, and ends no insert.
LEMMA QuietAgrees ==
    ASSUME IInv, AInv, NEW c \in Callers, jobs' = jobs, policy' = policy,
           \A d \in Callers \ {c} : calls'[d] = calls[d],
           InsertSound(c)', FindsJob(c)', calls'[c].pc = "done" => calls'[c].id = 0,
           Marked(calls'[c].ins) => /\ \A j \in Ids : ~Marked(jobs[j])
                                    /\ \A d \in Callers \ {c} : ~Marked(calls[d].ins)
    PROVE  AInv'
<1>1. OneMark'
      BY DEF AInv, OneMark
<1>2. MarksKeyed' /\ InsertsApart'
      BY DEF AInv, MarksKeyed, InsertsApart
<1>3. RowsLast /\ WaitingStays
      BY DEF RowsLast, WaitingStays, Waiting
<1>4. ASSUME NEW d \in Callers \ {c}
      PROVE  InsertSound(d)' /\ FindsJob(d)'
      BY <1>3, CallStays DEF AInv, IInv, InsertSound
<1> QED BY <1>1, <1>2, <1>4 DEF AInv

\* A step that writes to the table, and leaves other calls as they are.
LEMMA WriteAgrees ==
    ASSUME IInv, AInv, NEW c \in Callers, policy' = policy, RowsLast, WaitingStays,
           \A d \in Callers \ {c} : calls'[d] = calls[d],
           \A j \in Ids : (Marked(jobs'[j]) => Marked(jobs[j])) /\ (jobs'[j].byKey => jobs'[j].keyed),
           \A d \in Callers \ {c} : calls[d].ins.state # "none" /\ calls[d].id # 0 => jobs'[calls[d].id].state = "none",
           InsertSound(c)', FindsJob(c)', calls'[c].id = 0, calls'[c].ins.state = "none"
    PROVE  AInv'
<1>1. ~Marked(calls'[c].ins)
      BY DEF Marked
<1>2. OneMark'
      BY <1>1 DEF AInv, OneMark
<1>3. MarksKeyed' /\ InsertsApart'
      BY DEF AInv, MarksKeyed, InsertsApart
<1>4. ASSUME NEW d \in Callers \ {c}
      PROVE  InsertSound(d)' /\ FindsJob(d)'
      BY CallStays DEF AInv, IInv, InsertSound, Marked
<1> QED BY <1>2, <1>3, <1>4 DEF AInv

\* A call that holds nothing is over or not under way, and no upsert by key of two rounds.
LEMMA NothingFound ==
    ASSUME NEW c \in Callers, calls'[c].ins.state = "none", calls'[c].id = 0,
           \/ calls'[c].pc # "idle" /\ calls'[c].req.kind # "upsert"
           \/ calls'[c].pc \in {"insert", "failed"}
           \/ calls'[c].pc \in {"select", "apply"} /\ ~calls'[c].second
    PROVE  InsertSound(c)' /\ FindsJob(c)'
BY DEF InsertSound, FindsJob

\* The fields of the row a call inserts, of a call that is over, and of a lost transaction.
LEMMA NewRowFields ==
    ASSUME NEW c \in Callers
    PROVE  /\ NewRow(c).state = "created" /\ NewRow(c).data = c
           /\ NewRow(c).byKey = Mark(calls[c].req) /\ NewRow(c).keyed = (calls[c].req.by = "key")
           /\ calls[c].req.kind = "upsert" => NewRow(c).slot = NoSlot
BY DEF NewRow, Row

LEMMA OverFields ==
    ASSUME NEW call \in CallRecords, NEW pc
    PROVE  /\ Over(call, pc).pc = pc /\ Over(call, pc).id = call.id /\ Over(call, pc).answer = call.answer
           /\ Over(call, pc).req.kind = call.req.kind /\ Over(call, pc).req.by = call.req.by
           /\ Over(call, pc).second = call.second /\ Over(call, pc).refused = call.refused
           /\ Over(call, pc).timely = call.timely
           /\ Over(call, pc).claimed = call.claimed /\ Over(call, pc).ins.state = "none"
<1>1. PICK q : q = [call.req EXCEPT !.start = -1, !.match = "newest"]
      OBVIOUS
<1>2. q.kind = call.req.kind /\ q.by = call.req.by
      BY <1>1 DEF CallRecords
<1>3. Over(call, pc) =
          [Idle EXCEPT !.pc = pc, !.req = q, !.answer = call.answer, !.second = call.second,
                       !.refused = call.refused, !.timely = call.timely, !.claimed = call.claimed,
                       !.id = call.id]
      BY <1>1 DEF Over
<1> QED BY <1>2, <1>3 DEF Idle, NoRow, Row

LEMMA AbandonedFields ==
    ASSUME NEW call \in CallRecords
    PROVE  /\ Abandoned(call) \in CallRecords /\ Abandoned(call).id = 0 /\ Abandoned(call).ins.state = "none"
           /\ Abandoned(call).req = call.req /\ Abandoned(call).attempts = call.attempts
<1>1. Abandoned(call) \in CallRecords /\ Abandoned(call).ins.state = "none"
      BY OverTypes
<1>2. PICK n : n = Abandoned(call)
      OBVIOUS
<1>3. n.id = 0 /\ n.req = call.req /\ n.attempts = call.attempts
      BY <1>2 DEF Abandoned, CallRecords
<1> QED BY <1>1, <1>2, <1>3

\* Before it commits a call has no id.
LEMMA NoIdYet ==
    ASSUME AInv, NEW c \in Callers, calls[c].pc \notin {"commit", "done"}
    PROVE  calls[c].id = 0
BY DEF AInv, InsertSound

\* A call begins.
LEMMA BeginAgrees ==
    ASSUME IInv, AInv, NEW c \in Callers, NEW r \in Requests, Begin(c, r)
    PROVE  AInv'
<1>1. TypeOK /\ calls[c] \in CallRecords /\ calls[c].pc = "idle"
      BY DEF IInv, TypeOK, Begin
<1>2. PICK pc \in {"select", "insert"} :
          Put(c, [calls[c] EXCEPT !.pc = pc, !.req = r, !.began = now])
      BY DEF Begin
<1>3. /\ calls'[c].pc = pc /\ calls'[c].second = calls[c].second
      /\ calls'[c].id = calls[c].id /\ calls'[c].ins = calls[c].ins
      BY <1>1, <1>2 DEF Put, TypeOK, CallRecords
<1>4. ~calls[c].second /\ calls[c].id = 0 /\ calls[c].ins.state = "none"
      BY <1>1, OnlyCommitHolds, NoIdYet DEF AInv, FindsJob
<1>5. \A d \in Callers \ {c} : calls'[d] = calls[d]
      BY <1>1, <1>2 DEF Put, TypeOK
<1>6. InsertSound(c)' /\ FindsJob(c)'
      BY <1>3, <1>4, NothingFound
<1> QED BY <1>3, <1>4, <1>5, <1>6, QuietAgrees DEF Begin, Marked

\* The delay of a debounce.
LEMMA DebounceAgrees ==
    ASSUME IInv, AInv, NEW c \in Callers, NEW e \in ClockErrors, Debounce(c, e)
    PROVE  AInv'
<1>1. TypeOK /\ calls[c] \in CallRecords /\ calls[c].pc = "debounce"
      BY DEF IInv, TypeOK, Debounce
<1>2. /\ calls'[c].pc = "insert" /\ calls'[c].id = calls[c].id /\ calls'[c].ins = calls[c].ins
      /\ \A d \in Callers \ {c} : calls'[d] = calls[d]
      <2>1. PICK a, b : Put(c, [calls[c] EXCEPT !.pc = "insert", !.second = TRUE, !.after = a, !.timely = b])
            BY DEF Debounce
      <2>2. PICK n : n = [calls[c] EXCEPT !.pc = "insert", !.second = TRUE, !.after = a, !.timely = b]
            OBVIOUS
      <2>3. n.pc = "insert" /\ n.id = calls[c].id /\ n.ins = calls[c].ins
            BY <1>1, <2>2 DEF CallRecords
      <2> QED BY <1>1, <2>1, <2>2, <2>3 DEF Put, TypeOK
<1>3. calls[c].id = 0 /\ calls[c].ins.state = "none"
      BY <1>1, OnlyCommitHolds, NoIdYet
<1>4. InsertSound(c)' /\ FindsJob(c)'
      BY <1>2, <1>3, NothingFound
<1> QED BY <1>2, <1>3, <1>4, QuietAgrees DEF Debounce, Marked

\* The choice of an edit's targets: in the second round there is one.
LEMMA SelectAgrees ==
    ASSUME IInv, AInv, NEW c \in Callers, Select(c)
    PROVE  AInv'
<1>1. TypeOK /\ calls[c] \in CallRecords /\ calls[c].pc = "select"
      BY DEF IInv, TypeOK, Select
<1>2. PICK T \in Targets(calls[c].req) : Put(c, [calls[c] EXCEPT !.pc = "apply", !.target = T])
      <2>1. Select(c)
            OBVIOUS
      <2> QED BY ONLY <2>1 DEF Select
<1>3. /\ calls'[c].pc = "apply" /\ calls'[c].id = calls[c].id /\ calls'[c].ins = calls[c].ins
      /\ calls'[c].second = calls[c].second /\ calls'[c].req = calls[c].req /\ calls'[c].target = T
      /\ calls'[c].claimed = calls[c].claimed
      /\ \A d \in Callers \ {c} : calls'[d] = calls[d]
      BY <1>1, <1>2 DEF Put, TypeOK, CallRecords
<1>4. calls[c].id = 0 /\ calls[c].ins.state = "none"
      BY <1>1, OnlyCommitHolds, NoIdYet
<1>5. policy' = policy /\ jobs' = jobs
      BY DEF Select
<1>6. ASSUME calls[c].req.kind = "upsert", calls[c].req.by = "key", ~calls[c].claimed,
             policy # "exclusive", calls[c].second
      PROVE  T # {} /\ \A j \in T : Waiting(j)
      <2>1. PICK j \in Ids : Waiting(j) /\ jobs[j].keyed
            BY <1>1, <1>6 DEF AInv, FindsJob
      <2>2. j \in Matches(calls[c].req) /\ \A i \in Matches(calls[c].req) : Waiting(i)
            BY <1>6, <2>1 DEF Matches
      <2> QED BY <1>6, <2>2 DEF Targets
<1>7. InsertSound(c)' /\ FindsJob(c)'
      BY <1>3, <1>4, <1>5, <1>6 DEF InsertSound, FindsJob, Waiting
<1> QED BY <1>3, <1>4, <1>5, <1>7, QuietAgrees DEF Marked

\* What a call holds is not there yet.
LEMMA HeldIds ==
    ASSUME IInv, AInv, NEW d \in Callers, calls[d].ins.state # "none", calls[d].id # 0
    PROVE  calls[d].id \in Ids /\ jobs[calls[d].id].state = "none"
<1>1. calls[d].pc = "commit"
      BY DEF IInv, Pending
<1> QED BY <1>1 DEF AInv, InsertSound, IInv, TypeOK, CallRecords

\* Rows of sends and inserts go in under fresh ids.
LEMMA FreshAgrees ==
    ASSUME IInv, AInv, NEW c \in Callers, NEW F \in SUBSET FreshId, NEW row, ~row.byKey, row.state = "created",
           jobs' = [j \in Ids |-> IF j \in F THEN row ELSE jobs[j]], policy' = policy,
           \A d \in Callers \ {c} : calls'[d] = calls[d],
           calls'[c].pc = "done", calls'[c].req.kind # "upsert", calls'[c].id = 0, calls'[c].ins.state = "none"
    PROVE  AInv'
<1>1. \A j \in F : j \in Ids /\ jobs[j].state = "none"
                   /\ \A d \in Callers : calls[d].ins.state = "none" \/ calls[d].id # j
      BY DEF FreshId
<1>2. RowsLast /\ WaitingStays
      BY <1>1 DEF RowsLast, WaitingStays, Waiting
<1>3. \A j \in Ids : (Marked(jobs'[j]) => Marked(jobs[j])) /\ (jobs'[j].byKey => jobs'[j].keyed)
      BY DEF Marked, AInv, MarksKeyed
<1>4. \A d \in Callers \ {c} : calls[d].ins.state # "none" /\ calls[d].id # 0 => jobs'[calls[d].id].state = "none"
      BY <1>1, HeldIds
<1>5. InsertSound(c)' /\ FindsJob(c)'
      BY NothingFound
<1> QED BY <1>2, <1>3, <1>4, <1>5, WriteAgrees

\* send(), throttled or debounced.
LEMMA SendAgrees ==
    ASSUME IInv, AInv, NEW c \in Callers, SendInsert(c)
    PROVE  AInv'
<1>1. TypeOK /\ calls[c] \in CallRecords /\ jobs \in [Ids -> Rows]
      BY DEF IInv, TypeOK
<1>2. /\ calls[c].pc = "insert" /\ calls[c].req.kind \in {"send", "throttle", "debounce"} /\ FreshId # {}
      /\ policy' = policy
      BY DEF SendInsert
<1>3. calls[c].ins.state = "none" /\ calls[c].id = 0
      BY <1>2, OnlyCommitHolds, NoIdYet
<1>4. PICK row : row = NewRow(c)
      OBVIOUS
<1>5. row.state = "created" /\ ~row.byKey
      BY <1>2, <1>4, NewRowFields DEF Mark
<1>6. PICK f \in FreshId : f = Min(FreshId)
      BY <1>2, FreshIds
<1>7. CASE /\ jobs' = [jobs EXCEPT ![f] = row]
           /\ Put(c, Over([calls[c] EXCEPT !.answer = {f}], "done"))
      <2>1. PICK call : call = [calls[c] EXCEPT !.answer = {f}]
            OBVIOUS
      <2>2. call \in CallRecords /\ call.id = 0 /\ call.req = calls[c].req
            BY <1>1, <1>3, <2>1 DEF CallRecords, FreshId
      <2>3. PICK n : n = Over(call, "done")
            OBVIOUS
      <2>4. n.pc = "done" /\ n.req.kind # "upsert" /\ n.id = 0 /\ n.ins.state = "none"
            BY <1>2, <2>2, <2>3, OverFields
      <2>5. calls'[c] = n /\ \A d \in Callers \ {c} : calls'[d] = calls[d]
            BY <1>1, <1>7, <2>1, <2>3 DEF Put, TypeOK
      <2>6. jobs' = [j \in Ids |-> IF j \in {f} THEN row ELSE jobs[j]]
            BY <1>1, <1>7
      <2> QED BY <1>2, <1>5, <2>4, <2>5, <2>6, FreshAgrees
<1>8. CASE /\ UNCHANGED jobs
           /\ Put(c, IF calls[c].req.kind = "debounce" /\ ~calls[c].second
                     THEN [calls[c] EXCEPT !.pc = "debounce", !.refused = SlotAt(now)]
                     ELSE Over(calls[c], "done"))
      <2>1. PICK n : n = IF calls[c].req.kind = "debounce" /\ ~calls[c].second
                     THEN [calls[c] EXCEPT !.pc = "debounce", !.refused = SlotAt(now)]
                     ELSE Over(calls[c], "done")
            OBVIOUS
      <2>2. n.pc \in {"debounce", "done"} /\ n.req.kind # "upsert" /\ n.id = 0 /\ n.ins.state = "none"
            <3>1. CASE n = [calls[c] EXCEPT !.pc = "debounce", !.refused = SlotAt(now)]
                  BY <1>1, <1>2, <1>3, <3>1 DEF CallRecords
            <3>2. CASE n = Over(calls[c], "done")
                  BY <1>1, <1>2, <1>3, <3>2, OverFields
            <3> QED BY <2>1, <3>1, <3>2
      <2>3. calls'[c] = n /\ \A d \in Callers \ {c} : calls'[d] = calls[d]
            BY <1>1, <1>8, <2>1 DEF Put, TypeOK
      <2>4. InsertSound(c)' /\ FindsJob(c)'
            BY <2>2, <2>3, NothingFound
      <2> QED BY <1>2, <1>8, <2>2, <2>3, <2>4, QuietAgrees DEF Marked
<1> QED BY <1>4, <1>6, <1>7, <1>8 DEF SendInsert

\* insert().
LEMMA BatchAgrees ==
    ASSUME IInv, AInv, NEW c \in Callers, InsertBatch(c)
    PROVE  AInv'
<1>1. TypeOK /\ calls[c] \in CallRecords
      BY DEF IInv, TypeOK
<1>2. /\ calls[c].pc = "insert" /\ calls[c].req.kind = "insert" /\ policy' = policy
      BY DEF InsertBatch
<1>3. calls[c].id = 0
      BY <1>2, NoIdYet
<1>4. PICK row : row = NewRow(c)
      OBVIOUS
<1>5. row.state = "created" /\ ~row.byKey
      BY <1>2, <1>4, NewRowFields DEF Mark
<1>6. PICK F \in SUBSET FreshId :
          /\ jobs' = [j \in Ids |-> IF j \in F THEN row ELSE jobs[j]]
          /\ Put(c, Over([calls[c] EXCEPT !.answer = F], "done"))
      BY <1>4, BatchIds
<1>7. PICK call : call = [calls[c] EXCEPT !.answer = F]
      OBVIOUS
<1>8. call \in CallRecords /\ call.id = 0 /\ call.req = calls[c].req
      BY <1>1, <1>3, <1>7 DEF CallRecords, FreshId
<1>9. PICK n : n = Over(call, "done")
      OBVIOUS
<1>10. n.pc = "done" /\ n.req.kind # "upsert" /\ n.id = 0 /\ n.ins.state = "none"
      BY <1>2, <1>8, <1>9, OverFields
<1>11. calls'[c] = n /\ \A d \in Callers \ {c} : calls'[d] = calls[d]
      BY <1>1, <1>6, <1>7, <1>9 DEF Put, TypeOK
<1> QED BY <1>2, <1>5, <1>6, <1>10, <1>11, FreshAgrees

\* An edit is its caller's, and touches nothing that marks the row.
LEMMA EditedFields ==
    ASSUME NEW row \in Rows, NEW c \in Callers, NEW r
    PROVE  /\ Edited(row, c, r).state = row.state /\ Edited(row, c, r).byKey = row.byKey
           /\ Edited(row, c, r).keyed = row.keyed /\ Edited(row, c, r).data = c
<1>1. CASE r.start = -1
      BY <1>1 DEF Edited, Rows
<1>2. CASE r.start # -1
      BY <1>2 DEF Edited, Rows
<1> QED BY <1>1, <1>2

\* update() writes to the rows that still wait; upsert() holds them, in its second round
\* the one it found unless a job was claimed.
LEMMA ApplyAgrees ==
    ASSUME IInv, AInv, NEW c \in Callers, Apply(c)
    PROVE  AInv'
<1>1. TypeOK /\ calls[c] \in CallRecords /\ jobs \in [Ids -> Rows]
      BY DEF IInv, TypeOK
<1>2. PICK T : T = StillWaiting(calls[c].target)
      OBVIOUS
<1>3. T \subseteq Ids /\ T = {j \in calls[c].target : Waiting(j)}
      BY <1>1, <1>2 DEF StillWaiting, CallRecords
<1>4. calls[c].pc = "apply" /\ policy' = policy
      BY DEF Apply
<1>5. calls[c].ins.state = "none" /\ calls[c].id = 0
      BY <1>4, OnlyCommitHolds, NoIdYet
<1>6. CASE calls[c].req.kind = "update"
      <2>1. PICK call : call = [calls[c] EXCEPT !.answer = T]
            OBVIOUS
      <2>2. call \in CallRecords /\ call.id = 0 /\ call.req = calls[c].req
            BY <1>1, <1>3, <1>5, <2>1 DEF CallRecords
      <2>3. PICK n : n = Over(call, "done")
            OBVIOUS
      <2>4. n.pc = "done" /\ n.req.kind = "update" /\ n.id = 0 /\ n.ins.state = "none"
            BY <1>6, <2>2, <2>3, OverFields
      <2>5. /\ Put(c, n)
            /\ jobs' = [j \in Ids |-> IF j \in T THEN Edited(jobs[j], c, calls[c].req) ELSE jobs[j]]
            BY <1>2, <1>6, <2>1, <2>3 DEF Apply
      <2>6. calls'[c] = n /\ \A d \in Callers \ {c} : calls'[d] = calls[d]
            BY <1>1, <2>5 DEF Put, TypeOK
      <2>7. \A j \in Ids : /\ jobs'[j].state = jobs[j].state /\ jobs'[j].byKey = jobs[j].byKey
                           /\ jobs'[j].keyed = jobs[j].keyed
            BY <1>1, <2>5, EditedFields
      <2>8. RowsLast /\ WaitingStays
            BY <2>7 DEF RowsLast, WaitingStays, Waiting
      <2>9. InsertSound(c)' /\ FindsJob(c)'
            BY <2>4, <2>6, NothingFound
      <2>10. \A j \in Ids : (Marked(jobs'[j]) => Marked(jobs[j])) /\ (jobs'[j].byKey => jobs'[j].keyed)
            BY <2>7 DEF Marked, AInv, MarksKeyed
      <2>11. \A d \in Callers \ {c} : calls[d].ins.state # "none" /\ calls[d].id # 0 => jobs'[calls[d].id].state = "none"
            BY <2>7, HeldIds
      <2> QED BY <1>4, <2>4, <2>6, <2>8, <2>9, <2>10, <2>11, WriteAgrees
<1>7. CASE calls[c].req.kind # "update"
      <2>1. PICK n : n = [calls[c] EXCEPT !.pc = IF T = {} /\ ~calls[c].second THEN "insert" ELSE "commit",
                                       !.edits = T, !.answer = T]
            OBVIOUS
      <2>2. /\ n.pc = IF T = {} /\ ~calls[c].second THEN "insert" ELSE "commit"
            /\ n.ins = calls[c].ins /\ n.id = calls[c].id /\ n.req = calls[c].req /\ n.answer = T
            /\ n.claimed = calls[c].claimed
            BY <1>1, <2>1 DEF CallRecords
      <2>3. Put(c, n) /\ UNCHANGED jobs
            BY <1>2, <1>7, <2>1 DEF Apply
      <2>4. calls'[c] = n /\ \A d \in Callers \ {c} : calls'[d] = calls[d]
            BY <1>1, <2>3 DEF Put, TypeOK
      <2>5. ASSUME calls[c].req.kind = "upsert", calls[c].req.by = "key", ~calls[c].claimed,
                   policy # "exclusive", n.pc = "commit"
            PROVE  T # {}
            <3>1. CASE calls[c].second
                  BY <1>3, <1>4, <2>5, <3>1 DEF AInv, FindsJob
            <3>2. CASE ~calls[c].second
                  BY <2>2, <2>5, <3>2
            <3> QED BY <3>1, <3>2
      <2>6. InsertSound(c)' /\ FindsJob(c)'
            BY <1>4, <1>5, <2>2, <2>4, <2>5 DEF InsertSound, FindsJob
      <2> QED BY <1>4, <1>5, <2>2, <2>3, <2>4, <2>6, QuietAgrees DEF Marked
<1> QED BY <1>6, <1>7

\* upsert()'s insert: the only row of the key that waits, or there is one to find.
LEMMA UpsertInsertAgrees ==
    ASSUME IInv, AInv, NEW c \in Callers, UpsertInsert(c)
    PROVE  AInv'
<1>1. TypeOK /\ calls[c] \in CallRecords
      BY DEF IInv, TypeOK
<1>2. /\ calls[c].pc = "insert" /\ (calls[c].req.by = "id" \/ FreshId # {}) /\ calls[c].req.kind = "upsert"
      /\ UNCHANGED <<policy, serializable, now, jobs, faults>>
      BY DEF UpsertInsert
<1>3. calls[c].ins.state = "none" /\ calls[c].id = 0
      BY <1>2, OnlyCommitHolds, NoIdYet
<1>4. PICK row : row = NewRow(c)
      OBVIOUS
<1>5. /\ row.state = "created" /\ row.data = c /\ row.slot = NoSlot
      /\ row.byKey = (calls[c].req.by = "key") /\ row.keyed = (calls[c].req.by = "key")
      BY <1>2, <1>4, NewRowFields DEF Mark
<1>6. PICK id : id = IdFor(c)
      OBVIOUS
<1>7. CASE Meets(row, id)
      <2>1. PICK n : n = [calls[c] EXCEPT !.pc = "select", !.second = TRUE]
            OBVIOUS
      <2>2. n.pc = "select" /\ n.ins = calls[c].ins /\ n.id = 0 /\ n.req = calls[c].req /\ n.claimed = calls[c].claimed
            BY <1>1, <1>3, <2>1 DEF CallRecords
      <2>3. Put(c, n)
            BY <1>4, <1>6, <1>7, <2>1 DEF UpsertInsert
      <2>4. calls'[c] = n /\ \A d \in Callers \ {c} : calls'[d] = calls[d]
            BY <1>1, <2>3 DEF Put, TypeOK
      <2>5. ASSUME calls[c].req.by = "key", policy # "exclusive"
            PROVE  \E j \in Ids : Waiting(j) /\ jobs[j].keyed
            <3>1. id \in FreshId
                  BY <1>2, <1>6, <2>5, FreshIds DEF IdFor
            <3>2. PICK j \in Ids : There(j) /\ Collide(jobs[j], row)
                  BY <1>7, <3>1 DEF Meets, There, FreshId
            <3>3. jobs[j].state = "created" /\ jobs[j].keyed
                  BY <1>5, <2>5, <3>2 DEF Collide, AInv, MarksKeyed
            <3> QED BY <3>3 DEF Waiting
      <2>6. InsertSound(c)' /\ FindsJob(c)'
            BY <1>2, <1>3, <2>2, <2>4, <2>5 DEF InsertSound, FindsJob, Waiting
      <2> QED BY <1>2, <1>3, <2>2, <2>4, <2>6, QuietAgrees DEF Marked
<1>8. CASE ~Meets(row, id)
      <2>1. PICK n : n = [calls[c] EXCEPT !.pc = "commit", !.ins = row, !.id = id, !.answer = {id}]
            OBVIOUS
      <2>2. /\ n.pc = "commit" /\ n.ins = row /\ n.id = id /\ n.req = calls[c].req
            /\ n.claimed = calls[c].claimed /\ n.answer = {id}
            BY <1>1, <2>1 DEF CallRecords
      <2>3. Put(c, n)
            BY <1>4, <1>6, <1>8, <2>1 DEF UpsertInsert
      <2>4. calls'[c] = n /\ \A d \in Callers \ {c} : calls'[d] = calls[d]
            BY <1>1, <2>3 DEF Put, TypeOK
      <2>5. ~Blocked(c, row, id)
            BY <1>4, <1>6 DEF UpsertInsert
      <2>6. id # 0 => Marked(row) /\ jobs[id].state = "none"
            <3>1. CASE calls[c].req.by = "id"
                  BY <1>6, <3>1 DEF IdFor
            <3>2. CASE calls[c].req.by # "id"
                  <4>1. calls[c].req.by = "key"
                        BY <1>1, <3>2 DEF CallRecords
                  <4>2. id \in FreshId
                        BY <1>2, <1>6, <3>2, FreshIds DEF IdFor
                  <4> QED BY <1>5, <4>1, <4>2 DEF Marked, FreshId
            <3> QED BY <3>1, <3>2
      <2>7. InsertSound(c)' /\ FindsJob(c)'
            BY <1>2, <1>5, <2>2, <2>4, <2>6 DEF InsertSound, FindsJob
      <2>8. ASSUME Marked(row)
            PROVE  /\ \A j \in Ids : ~Marked(jobs[j])
                   /\ \A d \in Callers \ {c} : ~Marked(calls[d].ins)
            <3>1. \A j \in Ids : ~Marked(jobs[j])
                  BY <1>8, <2>8 DEF Meets, Collide, Marked, There
            <3>2. \A d \in Callers \ {c} : ~Marked(calls[d].ins)
                  BY <2>5, <2>8 DEF Blocked, Collide, Marked
            <3> QED BY <3>1, <3>2
      <2> QED BY <1>2, <2>2, <2>4, <2>7, <2>8, QuietAgrees
<1> QED BY <1>7, <1>8

\* The end of upsert()'s transaction: its mark goes from the call to the table.
LEMMA CommitAgrees ==
    ASSUME IInv, AInv, NEW c \in Callers, Commit(c)
    PROVE  AInv'
<1>1. TypeOK /\ calls[c] \in CallRecords /\ jobs \in [Ids -> Rows] /\ Pending(calls[c])
      BY DEF IInv, TypeOK
<1>2. PICK call \in CallRecords : call = calls[c]
      BY <1>1
<1>3. /\ jobs' = [j \in Ids |-> IF call.ins.state # "none" /\ j = call.id THEN call.ins
                                ELSE IF j \in call.edits THEN Edited(jobs[j], c, call.req) ELSE jobs[j]]
      /\ calls' = [d \in Callers |-> IF d = c THEN Over(call, "done")
                                     ELSE [calls[d] EXCEPT !.stale = @ \/ InTx(d)]]
      /\ policy' = policy /\ call.pc = "commit"
      BY <1>2 DEF Commit
<1>4. /\ call.ins.state # "none" => /\ jobs[call.id].state \in {"none", "swept"} /\ call.id \in Ids
                                    /\ call.ins.state = "created" /\ (call.ins.byKey => call.ins.keyed)
      /\ call.id # 0 => Marked(call.ins) /\ jobs[call.id].state = "none"
      /\ call.id \in Ids
      BY <1>1, <1>2, <1>3 DEF Pending, CallRecords, AInv, InsertSound
<1>5. ASSUME NEW j \in Ids, ~(call.ins.state # "none" /\ j = call.id)
      PROVE  /\ jobs'[j].state = jobs[j].state /\ jobs'[j].byKey = jobs[j].byKey
             /\ jobs'[j].keyed = jobs[j].keyed
      <2>1. CASE j \in call.edits
            <3>1. jobs'[j] = Edited(jobs[j], c, call.req)
                  BY <1>3, <1>5, <2>1
            <3> QED BY <1>1, <3>1, EditedFields
      <2>2. CASE j \notin call.edits
            BY <1>3, <1>5, <2>2
      <2> QED BY <2>1, <2>2
<1>6. call.ins.state # "none" => jobs'[call.id] = call.ins
      BY <1>3, <1>4
<1>7. ASSUME NEW d \in Callers \ {c}
      PROVE  /\ calls'[d].ins = calls[d].ins /\ calls'[d].id = calls[d].id
             /\ calls'[d].pc = calls[d].pc /\ calls'[d].req = calls[d].req /\ calls'[d].second = calls[d].second
             /\ calls'[d].answer = calls[d].answer /\ calls'[d].target = calls[d].target
             /\ calls'[d].claimed = calls[d].claimed
      <2>1. PICK old \in CallRecords : old = calls[d]
            BY <1>1 DEF TypeOK
      <2>2. calls'[d] = [old EXCEPT !.stale = @ \/ InTx(d)]
            BY <1>3, <2>1
      <2> QED BY <2>1, <2>2 DEF CallRecords
<1>8. /\ calls'[c].pc = "done" /\ calls'[c].id = call.id /\ calls'[c].answer = call.answer
      /\ calls'[c].req.kind = call.req.kind /\ calls'[c].req.by = call.req.by
      /\ calls'[c].claimed = call.claimed /\ calls'[c].ins.state = "none"
      <2>1. calls'[c] = Over(call, "done")
            BY <1>3
      <2> QED BY <2>1, OverFields
<1>9. \A j \in Ids : Marked(jobs'[j]) => \/ Marked(jobs[j])
                                         \/ call.ins.state # "none" /\ j = call.id /\ Marked(call.ins)
      BY <1>5, <1>6 DEF Marked
<1>10. OneMark'
      <2>1. \A i, j \in Ids : Marked(jobs'[i]) /\ Marked(jobs'[j]) => i = j
            BY <1>2, <1>9 DEF AInv, OneMark
      <2>2. \A d \in Callers, j \in Ids : Marked(calls'[d].ins) => ~Marked(jobs'[j])
            <3>1. ASSUME NEW d \in Callers, NEW j \in Ids, Marked(calls'[d].ins), Marked(jobs'[j])
                  PROVE  FALSE
                  <4>1. d # c
                        BY <1>8, <3>1 DEF Marked
                  <4>2. Marked(calls[d].ins)
                        BY <1>7, <3>1, <4>1
                  <4> QED BY <1>2, <1>9, <3>1, <4>1, <4>2 DEF AInv, OneMark
            <3> QED BY <3>1
      <2>3. \A d, e \in Callers : Marked(calls'[d].ins) /\ Marked(calls'[e].ins) => d = e
            <3>1. \A d \in Callers : Marked(calls'[d].ins) => Marked(calls[d].ins)
                  BY <1>7, <1>8 DEF Marked
            <3> QED BY <3>1 DEF AInv, OneMark
      <2> QED BY <2>1, <2>2, <2>3 DEF OneMark
<1>11. MarksKeyed'
      BY <1>4, <1>5, <1>6 DEF AInv, MarksKeyed
<1>12. RowsLast
      BY <1>4, <1>5 DEF RowsLast
<1>13. WaitingStays
      BY <1>4, <1>5 DEF WaitingStays, Waiting
<1>14. ASSUME NEW d \in Callers \ {c}
       PROVE  InsertSound(d)' /\ FindsJob(d)'
      <2>1. calls[d].id # 0 /\ calls[d].pc = "commit" => jobs'[calls[d].id].state = "none"
            <3>1. SUFFICES ASSUME calls[d].id # 0, calls[d].pc = "commit"
                           PROVE  jobs'[calls[d].id].state = "none"
                  OBVIOUS
            <3>2. Marked(calls[d].ins) /\ jobs[calls[d].id].state = "none" /\ calls[d].id \in Ids
                  BY <1>1, <3>1 DEF AInv, InsertSound, TypeOK, CallRecords
            <3>3. ~(call.ins.state # "none" /\ calls[d].id = call.id)
                  BY <1>2, <3>2 DEF IInv, PendingApart, Marked
            <3> QED BY <1>5, <3>2, <3>3
      <2>2. InsertSound(d) /\ FindsJob(d) /\ TypeOK
            BY <1>1 DEF AInv
      <2> QED BY <1>3, <1>7, <1>12, <1>13, <2>1, <2>2, CallStays
<1>15. InsertSound(c)'
      BY <1>4, <1>6, <1>8 DEF InsertSound, Marked
<1>16. FindsJob(c)'
      BY <1>2, <1>3, <1>8 DEF FindsJob, AInv
<1>17. InsertsApart'
      <2>1. ASSUME NEW d \in Callers, calls[d].pc = "done", call.id # 0, calls[d].id = call.id
            PROVE  FALSE
            BY <1>4, <2>1 DEF AInv, InsertSound
      <2>2. \A d \in Callers \ {c} : ~(calls'[d].pc = "done" /\ call.id # 0 /\ calls'[d].id = call.id)
            BY <1>7, <2>1
      <2> QED BY <1>7, <1>8, <2>2 DEF AInv, InsertsApart
<1> QED BY <1>10, <1>11, <1>14, <1>15, <1>16, <1>17 DEF AInv

\* A transaction is lost, or runs again.
LEMMA LostAgrees ==
    ASSUME IInv, AInv, NEW c \in Callers, SerializationFails(c) \/ TxLost(c)
    PROVE  AInv'
<1>1. TypeOK /\ calls[c] \in CallRecords
      BY DEF IInv, TypeOK
<1>2. policy' = policy /\ jobs' = jobs
      BY DEF SerializationFails, TxLost
<1>3. PICK lost : lost = Abandoned(calls[c])
      OBVIOUS
<1>4. lost \in CallRecords /\ lost.id = 0 /\ lost.ins.state = "none"
      BY <1>1, <1>3, AbandonedFields
<1>5. PICK n : /\ Put(c, n)
               /\ \/ n = Over(lost, "failed")
                  \/ n = [lost EXCEPT !.pc = "select", !.attempts = @ + 1, !.stale = FALSE,
                                      !.second = FALSE, !.began = now]
      BY <1>3 DEF SerializationFails, TxLost
<1>6. n.id = 0 /\ n.ins.state = "none" /\ (n.pc = "failed" \/ (n.pc = "select" /\ ~n.second))
      <2>1. CASE n = Over(lost, "failed")
            BY <1>4, <2>1, OverFields
      <2>2. CASE n = [lost EXCEPT !.pc = "select", !.attempts = @ + 1, !.stale = FALSE,
                                  !.second = FALSE, !.began = now]
            BY <1>4, <2>2 DEF CallRecords
      <2> QED BY <1>5, <2>1, <2>2
<1>7. calls'[c] = n /\ \A d \in Callers \ {c} : calls'[d] = calls[d]
      BY <1>1, <1>5 DEF Put, TypeOK
<1>8. InsertSound(c)' /\ FindsJob(c)'
      BY <1>6, <1>7, NothingFound
<1> QED BY <1>2, <1>6, <1>7, <1>8, QuietAgrees DEF Marked

\* fetchNextJob, the settles and the sweep: the upserts under way see a waiting job go.
LEMMA TableAgrees ==
    ASSUME IInv, AInv, NEW j \in Ids, Fetch(j) \/ Settle(j) \/ Sweep(j)
    PROVE  AInv'
<1>1. TypeOK /\ jobs \in [Ids -> Rows]
      BY DEF IInv, TypeOK
<1>2. PICK row \in Rows :
          /\ jobs' = [jobs EXCEPT ![j] = row] /\ row.state \in {"active", "completed", "retry", "swept"}
          /\ row.byKey = jobs[j].byKey /\ row.keyed = jobs[j].keyed
          /\ (Seen \/ (calls' = calls /\ ~Waiting(j))) /\ jobs[j].state \notin {"none", "swept"}
      <2>1. CASE Fetch(j) \/ Sweep(j)
            <3>1. PICK s \in {"active", "swept"} : SetState(j, s)
                  BY <2>1 DEF Fetch, Sweep
            <3> QED BY <1>1, <2>1, <3>1, StateFields DEF Fetch, Sweep, Waiting
      <2>2. CASE Settle(j)
            <3>1. CASE SetState(j, "completed")
                  BY <1>1, <2>2, <3>1, StateFields DEF Settle, Waiting
            <3>2. ASSUME NEW delay \in RetryDelays, jobs' = [jobs EXCEPT ![j] = Retried(@, now + delay)]
                  PROVE  \E row \in Rows :
                            /\ jobs' = [jobs EXCEPT ![j] = row] /\ row.state = "retry"
                            /\ row.byKey = jobs[j].byKey /\ row.keyed = jobs[j].keyed
                  BY <1>1, <3>2, RetryFields
            <3> QED BY <2>2, <3>1, <3>2 DEF Settle, Waiting
      <2> QED BY <2>1, <2>2
<1>3. policy' = policy
      BY DEF Fetch, Settle, Sweep
<1>4. /\ jobs'[j].state = row.state /\ jobs'[j].byKey = jobs[j].byKey /\ jobs'[j].keyed = jobs[j].keyed
      /\ \A i \in Ids \ {j} : jobs'[i] = jobs[i]
      BY <1>1, <1>2
<1>5. ASSUME NEW d \in Callers
      PROVE  /\ calls'[d].ins = calls[d].ins /\ calls'[d].id = calls[d].id
             /\ calls'[d].pc = calls[d].pc /\ calls'[d].req = calls[d].req /\ calls'[d].second = calls[d].second
             /\ calls'[d].answer = calls[d].answer /\ calls'[d].target = calls[d].target
             /\ calls[d].claimed => calls'[d].claimed
             /\ Seen => (Busy(d) /\ calls[d].req.kind = "upsert" => calls'[d].claimed)
      <2>1. PICK old \in CallRecords : old = calls[d]
            BY <1>1 DEF TypeOK
      <2>2. CASE Seen
            <3>1. PICK b : b = (old.claimed \/ (Busy(d) /\ calls[d].req.kind = "upsert"))
                  OBVIOUS
            <3>2. calls'[d] = [old EXCEPT !.claimed = b]
                  BY <2>1, <2>2, <3>1 DEF Seen
            <3>3. calls'[d].claimed = b
                  BY <3>2 DEF CallRecords
            <3>4. /\ calls[d].claimed => calls'[d].claimed
                  /\ Busy(d) /\ calls[d].req.kind = "upsert" => calls'[d].claimed
                  BY <2>1, <3>1, <3>3
            <3> QED BY <2>1, <3>2, <3>4 DEF CallRecords
      <2>3. CASE ~Seen
            BY <1>2, <2>3
      <2> QED BY <2>2, <2>3
<1>6. \A i \in Ids : /\ Marked(jobs'[i]) => Marked(jobs[i])
                     /\ jobs'[i].byKey = jobs[i].byKey /\ jobs'[i].keyed = jobs[i].keyed
      BY <1>2, <1>4 DEF Marked
<1>7. OneMark' /\ MarksKeyed' /\ InsertsApart'
      BY <1>5, <1>6 DEF AInv, OneMark, MarksKeyed, InsertsApart
<1>8. RowsLast
      BY <1>2, <1>4 DEF RowsLast
<1>9. Seen \/ WaitingStays
      BY <1>2, <1>4 DEF WaitingStays, Waiting
<1>10. ASSUME NEW d \in Callers
       PROVE  InsertSound(d)' /\ FindsJob(d)'
      <2>1. calls[d].id # 0 /\ calls[d].pc = "commit" => jobs'[calls[d].id].state = "none"
            <3>1. calls[d].id # 0 /\ calls[d].pc = "commit" => jobs[calls[d].id].state = "none"
                  BY DEF AInv, InsertSound
            <3>2. calls[d].id \in Ids
                  BY <1>1 DEF TypeOK, CallRecords
            <3> QED BY <1>2, <1>4, <3>1, <3>2
      <2>2. InsertSound(d) /\ FindsJob(d)
            BY DEF AInv
      <2>3. WaitingStays \/ (Busy(d) /\ calls[d].req.kind = "upsert" => calls'[d].claimed)
            BY <1>5, <1>9
      <2> QED BY <1>1, <1>3, <1>5, <1>8, <2>1, <2>2, <2>3, CallStays
<1> QED BY <1>7, <1>10 DEF AInv

\* Every step keeps what the calls agree on.
LEMMA NextAgrees == IInv /\ AInv /\ [Next]_vars => AInv'
<1> SUFFICES ASSUME IInv, AInv, [Next]_vars PROVE AInv'
    OBVIOUS
<1>1. ASSUME NEW c \in Callers,
             \/ \E r \in Requests : Begin(c, r)
             \/ SendInsert(c) \/ InsertBatch(c) \/ \E e \in ClockErrors : Debounce(c, e)
             \/ Select(c) \/ Apply(c) \/ UpsertInsert(c) \/ Commit(c)
             \/ SerializationFails(c) \/ TxLost(c)
      PROVE  AInv'
      BY <1>1, BeginAgrees, SendAgrees, BatchAgrees, DebounceAgrees, SelectAgrees, ApplyAgrees,
         UpsertInsertAgrees, CommitAgrees, LostAgrees
<1>2. ASSUME NEW j \in Ids, Fetch(j) \/ Settle(j) \/ Sweep(j)
      PROVE  AInv'
      BY <1>2, TableAgrees
<1>3. CASE Tick \/ UNCHANGED vars
      <2>1. policy' = policy /\ jobs' = jobs /\ calls' = calls
            BY <1>3 DEF Tick, vars
      <2>2. OneMark' /\ MarksKeyed' /\ InsertsApart'
            BY <2>1 DEF AInv, OneMark, MarksKeyed, InsertsApart
      <2>3. \A c \in Callers : InsertSound(c)' /\ FindsJob(c)'
            BY <2>1 DEF AInv, InsertSound, FindsJob, Waiting
      <2> QED BY <2>2, <2>3 DEF AInv
<1> QED BY <1>1, <1>2, <1>3 DEF Next

\* No call has begun.
LEMMA InitiallyAgrees == Init => AInv
<1> SUFFICES ASSUME Init PROVE AInv
    OBVIOUS
<1>1. \A c \in Callers : calls[c] = Idle
      BY DEF Init
<1>2. /\ Idle.ins.state = "none" /\ Idle.pc = "idle" /\ Idle.id = 0 /\ ~Idle.second
      BY DEF Idle, NoRow, Row
<1>3. PICK s \in {"none", "created", "active"} :
          jobs = [[j \in Ids |-> NoRow] EXCEPT ![1] =
                    IF s = "none" THEN @ ELSE Row(s, TRUE, FALSE, NoSlot, 0, Retention, NoCaller, 0)]
      BY DEF Init
<1>4. \A j \in Ids : ~jobs[j].byKey
      <2>1. ~NoRow.byKey /\ ~Row(s, TRUE, FALSE, NoSlot, 0, Retention, NoCaller, 0).byKey
            BY DEF NoRow, Row
      <2>2. \A j \in Ids : jobs[j] = NoRow \/ jobs[j] = Row(s, TRUE, FALSE, NoSlot, 0, Retention, NoCaller, 0)
            BY <1>3
      <2> QED BY <2>1, <2>2
<1>5. OneMark /\ MarksKeyed /\ InsertsApart
      BY <1>1, <1>2, <1>4 DEF OneMark, MarksKeyed, InsertsApart, Marked
<1>6. \A c \in Callers : InsertSound(c) /\ FindsJob(c)
      BY <1>1, <1>2 DEF InsertSound, FindsJob
<1> QED BY <1>5, <1>6 DEF AInv

\* What the invariant says of two upserts of one key, and of one that did nothing.
LEMMA AgreedUpserts == IInv /\ AInv => UpsertsAgree
<1> SUFFICES ASSUME IInv, AInv PROVE UpsertsAgree
    OBVIOUS
<1>1. \A c \in Callers : calls[c].id \in Ids
      BY DEF IInv, TypeOK, CallRecords
<1>2. ASSUME NEW c \in Callers, NEW d \in Callers, c # d, Upserted(c), Upserted(d),
             calls[c].id # 0, jobs[calls[c].id].state = "created",
             calls[d].id # 0, jobs[calls[d].id].state = "created"
      PROVE  FALSE
      <2>1. Marked(jobs[calls[c].id]) /\ Marked(jobs[calls[d].id])
            BY <1>2 DEF Upserted, AInv, InsertSound, Marked
      <2>2. calls[c].id = calls[d].id
            BY <1>1, <1>2, <2>1 DEF AInv, OneMark
      <2> QED BY <1>2, <2>2 DEF Upserted, AInv, InsertsApart
<1>3. \A c \in Callers : Upserted(c) /\ calls[c].req.by = "key" /\ calls[c].answer = {}
                           => calls[c].claimed \/ policy = "exclusive"
      BY DEF Upserted, AInv, FindsJob
<1> QED BY <1>2, <1>3 DEF UpsertsAgree

-----------------------------------------------------------------------------
(* What a refused debounce comes to *)

\* A debounced send past its refusal: its delay goes past the refused slot.
PastRefusal(c) ==
    /\ calls[c].pc = "idle" => calls[c].answer = {}
    /\ calls[c].req.kind = "debounce" =>
        /\ calls[c].pc \in {"insert", "debounce", "done"}
        /\ calls[c].pc # "done" => calls[c].answer = {}
        /\ calls[c].pc = "debounce" => calls[c].refused <= SlotAt(now)
        /\ calls[c].pc = "insert" /\ calls[c].second =>
              /\ calls[c].refused <= SlotAt(now) /\ calls[c].after >= 1
              /\ calls[c].timely => now + calls[c].after >= calls[c].refused + SingletonSeconds
        /\ calls[c].pc = "done" /\ calls[c].second =>
              \A j \in calls[c].answer : jobs[j].data = c => AfterRefusal(calls[c], jobs[j])

\* A row that names a caller is as that caller left it, or put off.
Untouched(d) ==
    \A j \in Ids : jobs'[j].data = d =>
        /\ jobs[j].data = d /\ jobs'[j].slot = jobs[j].slot /\ jobs'[j].created = jobs[j].created
        /\ jobs'[j].start = jobs[j].start \/ jobs'[j].start >= jobs[j].start

\* A running job was started when it was due.
Begun == \A j \in Ids : jobs[j].state = "active" => jobs[j].start <= now

\* The parts of a call that PastRefusal reads.
SameCall(d) ==
    /\ calls'[d].pc = calls[d].pc /\ calls'[d].req = calls[d].req /\ calls'[d].answer = calls[d].answer
    /\ calls'[d].second = calls[d].second /\ calls'[d].refused = calls[d].refused
    /\ calls'[d].after = calls[d].after /\ calls'[d].timely = calls[d].timely

\* A number of slots is a multiple of their length.
LEMMA Multiples ==
    ASSUME NEW m \in Int, NEW n \in Int, NEW k \in Nat \ {0}, m < n
    PROVE  m * k + k <= n * k
<1>1. PICK x \in Nat : n = m + 1 + x
      <2>1. n - m - 1 \in Nat /\ n = m + 1 + (n - m - 1)
            OBVIOUS
      <2> QED BY <2>1
<1>2. n * k = m * k + k + x * k
      BY <1>1
<1>3. x * k >= 0
      OBVIOUS
<1>4. m * k \in Int /\ x * k \in Int
      OBVIOUS
<1> QED BY <1>2, <1>3, <1>4

\* An instant lies in its slot.
LEMMA InSlot ==
    ASSUME NEW t \in Int
    PROVE  SlotAt(t) \in Int /\ SlotAt(t) <= t /\ t < SlotAt(t) + SingletonSeconds
<1>1. SingletonSeconds \in Nat \ {0}
      BY SendsAssumption
<1>2. t \div SingletonSeconds \in Int /\ t % SingletonSeconds \in 0 .. (SingletonSeconds - 1)
      BY <1>1
<1>3. t = SingletonSeconds * (t \div SingletonSeconds) + (t % SingletonSeconds)
      BY <1>1
<1>4. PICK q \in Int : q = t \div SingletonSeconds
      BY <1>2
<1>5. SlotAt(t) = q * SingletonSeconds /\ q * SingletonSeconds \in Int /\ t = q * SingletonSeconds + (t % SingletonSeconds)
      BY <1>1, <1>3, <1>4 DEF SlotAt
<1> QED BY <1>1, <1>2, <1>5

\* Slots follow time, and the next slot starts one length on.
LEMMA SlotsFollow ==
    ASSUME NEW s \in Int, NEW t \in Int, s <= t
    PROVE  SlotAt(s) <= SlotAt(t) /\ SlotAt(s + SingletonSeconds) > SlotAt(s)
<1>1. SingletonSeconds \in Nat \ {0}
      BY SendsAssumption
<1>2. /\ s \div SingletonSeconds \in Int /\ t \div SingletonSeconds \in Int
      /\ (s + SingletonSeconds) \div SingletonSeconds \in Int /\ s + SingletonSeconds \in Int
      BY <1>1
<1>3. PICK p \in Int, q \in Int, r \in Int :
          /\ p = s \div SingletonSeconds /\ q = t \div SingletonSeconds
          /\ r = (s + SingletonSeconds) \div SingletonSeconds
      BY <1>2
<1>4. /\ SlotAt(s) = p * SingletonSeconds /\ SlotAt(t) = q * SingletonSeconds
      /\ SlotAt(s + SingletonSeconds) = r * SingletonSeconds
      /\ p * SingletonSeconds \in Int /\ q * SingletonSeconds \in Int /\ r * SingletonSeconds \in Int
      BY <1>1, <1>3 DEF SlotAt
<1>5. q < p => q * SingletonSeconds + SingletonSeconds <= p * SingletonSeconds
      BY <1>1, Multiples
<1>6. ~(q < p)
      <2>1. PICK x \in Int, y \in Int : x = p * SingletonSeconds /\ y = q * SingletonSeconds
            BY <1>4
      <2>2. x <= s /\ t < y + SingletonSeconds
            BY <1>4, <2>1, InSlot
      <2>3. q < p => y + SingletonSeconds <= x
            BY <1>5, <2>1
      <2> QED BY <1>1, <2>2, <2>3
<1>7. p = q \/ p * SingletonSeconds + SingletonSeconds <= q * SingletonSeconds
      BY <1>1, <1>6, Multiples
<1>8. p * SingletonSeconds <= q * SingletonSeconds
      BY <1>1, <1>4, <1>7
<1>9. p * SingletonSeconds < r * SingletonSeconds
      BY <1>1, <1>2, <1>4, InSlot
<1> QED BY <1>4, <1>8, <1>9

\* getDebounceStartAfter is never at once, and reaches the end of a slot that its clock,
\* right, behind or up to a second ahead, is not before.
LEMMA DelayReaches ==
    ASSUME NEW t \in Int, NEW e \in Int, NEW r \in Int, r <= SlotAt(t)
    PROVE  /\ DebounceStartAfter(t + e) \in Int /\ DebounceStartAfter(t + e) >= 1
           /\ SlotAt(t + e) >= r /\ e <= 1 => t + DebounceStartAfter(t + e) >= r + SingletonSeconds
<1>1. SingletonSeconds \in Nat \ {0} /\ t + e \in Int
      BY SendsAssumption
<1>2. PICK s \in Int : s = SlotAt(t + e)
      BY <1>1, InSlot
<1>3. s <= t + e /\ t + e < s + SingletonSeconds
      BY <1>1, <1>2, InSlot
<1>4. PICK left : left = SingletonSeconds - ((t + e) - s)
      OBVIOUS
<1>5. left \in Int /\ left > 0
      BY <1>1, <1>3, <1>4
<1>6. DebounceStartAfter(t + e) = left + (IF SingletonSeconds > 1 THEN 1 ELSE 0)
      BY <1>2, <1>4, <1>5 DEF DebounceStartAfter
<1>7. CASE SingletonSeconds > 1
      BY <1>1, <1>2, <1>3, <1>4, <1>5, <1>6, <1>7
<1>8. CASE ~(SingletonSeconds > 1)
      <2>1. SingletonSeconds = 1 /\ left = 1
            BY <1>1, <1>3, <1>4, <1>5, <1>8
      <2>2. SlotAt(t) <= t /\ SlotAt(t) \in Int
            BY InSlot
      <2> QED BY <1>3, <1>6, <2>1, <2>2
<1> QED BY <1>7, <1>8

\* A step begins a job when it is due.
LEMMA NextBegins ==
    ASSUME IInv, AInv, Begun, IInv', [Next]_vars
    PROVE  Begun'
<1>1. TypeOK /\ jobs \in [Ids -> Rows] /\ now \in Int
      BY SendsAssumption DEF IInv, TypeOK
<1>2. jobs' \in [Ids -> Rows] /\ now' \in Int
      BY SendsAssumption DEF IInv, TypeOK
<1>3. ASSUME \A j \in Ids : jobs'[j].state = "active" =>
                  jobs'[j].start = jobs[j].start /\ (jobs[j].state = "active" \/ jobs[j].start <= now),
             now <= now'
      PROVE  Begun'
      <2> SUFFICES ASSUME NEW j \in Ids, jobs'[j].state = "active" PROVE jobs'[j].start <= now'
          BY DEF Begun
      <2>1. jobs[j].start <= now /\ jobs'[j].start = jobs[j].start
            BY <1>3 DEF Begun
      <2>2. jobs[j].start \in Int
            BY <1>1 DEF Rows
      <2> QED BY <1>1, <1>2, <1>3, <2>1, <2>2
<1>4. ASSUME \A j \in Ids : jobs'[j] = jobs[j] \/ jobs'[j].state # "active", now' = now
      PROVE  Begun'
      BY <1>1, <1>3, <1>4
<1>5. ASSUME NEW c \in Callers,
             \/ \E r \in Requests : Begin(c, r)
             \/ SendInsert(c) \/ InsertBatch(c) \/ \E e \in ClockErrors : Debounce(c, e)
             \/ Select(c) \/ Apply(c) \/ UpsertInsert(c) \/ Commit(c)
             \/ SerializationFails(c) \/ TxLost(c)
      PROVE  Begun'
      <2>1. CASE \/ \E r \in Requests : Begin(c, r)
                 \/ \E e \in ClockErrors : Debounce(c, e)
                 \/ Select(c) \/ UpsertInsert(c) \/ SerializationFails(c) \/ TxLost(c)
            <3>1. jobs' = jobs /\ now' = now
                  BY <2>1 DEF Begin, Debounce, Select, UpsertInsert, SerializationFails, TxLost
            <3> QED BY <1>4, <3>1
      <2>2. CASE SendInsert(c) \/ InsertBatch(c)
            <3>1. PICK row : row = NewRow(c)
                  OBVIOUS
            <3>2. row.state = "created"
                  BY <3>1, NewRowFields
            <3>3. now' = now /\ \A j \in Ids : jobs'[j] = jobs[j] \/ jobs'[j] = row
                  <4>1. CASE SendInsert(c)
                        <5>1. /\ jobs' = jobs \/ jobs' = [jobs EXCEPT ![Min(FreshId)] = row]
                              /\ now' = now
                              BY <3>1, <4>1 DEF SendInsert
                        <5> QED BY <1>1, <5>1
                  <4>2. CASE InsertBatch(c)
                        <5>1. PICK F \in SUBSET FreshId : jobs' = [j \in Ids |-> IF j \in F THEN row ELSE jobs[j]]
                              BY <3>1, <4>2, BatchIds
                        <5>2. now' = now
                              BY <4>2 DEF InsertBatch
                        <5> QED BY <5>1, <5>2
                  <4> QED BY <2>2, <4>1, <4>2
            <3> QED BY <1>4, <3>2, <3>3
      <2>3. CASE Apply(c)
            <3>1. /\ \/ jobs' = jobs
                     \/ jobs' = [j \in Ids |-> IF j \in StillWaiting(calls[c].target)
                                               THEN Edited(jobs[j], c, calls[c].req) ELSE jobs[j]]
                  /\ now' = now
                  BY <2>3 DEF Apply
            <3>2. \A j \in Ids : \/ jobs'[j] = jobs[j]
                                 \/ Waiting(j) /\ jobs'[j] = Edited(jobs[j], c, calls[c].req)
                  BY <3>1 DEF StillWaiting
            <3>3. \A j \in Ids : Edited(jobs[j], c, calls[c].req).state = jobs[j].state
                  BY <1>1, EditedFields
            <3> QED BY <1>4, <3>1, <3>2, <3>3 DEF Waiting
      <2>4. CASE Commit(c)
            <3>1. /\ jobs' = [j \in Ids |-> IF calls[c].ins.state # "none" /\ j = calls[c].id THEN calls[c].ins
                                            ELSE IF j \in calls[c].edits THEN Edited(jobs[j], c, calls[c].req)
                                            ELSE jobs[j]]
                  /\ now' = now
                  BY <2>4 DEF Commit
            <3>2. /\ \A j \in calls[c].edits : Waiting(j)
                  /\ calls[c].ins.state # "none" => calls[c].ins.state = "created"
                  BY DEF IInv, Pending
            <3>3. \A j \in Ids : Edited(jobs[j], c, calls[c].req).state = jobs[j].state
                  BY <1>1, EditedFields
            <3>4. \A j \in Ids : \/ jobs'[j] = jobs[j]
                                 \/ Waiting(j) /\ jobs'[j] = Edited(jobs[j], c, calls[c].req)
                                 \/ jobs'[j] = calls[c].ins /\ calls[c].ins.state = "created"
                  BY <3>1, <3>2
            <3> QED BY <1>4, <3>1, <3>3, <3>4 DEF Waiting
      <2> QED BY <1>5, <2>1, <2>2, <2>3, <2>4
<1>6. ASSUME NEW j \in Ids, Fetch(j) \/ Settle(j) \/ Sweep(j)
      PROVE  Begun'
      <2>1. now' = now
            BY <1>6 DEF Fetch, Settle, Sweep
      <2>2. CASE Fetch(j)
            <3>1. PICK row \in Rows : jobs' = [jobs EXCEPT ![j] = row] /\ row.start = jobs[j].start
                  BY <1>1, <2>2, StateFields DEF Fetch
            <3>2. jobs[j].start <= now
                  BY <2>2 DEF Fetch
            <3>3. jobs'[j] = row /\ \A i \in Ids \ {j} : jobs'[i] = jobs[i]
                  BY <1>1, <3>1
            <3> QED BY <1>1, <1>3, <2>1, <3>1, <3>2, <3>3
      <2>3. CASE Settle(j) \/ Sweep(j)
            <3>1. PICK row \in Rows : jobs' = [jobs EXCEPT ![j] = row] /\ row.state # "active"
                  <4>1. ASSUME NEW s \in {"completed", "swept"}, SetState(j, s)
                        PROVE  \E row \in Rows : jobs' = [jobs EXCEPT ![j] = row] /\ row.state # "active"
                        BY <1>1, <4>1, StateFields
                  <4>2. ASSUME NEW delay \in RetryDelays, jobs' = [jobs EXCEPT ![j] = Retried(@, now + delay)]
                        PROVE  \E row \in Rows : jobs' = [jobs EXCEPT ![j] = row] /\ row.state # "active"
                        <5>1. PICK row \in Rows : jobs' = [jobs EXCEPT ![j] = row] /\ row.state = "retry"
                              BY <1>1, <4>2, RetryFields
                        <5> QED BY <5>1
                  <4> QED BY <2>3, <4>1, <4>2 DEF Settle, Sweep
            <3>2. jobs'[j] = row /\ \A i \in Ids \ {j} : jobs'[i] = jobs[i]
                  BY <1>1, <3>1
            <3> QED BY <1>4, <2>1, <3>1, <3>2
      <2> QED BY <1>6, <2>2, <2>3
<1>7. CASE Tick \/ UNCHANGED vars
      <2>1. jobs' = jobs /\ now <= now'
            BY <1>1, <1>7 DEF Tick, vars
      <2> QED BY <1>3, <2>1 DEF Begun
<1> QED BY <1>5, <1>6, <1>7 DEF Next

\* What a refused debounce has come to stays when others move and time passes.
LEMMA RefusalStays ==
    ASSUME IInv, IInv', NEW d \in Callers, PastRefusal(d), SameCall(d), Untouched(d), now' >= now
    PROVE  PastRefusal(d)'
<1>1. /\ now \in Int /\ calls[d].answer \subseteq Ids /\ calls[d].after \in Int /\ calls[d].refused \in Int
      /\ now' \in Int
      BY SendsAssumption DEF IInv, TypeOK, CallRecords
<1>2. SlotAt(now) <= SlotAt(now)' /\ SlotAt(now) \in Int /\ SlotAt(now)' \in Int
      <2>1. PICK n \in Int : n = now' /\ now <= n
            BY <1>1
      <2>2. SlotAt(now) <= SlotAt(n) /\ SlotAt(now) \in Int /\ SlotAt(n) \in Int
            BY <1>1, <2>1, SlotsFollow, InSlot
      <2> QED BY <2>1, <2>2 DEF SlotAt
<1>3. SingletonSeconds \in Nat
      BY SendsAssumption
<1>4. ASSUME calls[d].refused <= SlotAt(now)
      PROVE  calls[d].refused <= SlotAt(now)'
      BY <1>1, <1>2, <1>4
<1>5. ASSUME now + calls[d].after >= calls[d].refused + SingletonSeconds
      PROVE  now' + calls[d].after >= calls[d].refused + SingletonSeconds
      BY <1>1, <1>3, <1>5
<1>6. ASSUME NEW j \in Ids, jobs'[j].data = d, jobs[j].data = d => AfterRefusal(calls[d], jobs[j])
      PROVE  AfterRefusal(calls[d], jobs[j])'
      <2>1. /\ jobs[j].data = d /\ jobs'[j].slot = jobs[j].slot /\ jobs'[j].created = jobs[j].created
            /\ jobs'[j].start >= jobs[j].start
            <3>1. jobs[j].start \in Int
                  BY DEF IInv, TypeOK, Rows
            <3> QED BY <1>6, <3>1 DEF Untouched
      <2>2. jobs[j].start \in Int /\ jobs'[j].start \in Int /\ jobs[j].created \in Int
            BY DEF IInv, TypeOK, Rows
      <2>3. calls'[d].refused = calls[d].refused /\ calls'[d].timely = calls[d].timely
            BY DEF SameCall
      <2>4. PICK a \in Int, b \in Int : a = jobs[j].start /\ b = jobs'[j].start
            BY <2>2
      <2> QED BY <1>1, <1>3, <1>6, <2>1, <2>2, <2>3, <2>4 DEF AfterRefusal
<1>7. calls[d].req.kind = "debounce" /\ calls[d].pc = "done" /\ calls[d].second =>
          \A j \in calls[d].answer : jobs'[j].data = d => AfterRefusal(calls[d], jobs[j])'
      BY <1>1, <1>6 DEF PastRefusal
<1> QED BY <1>1, <1>4, <1>5, <1>7 DEF PastRefusal, SameCall

\* A call that moves leaves the others and their rows alone.
LEMMA OthersUntouched ==
    ASSUME IInv, AInv, NEW c \in Callers,
           \/ \E r \in Requests : Begin(c, r)
           \/ SendInsert(c) \/ InsertBatch(c) \/ \E e \in ClockErrors : Debounce(c, e)
           \/ Select(c) \/ Apply(c) \/ UpsertInsert(c) \/ Commit(c)
           \/ SerializationFails(c) \/ TxLost(c),
           NEW d \in Callers \ {c}
    PROVE  SameCall(d) /\ Untouched(d) /\ now' = now
<1>1. TypeOK /\ calls[c] \in CallRecords /\ calls[d] \in CallRecords /\ jobs \in [Ids -> Rows]
      BY DEF IInv, TypeOK
<1>2. ASSUME NEW n, Put(c, n)
      PROVE  SameCall(d)
      BY <1>1, <1>2 DEF Put, TypeOK, SameCall
<1>3. ASSUME jobs' = jobs
      PROVE  Untouched(d)
      BY <1>3 DEF Untouched
<1>4. CASE \/ \E r \in Requests : Begin(c, r)
           \/ \E e \in ClockErrors : Debounce(c, e)
           \/ Select(c) \/ UpsertInsert(c) \/ SerializationFails(c) \/ TxLost(c)
      <2>1. \E n : Put(c, n)
            BY <1>4 DEF Begin, Debounce, Select, UpsertInsert, SerializationFails, TxLost
      <2>2. jobs' = jobs /\ now' = now
            BY <1>4 DEF Begin, Debounce, Select, UpsertInsert, SerializationFails, TxLost
      <2> QED BY <1>2, <1>3, <2>1, <2>2
<1>5. CASE SendInsert(c)
      <2>1. PICK row : row = NewRow(c)
            OBVIOUS
      <2>2. /\ \E n : Put(c, n)
            /\ jobs' = jobs \/ jobs' = [jobs EXCEPT ![Min(FreshId)] = row]
            /\ now' = now
            BY <1>5, <2>1 DEF SendInsert
      <2>3. row.data = c
            BY <2>1, NewRowFields
      <2>4. \A j \in Ids : jobs'[j] = jobs[j] \/ jobs'[j] = row
            BY <1>1, <2>2
      <2> QED BY <1>2, <2>2, <2>3, <2>4 DEF Untouched
<1>6. CASE InsertBatch(c)
      <2>1. PICK row : row = NewRow(c)
            OBVIOUS
      <2>2. PICK F \in SUBSET FreshId :
                /\ jobs' = [j \in Ids |-> IF j \in F THEN row ELSE jobs[j]]
                /\ Put(c, Over([calls[c] EXCEPT !.answer = F], "done"))
            BY <1>6, <2>1, BatchIds
      <2>3. row.data = c /\ now' = now
            BY <1>6, <2>1, NewRowFields DEF InsertBatch
      <2>4. \A j \in Ids : jobs'[j] = jobs[j] \/ jobs'[j] = row
            BY <2>2
      <2> QED BY <1>2, <2>2, <2>3, <2>4 DEF Untouched
<1>7. CASE Apply(c)
      <2>1. (\E n : Put(c, n)) /\ now' = now
            BY <1>7 DEF Apply
      <2>2. \/ jobs' = jobs
            \/ jobs' = [j \in Ids |-> IF j \in StillWaiting(calls[c].target)
                                      THEN Edited(jobs[j], c, calls[c].req) ELSE jobs[j]]
            BY <1>7 DEF Apply
      <2>3. \A j \in Ids : jobs'[j] = jobs[j] \/ jobs'[j] = Edited(jobs[j], c, calls[c].req)
            BY <2>2
      <2>4. \A j \in Ids : Edited(jobs[j], c, calls[c].req).data = c
            BY <1>1, EditedFields
      <2> QED BY <1>2, <2>1, <2>3, <2>4 DEF Untouched
<1>8. CASE Commit(c)
      <2>1. /\ jobs' = [j \in Ids |-> IF calls[c].ins.state # "none" /\ j = calls[c].id THEN calls[c].ins
                                      ELSE IF j \in calls[c].edits THEN Edited(jobs[j], c, calls[c].req) ELSE jobs[j]]
            /\ calls' = [x \in Callers |-> IF x = c THEN Over(calls[c], "done")
                                           ELSE [calls[x] EXCEPT !.stale = @ \/ InTx(x)]]
            /\ now' = now
            BY <1>8 DEF Commit
      <2>2. \A j \in Ids : \/ jobs'[j] = jobs[j] \/ jobs'[j] = Edited(jobs[j], c, calls[c].req)
                           \/ jobs'[j] = calls[c].ins /\ calls[c].ins.state # "none"
            BY <2>1
      <2>3. calls[c].ins.state # "none" => calls[c].ins.data = c
            BY DEF AInv, InsertSound
      <2>4. \A j \in Ids : Edited(jobs[j], c, calls[c].req).data = c
            BY <1>1, EditedFields
      <2>5. Untouched(d)
            BY <2>2, <2>3, <2>4 DEF Untouched
      <2>6. SameCall(d)
            <3>1. PICK old \in CallRecords : old = calls[d]
                  BY <1>1
            <3>2. calls'[d] = [old EXCEPT !.stale = @ \/ InTx(d)]
                  BY <2>1, <3>1
            <3> QED BY <3>1, <3>2 DEF CallRecords, SameCall
      <2> QED BY <2>1, <2>5, <2>6
<1> QED BY <1>4, <1>5, <1>6, <1>7, <1>8

\* A call that is no debounce, and has begun, has no refusal to go past.
LEMMA NoDebounce ==
    ASSUME NEW c \in Callers, calls'[c].req.kind # "debounce", calls'[c].pc # "idle"
    PROVE  PastRefusal(c)'
BY DEF PastRefusal

\* A call begins.
LEMMA BeginRefusal ==
    ASSUME IInv, AInv, NEW c \in Callers, PastRefusal(c), NEW r \in Requests, Begin(c, r)
    PROVE  PastRefusal(c)'
<1>1. TypeOK /\ calls[c] \in CallRecords /\ calls[c].pc = "idle" /\ ~calls[c].second
      BY DEF IInv, TypeOK, Begin, AInv, FindsJob
<1>2. PICK n : n = [calls[c] EXCEPT !.pc = IF r.kind \in {"update", "upsert"} THEN "select" ELSE "insert",
                                    !.req = r, !.began = now]
      OBVIOUS
<1>3. /\ n.pc = IF r.kind \in {"update", "upsert"} THEN "select" ELSE "insert"
      /\ n.req = r /\ n.second = calls[c].second /\ n.answer = calls[c].answer
      BY <1>1, <1>2 DEF CallRecords
<1>4. calls'[c] = n
      BY <1>1, <1>2 DEF Begin, Put, TypeOK
<1> QED BY <1>1, <1>3, <1>4 DEF PastRefusal

\* The debounced insert: refused, or in a slot past the refused one.
LEMMA SendRefusal ==
    ASSUME IInv, AInv, NEW c \in Callers, PastRefusal(c), SendInsert(c)
    PROVE  PastRefusal(c)'
<1>1. TypeOK /\ calls[c] \in CallRecords /\ now \in Int /\ jobs \in [Ids -> Rows]
      BY SendsAssumption DEF IInv, TypeOK
<1>2. /\ calls[c].pc = "insert" /\ calls[c].req.kind \in {"send", "throttle", "debounce"} /\ FreshId # {}
      /\ now' = now
      BY DEF SendInsert
<1>3. PICK row : row = NewRow(c)
      OBVIOUS
<1>4. PICK f \in FreshId : f = Min(FreshId)
      BY <1>2, FreshIds
<1>5. CASE calls[c].req.kind # "debounce"
      <2>1. PICK call \in CallRecords : call.req = calls[c].req /\ Put(c, Over(call, "done"))
            <3>1. PICK a \in {calls[c], [calls[c] EXCEPT !.answer = {f}]} : Put(c, Over(a, "done"))
                  BY <1>4, <1>5 DEF SendInsert
            <3>2. a \in CallRecords /\ a.req = calls[c].req
                  BY <1>1, <3>1 DEF CallRecords, FreshId
            <3> QED BY <3>1, <3>2
      <2>2. PICK n : n = Over(call, "done")
            OBVIOUS
      <2>3. n.pc = "done" /\ n.req.kind # "debounce"
            BY <1>5, <2>1, <2>2, OverFields
      <2>4. calls'[c] = n
            BY <1>1, <2>1, <2>2 DEF Put, TypeOK
      <2> QED BY <2>3, <2>4, NoDebounce
<1>6. CASE /\ calls[c].req.kind = "debounce"
           /\ jobs' = [jobs EXCEPT ![f] = row]
           /\ Put(c, Over([calls[c] EXCEPT !.answer = {f}], "done"))
      <2>1. PICK call : call = [calls[c] EXCEPT !.answer = {f}]
            OBVIOUS
      <2>2. /\ call \in CallRecords /\ call.req = calls[c].req /\ call.answer = {f}
            /\ call.second = calls[c].second /\ call.refused = calls[c].refused
            /\ call.timely = calls[c].timely
            BY <1>1, <2>1 DEF CallRecords, FreshId
      <2>3. PICK n : n = Over(call, "done")
            OBVIOUS
      <2>4. /\ n.pc = "done" /\ n.answer = {f} /\ n.second = calls[c].second /\ n.refused = calls[c].refused
            /\ n.timely = calls[c].timely
            BY <2>2, <2>3, OverFields
      <2>5. calls'[c] = n
            BY <1>1, <1>6, <2>1, <2>3 DEF Put, TypeOK
      <2>6. jobs'[f] = row
            BY <1>1, <1>6 DEF FreshId
      <2>7. ASSUME calls[c].second
            PROVE  AfterRefusal(calls[c], row)
            <3>1. row.slot = SlotAt(now + SingletonSeconds) /\ row.start = now + calls[c].after /\ row.created = now
                  BY <1>3, <1>6, <2>7 DEF NewRow, Row, StartOf
            <3>2. /\ calls[c].refused <= SlotAt(now) /\ calls[c].after >= 1
                  /\ calls[c].timely => now + calls[c].after >= calls[c].refused + SingletonSeconds
                  BY <1>2, <1>6, <2>7 DEF PastRefusal
            <3>3. SlotAt(now + SingletonSeconds) > SlotAt(now) /\ SlotAt(now) \in Int
                  BY <1>1, SlotsFollow, InSlot
            <3>4. SlotAt(now + SingletonSeconds) \in Int
                  <4>1. now + SingletonSeconds \in Int
                        BY <1>1, SendsAssumption
                  <4> QED BY <4>1, InSlot
            <3>5. calls[c].refused \in Int /\ calls[c].after \in Int
                  BY <1>1 DEF CallRecords
            <3>6. row.slot > calls[c].refused /\ row.start > row.created
                  BY <1>1, <3>1, <3>2, <3>3, <3>4, <3>5
            <3> QED BY <3>1, <3>2, <3>6 DEF AfterRefusal
      <2>8. calls[c].second => AfterRefusal(n, row)
            BY <2>4, <2>7 DEF AfterRefusal
      <2> QED BY <2>4, <2>5, <2>6, <2>8 DEF PastRefusal
<1>7. CASE /\ calls[c].req.kind = "debounce" /\ ~calls[c].second
           /\ Put(c, [calls[c] EXCEPT !.pc = "debounce", !.refused = SlotAt(now)])
      <2>1. PICK n : n = [calls[c] EXCEPT !.pc = "debounce", !.refused = SlotAt(now)]
            OBVIOUS
      <2>2. n.pc = "debounce" /\ n.refused = SlotAt(now) /\ n.answer = calls[c].answer
            BY <1>1, <2>1 DEF CallRecords
      <2>3. calls'[c] = n /\ calls[c].answer = {}
            BY <1>1, <1>2, <1>7, <2>1 DEF Put, TypeOK, PastRefusal
      <2>4. SlotAt(now)' = SlotAt(now) /\ SlotAt(now) \in Int
            BY <1>1, <1>2, InSlot DEF SlotAt
      <2> QED BY <2>2, <2>3, <2>4 DEF PastRefusal
<1>8. CASE /\ calls[c].req.kind = "debounce" /\ calls[c].second
           /\ Put(c, Over(calls[c], "done"))
      <2>1. PICK n : n = Over(calls[c], "done")
            OBVIOUS
      <2>2. n.pc = "done" /\ n.answer = calls[c].answer
            BY <1>1, <2>1, OverFields
      <2>3. calls'[c] = n /\ calls[c].answer = {}
            BY <1>1, <1>2, <1>8, <2>1 DEF Put, TypeOK, PastRefusal
      <2> QED BY <2>2, <2>3 DEF PastRefusal
<1> QED BY <1>3, <1>4, <1>5, <1>6, <1>7, <1>8 DEF SendInsert

\* The delay reaches the end of the refused slot.
LEMMA DebounceRefusal ==
    ASSUME IInv, NEW c \in Callers, PastRefusal(c), NEW e \in ClockErrors, Debounce(c, e)
    PROVE  PastRefusal(c)'
<1>1. TypeOK /\ calls[c] \in CallRecords /\ now \in Int /\ e \in Int
      BY SendsAssumption DEF IInv, TypeOK
<1>2. calls[c].pc = "debounce" /\ now' = now
      BY DEF Debounce
<1>3. PICK a : a = DebounceStartAfter(now + e)
      OBVIOUS
<1>9. PICK b \in BOOLEAN : b = (SlotAt(now + e) >= calls[c].refused /\ e <= 1)
      OBVIOUS
<1>4. PICK n : n = [calls[c] EXCEPT !.pc = "insert", !.second = TRUE, !.after = a, !.timely = b]
      OBVIOUS
<1>5. /\ n.pc = "insert" /\ n.after = a /\ n.timely = b /\ n.req = calls[c].req
      /\ n.refused = calls[c].refused /\ n.answer = calls[c].answer
      BY <1>1, <1>4 DEF CallRecords
<1>6. calls'[c] = n
      BY <1>1, <1>3, <1>4, <1>9 DEF Debounce, Put, TypeOK
<1>7. ASSUME calls[c].req.kind = "debounce"
      PROVE  /\ calls[c].answer = {} /\ calls[c].refused <= SlotAt(now) /\ a >= 1
             /\ b => now + a >= calls[c].refused + SingletonSeconds
      <2>1. calls[c].answer = {} /\ calls[c].refused <= SlotAt(now)
            BY <1>2, <1>7 DEF PastRefusal
      <2>2. PICK r \in Int : r = calls[c].refused
            BY <1>1 DEF CallRecords
      <2> QED BY <1>1, <1>3, <1>9, <2>1, <2>2, DelayReaches
<1>8. SlotAt(now)' = SlotAt(now)
      BY <1>2 DEF SlotAt
<1> QED BY <1>2, <1>5, <1>6, <1>7, <1>8, <1>9 DEF PastRefusal

\* The other calls are no debounces.
LEMMA OtherRefusal ==
    ASSUME IInv, NEW c \in Callers, PastRefusal(c),
           \/ InsertBatch(c) \/ Select(c) \/ Apply(c) \/ UpsertInsert(c) \/ Commit(c)
           \/ SerializationFails(c) \/ TxLost(c)
    PROVE  PastRefusal(c)'
<1>1. TypeOK /\ calls[c] \in CallRecords
      BY DEF IInv, TypeOK
<1>2. calls[c].req.kind # "debounce"
      BY DEF InsertBatch, Select, Apply, UpsertInsert, Commit, SerializationFails, TxLost, InTx, PastRefusal
<1>3. calls'[c].req.kind = calls[c].req.kind /\ calls'[c].pc # "idle"
      <2>1. ASSUME NEW call \in CallRecords, call.req.kind = calls[c].req.kind, NEW pc \in {"done", "failed"},
                   calls'[c] = Over(call, pc)
            PROVE  calls'[c].req.kind = calls[c].req.kind /\ calls'[c].pc # "idle"
            BY <2>1, OverFields
      <2>2. CASE InsertBatch(c)
            <3>1. PICK F \in SUBSET FreshId : Put(c, Over([calls[c] EXCEPT !.answer = F], "done"))
                  BY <2>2, BatchIds
            <3>2. PICK call : call = [calls[c] EXCEPT !.answer = F]
                  OBVIOUS
            <3>3. call \in CallRecords /\ call.req = calls[c].req
                  BY <1>1, <3>2 DEF CallRecords, FreshId
            <3>4. calls'[c] = Over(call, "done")
                  BY <1>1, <3>1, <3>2 DEF Put, TypeOK
            <3> QED BY <2>1, <3>3, <3>4
      <2>3. CASE Select(c)
            <3>1. PICK T : Put(c, [calls[c] EXCEPT !.pc = "apply", !.target = T])
                  BY <2>3, Zenon DEF Select
            <3>2. PICK n : n = [calls[c] EXCEPT !.pc = "apply", !.target = T]
                  OBVIOUS
            <3>3. n.pc = "apply" /\ n.req = calls[c].req /\ calls'[c] = n
                  BY <1>1, <3>1, <3>2 DEF Put, TypeOK, CallRecords
            <3> QED BY <3>3
      <2>4. CASE Apply(c)
            <3>1. PICK T : T = StillWaiting(calls[c].target)
                  OBVIOUS
            <3>2. T \subseteq Ids
                  BY <1>1, <3>1 DEF StillWaiting, CallRecords
            <3>3. CASE calls[c].req.kind = "update"
                  <4>1. PICK call : call = [calls[c] EXCEPT !.answer = T]
                        OBVIOUS
                  <4>2. call \in CallRecords /\ call.req = calls[c].req
                        BY <1>1, <3>2, <4>1 DEF CallRecords
                  <4>3. calls'[c] = Over(call, "done")
                        BY <1>1, <2>4, <3>1, <3>3, <4>1 DEF Apply, Put, TypeOK
                  <4> QED BY <2>1, <4>2, <4>3
            <3>4. CASE calls[c].req.kind # "update"
                  <4>1. PICK pc : pc = IF T = {} /\ ~calls[c].second THEN "insert" ELSE "commit"
                        OBVIOUS
                  <4>2. PICK n : n = [calls[c] EXCEPT !.pc = pc, !.edits = T, !.answer = T]
                        OBVIOUS
                  <4>3. n.pc = pc /\ n.req = calls[c].req
                        BY <1>1, <4>2 DEF CallRecords
                  <4>4. calls'[c] = n
                        BY <1>1, <2>4, <3>1, <3>4, <4>1, <4>2 DEF Apply, Put, TypeOK
                  <4> QED BY <4>1, <4>3, <4>4
            <3> QED BY <3>3, <3>4
      <2>5. CASE UpsertInsert(c)
            <3>1. PICK row, id : row = NewRow(c) /\ id = IdFor(c)
                  OBVIOUS
            <3>2. PICK n : /\ Put(c, n)
                           /\ n \in {[calls[c] EXCEPT !.pc = "select", !.second = TRUE],
                                     [calls[c] EXCEPT !.pc = "commit", !.ins = row, !.id = id, !.answer = {id}]}
                  BY <2>5, <3>1 DEF UpsertInsert
            <3>3. n.req = calls[c].req /\ n.pc \in {"select", "commit"}
                  BY <1>1, <3>2 DEF CallRecords
            <3>4. calls'[c] = n
                  BY <1>1, <3>2 DEF Put, TypeOK
            <3> QED BY <3>3, <3>4
      <2>6. CASE Commit(c)
            <3>1. calls'[c] = Over(calls[c], "done")
                  BY <2>6 DEF Commit
            <3> QED BY <1>1, <2>1, <3>1
      <2>7. CASE SerializationFails(c) \/ TxLost(c)
            <3>1. PICK lost : lost = Abandoned(calls[c])
                  OBVIOUS
            <3>2. lost \in CallRecords /\ lost.req = calls[c].req
                  BY <1>1, <3>1, AbandonedFields
            <3>3. PICK n : /\ Put(c, n)
                           /\ \/ n = Over(lost, "failed")
                              \/ n = [lost EXCEPT !.pc = "select", !.attempts = @ + 1, !.stale = FALSE,
                                                  !.second = FALSE, !.began = now]
                  BY <2>7, <3>1 DEF SerializationFails, TxLost
            <3>4. calls'[c] = n
                  BY <1>1, <3>3 DEF Put, TypeOK
            <3>5. CASE n = Over(lost, "failed")
                  BY <2>1, <3>2, <3>4, <3>5
            <3>6. CASE n = [lost EXCEPT !.pc = "select", !.attempts = @ + 1, !.stale = FALSE,
                                        !.second = FALSE, !.began = now]
                  BY <3>2, <3>4, <3>6 DEF CallRecords
            <3> QED BY <3>3, <3>5, <3>6
      <2> QED BY <2>2, <2>3, <2>4, <2>5, <2>6, <2>7
<1> QED BY <1>2, <1>3, NoDebounce

\* Every step keeps what refused debounces come to.
LEMMA NextRefusal ==
    ASSUME IInv, IInv', AInv, Begun, \A c \in Callers : PastRefusal(c), [Next]_vars
    PROVE  \A c \in Callers : PastRefusal(c)'
<1>1. TypeOK /\ now \in Int
      BY SendsAssumption DEF IInv, TypeOK
<1>2. ASSUME NEW c \in Callers,
             \/ \E r \in Requests : Begin(c, r)
             \/ SendInsert(c) \/ InsertBatch(c) \/ \E e \in ClockErrors : Debounce(c, e)
             \/ Select(c) \/ Apply(c) \/ UpsertInsert(c) \/ Commit(c)
             \/ SerializationFails(c) \/ TxLost(c),
             NEW d \in Callers
      PROVE  PastRefusal(d)'
      <2>1. CASE d = c
            BY <1>2, <2>1, BeginRefusal, SendRefusal, DebounceRefusal, OtherRefusal
      <2>2. CASE d # c
            <3>1. SameCall(d) /\ Untouched(d) /\ now' = now
                  BY <1>2, <2>2, OthersUntouched
            <3> QED BY <1>1, <3>1, RefusalStays
      <2> QED BY <2>1, <2>2
<1>3. ASSUME NEW j \in Ids, Fetch(j) \/ Settle(j) \/ Sweep(j), NEW d \in Callers
      PROVE  PastRefusal(d)'
      <2>1. jobs \in [Ids -> Rows] /\ calls[d] \in CallRecords
            BY <1>1 DEF TypeOK
      <2>2. (Seen \/ calls' = calls) /\ now' = now
            BY <1>3 DEF Fetch, Settle, Sweep
      <2>3. Untouched(d)
            <3>1. PICK row \in Rows :
                      /\ jobs' = [jobs EXCEPT ![j] = row] /\ row.data = jobs[j].data
                      /\ row.slot = jobs[j].slot /\ row.created = jobs[j].created
                      /\ row.start = jobs[j].start \/ row.start >= jobs[j].start
                  <4>1. ASSUME NEW s \in {"active", "completed", "swept"}, SetState(j, s)
                        PROVE  \E row \in Rows :
                                  /\ jobs' = [jobs EXCEPT ![j] = row] /\ row.data = jobs[j].data
                                  /\ row.slot = jobs[j].slot /\ row.created = jobs[j].created
                                  /\ row.start = jobs[j].start \/ row.start >= jobs[j].start
                        <5>1. PICK row \in Rows :
                                  /\ jobs' = [jobs EXCEPT ![j] = row] /\ row.data = jobs[j].data
                                  /\ row.slot = jobs[j].slot /\ row.created = jobs[j].created
                                  /\ row.start = jobs[j].start
                              BY <1>1, <4>1, StateFields
                        <5> QED BY <5>1
                  <4>2. ASSUME NEW delay \in RetryDelays, jobs[j].state = "active",
                               jobs' = [jobs EXCEPT ![j] = Retried(@, now + delay)]
                        PROVE  \E row \in Rows :
                                  /\ jobs' = [jobs EXCEPT ![j] = row] /\ row.data = jobs[j].data
                                  /\ row.slot = jobs[j].slot /\ row.created = jobs[j].created
                                  /\ row.start = jobs[j].start \/ row.start >= jobs[j].start
                        <5>1. PICK row \in Rows :
                                  /\ jobs' = [jobs EXCEPT ![j] = row] /\ row.data = jobs[j].data
                                  /\ row.slot = jobs[j].slot /\ row.created = jobs[j].created
                                  /\ row.start = now + delay
                              BY <1>1, <4>2, RetryFields
                        <5>2. jobs[j].start <= now /\ jobs[j].start \in Int /\ delay \in Nat
                              BY <2>1, <4>2, SendsAssumption DEF Begun, Rows
                        <5>3. row.start >= jobs[j].start
                              BY <1>1, <5>1, <5>2
                        <5> QED BY <5>1, <5>3
                  <4> QED BY <1>3, <4>1, <4>2 DEF Fetch, Settle, Sweep
            <3>2. jobs'[j] = row /\ \A i \in Ids \ {j} : jobs'[i] = jobs[i]
                  BY <2>1, <3>1
            <3> QED BY <3>1, <3>2 DEF Untouched
      <2>4. SameCall(d)
            <3>1. CASE Seen
                  <4>1. PICK b : b = (calls[d].claimed \/ (Busy(d) /\ calls[d].req.kind = "upsert"))
                        OBVIOUS
                  <4>2. calls'[d] = [calls[d] EXCEPT !.claimed = b]
                        BY <3>1, <4>1 DEF Seen
                  <4> QED BY <2>1, <4>2 DEF CallRecords, SameCall
            <3>2. CASE calls' = calls
                  BY <3>2 DEF SameCall
            <3> QED BY <2>2, <3>1, <3>2
      <2> QED BY <1>1, <2>2, <2>3, <2>4, RefusalStays
<1>4. ASSUME Tick \/ UNCHANGED vars, NEW d \in Callers
      PROVE  PastRefusal(d)'
      <2>1. jobs' = jobs /\ calls' = calls /\ now' >= now
            BY <1>1, <1>4 DEF Tick, vars
      <2>2. SameCall(d) /\ Untouched(d)
            BY <2>1 DEF SameCall, Untouched
      <2> QED BY <2>1, <2>2, RefusalStays
<1> QED BY <1>2, <1>3, <1>4 DEF Next

\* What the invariant says of a debounced send that is over.
LEMMA RefusalsPassed == (\A c \in Callers : PastRefusal(c)) => DebounceAfterSlot
BY DEF PastRefusal, DebounceAfterSlot

\* No call has begun, and what an earlier send has left is due.
LEMMA InitiallyPast == Init => Begun /\ \A c \in Callers : PastRefusal(c)
<1> SUFFICES ASSUME Init PROVE Begun /\ \A c \in Callers : PastRefusal(c)
    OBVIOUS
<1>1. Idle.pc = "idle" /\ Idle.req.kind = "none" /\ Idle.answer = {}
      BY DEF Idle, Request
<1>2. \A c \in Callers : PastRefusal(c)
      BY <1>1 DEF Init, PastRefusal
<1>3. PICK s \in {"none", "created", "active"} :
          jobs = [[j \in Ids |-> NoRow] EXCEPT ![1] =
                    IF s = "none" THEN @ ELSE Row(s, TRUE, FALSE, NoSlot, 0, Retention, NoCaller, 0)]
      BY DEF Init
<1>4. PICK row : row = Row(s, TRUE, FALSE, NoSlot, 0, Retention, NoCaller, 0)
      OBVIOUS
<1>5. row.start = 0
      BY <1>4 DEF Row
<1>6. \A j \in Ids : jobs[j] = NoRow \/ jobs[j] = row
      BY <1>3, <1>4
<1>7. NoRow.state = "none" /\ 0 <= now
      BY RowTypes, SendsAssumption DEF Init
<1> QED BY <1>2, <1>5, <1>6, <1>7 DEF Begun

-----------------------------------------------------------------------------
(***************************************************************************)
(* The forwarding of the jobs of schedules (SendIt, by MCSends' instance   *)
(* Fwd): its inductive invariant, for any names, expressions and instances. *)
(***************************************************************************)
Relabels == Names \X Expressions \X Fwd!Kinds
PassRecords == [step : {"read", "sent"}, seen : SUBSET Names, owed : SUBSET Fwd!Keys, relabelled : SUBSET Relabels]
BatchRecords ==
    UNION {[jobs : {S}, recorded : BOOLEAN, attempt : [S -> 0 .. RetryLimit],
            result : [S -> {"pending", "job", "null", "rejected"}]] : S \in SUBSET Fwd!Keys}

\* The values of the variables.
ForwardTypes ==
    /\ slot \in Fwd!Slots /\ passed \in 0 .. slot
    /\ rows \in [Names -> Fwd!Row \cup {None}]
    /\ pass \in [Instances -> PassRecords \cup {None}]
    /\ queue \in [Fwd!Keys -> Fwd!Job]
    /\ batch \in [Instances -> BatchRecords \cup {None}]
    /\ sent \in [Fwd!Keys -> Nat] /\ newest \in [Names -> 0 .. MaxSlot] /\ crossed \in BOOLEAN
    /\ due \subseteq Fwd!Keys

\* There is one pass at a time, in the slot it began in; what it found it owes, and a
\* label it is to write is the format of the expression it read.
Passing ==
    \A i \in Instances : pass[i] # None =>
        /\ passed = slot
        /\ \A j \in Instances : pass[j] # None => i = j
        /\ \A n \in pass[i].seen : <<n, slot>> \in pass[i].owed
        /\ \A r \in pass[i].relabelled : r[3] = r[2].written
        /\ \A r, q \in pass[i].relabelled : r[1] = q[1] => r = q

OnQueue(k) == queue[k].state # "none"
Fetched(k) == queue[k].state \notin {"none", "created"}

\* What has become of an occurrence in a batch is known outside it.
Accounts ==
    /\ \A k \in due : OnQueue(k)
    /\ \A k \in Fwd!Keys : /\ ~OnQueue(k) => queue[k] = Fwd!NoJob
                           /\ queue[k].state = "completed" => sent[k] > 0 \/ k \in reported
    /\ \A i \in Instances : batch[i] # None =>
        /\ batch[i].recorded => Fwd!AllSettled(i)
        /\ \A k \in batch[i].jobs :
              /\ OnQueue(k)
              /\ batch[i].result[k] = "job" => sent[k] > 0
              /\ batch[i].result[k] \in {"null", "rejected"} => k \in reported

\* The batches that have still to forward an occurrence.
ToForward(k) == {i \in Instances : batch[i] # None /\ k \in batch[i].jobs /\ batch[i].result[k] = "pending"}

\* Each claim of a send-it job forwards once, and each but the first follows one that was lost.
Repeats ==
    \A k \in Fwd!Keys : sent[k] + Cardinality(ToForward(k)) <= queue[k].losses + (IF Fetched(k) THEN 1 ELSE 0)

\* Slots are filed in order: what is filed is not later than what a pass still owes.
Filing ==
    /\ \A k \in Fwd!Keys : OnQueue(k) => k[2] <= slot /\ (passed < slot => k[2] < slot)
    /\ \A i \in Instances : pass[i] # None /\ pass[i].step = "read" =>
          \A l \in pass[i].owed : l[2] <= slot /\ \A k \in Fwd!Keys : OnQueue(k) => k[2] <= l[2]

\* And without overlaps they are fetched, and recorded, in order.
Recording ==
    /\ \A i, j \in Instances : batch[i] # None /\ batch[j] # None => i = j
    /\ \A i \in Instances : batch[i] # None =>
          \A k \in batch[i].jobs : /\ Fetched(k)
                                   /\ ~batch[i].recorded => \A n \in Names : newest[n] <= k[2]
    /\ \A k, l \in Fwd!Keys : Fetched(k) /\ queue[l].state = "created" => k[2] <= l[2]
    /\ \A n \in Names : newest[n] = 0 \/ \E k \in Fwd!Keys : Fetched(k) /\ k[2] = newest[n]
    /\ \A n \in Names : rows[n] # None /\ rows[n].last # None => rows[n].last = newest[n]

ForwardingInv ==
    /\ ForwardTypes /\ Passing /\ Fwd!LabelFollowsExpression /\ Accounts /\ Repeats /\ Filing
    /\ ~crossed => Recording

-----------------------------------------------------------------------------
(* Operators *)

\* A set of slots has a latest one.
LEMMA LatestOf ==
    ASSUME NEW S \in SUBSET (0 .. MaxSlot), S # {}
    PROVE  Fwd!SetMax(S) \in S /\ \A y \in S : y <= Fwd!SetMax(S)
<1> DEFINE T == {MaxSlot - x : x \in S}
<1>0. MaxSlot \in Nat
      BY ForwardingAssumption DEF Fwd!SendItAssumption
<1>1. T \subseteq Nat /\ T # {}
      <2>1. \A x \in S : x \in 0 .. MaxSlot
            OBVIOUS
      <2>2. \A x \in 0 .. MaxSlot : MaxSlot - x \in Nat
            BY <1>0
      <2> QED BY <2>1, <2>2
<1>2. PICK m \in T : \A n \in T : <<n, m>> \notin OpToRel(<, Nat)
      BY <1>1, NatLessThanWellFounded, WFMin
<1>3. PICK x \in S : m = MaxSlot - x
      BY <1>2
<1>4. ASSUME NEW y \in S, x < y
      PROVE  FALSE
      <2>1. MaxSlot - y \in T /\ MaxSlot - y < m
            BY <1>0, <1>3, <1>4
      <2>2. <<MaxSlot - y, m>> \in OpToRel(<, Nat)
            BY <1>1, <2>1 DEF OpToRel
      <2> QED BY <1>2, <2>1, <2>2
<1>5. ASSUME NEW y \in S
      PROVE  y <= x
      <2>1. y \in Int /\ x \in Int
            <3>1. y \in 0 .. MaxSlot /\ x \in 0 .. MaxSlot
                  OBVIOUS
            <3> QED BY <3>1
      <2>2. ~(x < y)
            BY <1>4
      <2> QED BY <2>1, <2>2
<1> QED BY <1>3, <1>5 DEF Fwd!SetMax

\* What a batch is made of, and what becomes of it.
LEMMA BatchFacts ==
    ASSUME NEW b \in BatchRecords
    PROVE  /\ b.jobs \subseteq Fwd!Keys /\ b.recorded \in BOOLEAN
           /\ b.result \in [b.jobs -> {"pending", "job", "null", "rejected"}]
           /\ [b EXCEPT !.recorded = TRUE] \in BatchRecords
           /\ \A k \in b.jobs, r \in {"pending", "job", "null", "rejected"} :
                 [b EXCEPT !.result[k] = r] \in BatchRecords
<1>1. PICK S \in SUBSET Fwd!Keys :
          b \in [jobs : {S}, recorded : BOOLEAN, attempt : [S -> 0 .. RetryLimit],
                 result : [S -> {"pending", "job", "null", "rejected"}]]
      BY DEF BatchRecords
<1>2. \A c : c \in [jobs : {S}, recorded : BOOLEAN, attempt : [S -> 0 .. RetryLimit],
                    result : [S -> {"pending", "job", "null", "rejected"}]] => c \in BatchRecords
      BY DEF BatchRecords
<1>3. ASSUME NEW k \in b.jobs, NEW r \in {"pending", "job", "null", "rejected"}
      PROVE  [b EXCEPT !.result[k] = r] \in BatchRecords
      <2>1. [b.result EXCEPT ![k] = r] \in [S -> {"pending", "job", "null", "rejected"}]
            BY <1>1
      <2>2. [b EXCEPT !.result[k] = r] \in
                [jobs : {S}, recorded : BOOLEAN, attempt : [S -> 0 .. RetryLimit],
                 result : [S -> {"pending", "job", "null", "rejected"}]]
            BY <1>1, <2>1
      <2> QED BY <1>2, <2>2
<1>4. [b EXCEPT !.recorded = TRUE] \in
          [jobs : {S}, recorded : BOOLEAN, attempt : [S -> 0 .. RetryLimit],
           result : [S -> {"pending", "job", "null", "rejected"}]]
      BY <1>1
<1> QED BY <1>1, <1>2, <1>3, <1>4

\* A send-it job that is filed, fetched, completed, failed.
LEMMA JobFacts ==
    /\ Fwd!NoJob \in Fwd!Job /\ Fwd!NoJob.state = "none" /\ Fwd!NoJob.losses = 0
    /\ \A p \in {"full", "noslot", "nokey"} :
          Fwd!Filed(p) \in Fwd!Job /\ Fwd!Filed(p).state = "created" /\ Fwd!Filed(p).losses = 0
    /\ \A b \in Fwd!Job : /\ [b EXCEPT !.state = "active"] \in Fwd!Job
                          /\ [b EXCEPT !.state = "completed"] \in Fwd!Job
                          /\ Fwd!Lost(b) \in Fwd!Job
                          /\ Fwd!Lost(b).state \in {"created", "failed"}
                          /\ Fwd!Lost(b).losses = b.losses + 1
<1>0. RetryLimit \in Nat
      BY ForwardingAssumption DEF Fwd!SendItAssumption
<1>1. Fwd!NoJob \in Fwd!Job /\ Fwd!NoJob.state = "none" /\ Fwd!NoJob.losses = 0
      BY <1>0 DEF Fwd!NoJob, Fwd!Job
<1>2. ASSUME NEW p \in {"full", "noslot", "nokey"}
      PROVE  Fwd!Filed(p) \in Fwd!Job /\ Fwd!Filed(p).state = "created" /\ Fwd!Filed(p).losses = 0
      <2>1. PICK b \in Fwd!Job : b = Fwd!NoJob /\ b.losses = 0
            BY <1>1
      <2>2. Fwd!Filed(p) = [b EXCEPT !.state = "created", !.payload = p]
            BY <2>1 DEF Fwd!Filed
      <2> QED BY <2>1, <2>2 DEF Fwd!Job
<1>3. ASSUME NEW b \in Fwd!Job
      PROVE  /\ Fwd!Retried(b) \in Fwd!Job /\ Fwd!Retried(b).state \in {"created", "failed"}
             /\ Fwd!Retried(b).losses = b.losses
      <2>1. CASE b.attempt < RetryLimit
            <3>1. b.attempt + 1 \in 0 .. RetryLimit
                  BY <1>0, <2>1 DEF Fwd!Job
            <3>2. [b EXCEPT !.state = "created", !.attempt = @ + 1] \in Fwd!Job
                  BY <3>1 DEF Fwd!Job
            <3> QED BY <2>1, <3>2 DEF Fwd!Retried, Fwd!Job
      <2>2. CASE ~(b.attempt < RetryLimit)
            BY <2>2 DEF Fwd!Retried, Fwd!Job
      <2> QED BY <2>1, <2>2
<1>4. ASSUME NEW b \in Fwd!Job
      PROVE  /\ Fwd!Lost(b) \in Fwd!Job
             /\ Fwd!Lost(b).state \in {"created", "failed"}
             /\ Fwd!Lost(b).losses = b.losses + 1
      <2>1. PICK r \in Fwd!Job : r = Fwd!Retried(b) /\ r.state \in {"created", "failed"} /\ r.losses = b.losses
            BY <1>3
      <2>2. r.losses + 1 \in Nat
            BY DEF Fwd!Job
      <2>3. [r EXCEPT !.losses = @ + 1] \in Fwd!Job
            BY <2>2 DEF Fwd!Job
      <2>4. Fwd!Lost(b) = [r EXCEPT !.losses = @ + 1]
            BY <2>1 DEF Fwd!Lost
      <2> QED BY <2>1, <2>3, <2>4 DEF Fwd!Job
<1>5. \A b \in Fwd!Job : [b EXCEPT !.state = "active"] \in Fwd!Job /\ [b EXCEPT !.state = "completed"] \in Fwd!Job
      BY DEF Fwd!Job
<1> QED BY <1>1, <1>2, <1>4, <1>5

\* The batches still to forward an occurrence are finitely many.
LEMMA PendingFinite ==
    ASSUME NEW k
    PROVE  IsFiniteSet(ToForward(k)) /\ Cardinality(ToForward(k)) \in Nat
<1>1. IsFiniteSet(Instances)
      BY ForwardingAssumption DEF Fwd!SendItAssumption, Fwd!IsFiniteSet, IsFiniteSet
<1>2. ToForward(k) \subseteq Instances
      BY DEF ToForward
<1> QED BY <1>1, <1>2, FS_Subset, FS_CardinalityType

\* A set and one element more.
LEMMA OneMore ==
    ASSUME NEW S, IsFiniteSet(S), NEW x
    PROVE  IsFiniteSet(S \cup {x}) /\ Cardinality(S \cup {x}) <= Cardinality(S) + 1
<1>1. Cardinality(S) \in Nat
      BY FS_CardinalityType
<1>2. CASE x \in S
      <2>1. S \cup {x} = S
            BY <1>2
      <2>2. Cardinality(S \cup {x}) = Cardinality(S) /\ IsFiniteSet(S \cup {x})
            BY <2>1, Zenon
      <2> QED BY <1>1, <2>2
<1>3. CASE x \notin S
      <2>1. Cardinality(S \cup {x}) = Cardinality(S) + 1 /\ IsFiniteSet(S \cup {x})
            BY <1>3, FS_AddElement, Zenon
      <2> QED BY <1>1, <2>1
<1> QED BY <1>2, <1>3

-----------------------------------------------------------------------------
(* Steps *)

\* What a step leaves alone.
LEMMA QuietAccounts ==
    ASSUME Accounts, UNCHANGED <<queue, batch, sent, due, reported>>
    PROVE  Accounts'
BY DEF Accounts, OnQueue, Fwd!AllSettled

LEMMA QuietRepeats ==
    ASSUME Repeats, UNCHANGED <<queue, batch, sent>>
    PROVE  Repeats'
BY DEF Repeats, ToForward, Fetched

LEMMA QuietFiling ==
    ASSUME Filing, UNCHANGED <<slot, passed, pass>>, \A k \in Fwd!Keys : OnQueue(k)' => OnQueue(k)
    PROVE  Filing'
BY DEF Filing

LEMMA QuietRecording ==
    ASSUME Recording, UNCHANGED <<queue, batch, newest>>,
           \A n \in Names : rows'[n] # None /\ rows'[n].last # None => rows[n] # None /\ rows'[n].last = rows[n].last
    PROVE  Recording'
BY DEF Recording, Fetched

\* The calls that write the schedule table.
LEMMA ScheduleKeeps ==
    ASSUME ForwardingInv, NEW n \in Names, NEW e,
           (e \in Expressions /\ (Fwd!Schedule(n, e) \/ Fwd!ScheduleOlder(n, e))) \/ Fwd!Unschedule(n)
    PROVE  ForwardingInv'
<1>0. \A x \in Expressions : x.written \in Fwd!Kinds
      BY ForwardingAssumption DEF Fwd!SendItAssumption, Fwd!Kinds
<1>1. UNCHANGED <<slot, passed, pass, queue, batch, sent, due, reported, crossed>>
      BY DEF Fwd!Schedule, Fwd!ScheduleOlder, Fwd!Unschedule, Fwd!ghostVars
<1>2. Passing' /\ Accounts' /\ Repeats' /\ Filing'
      BY <1>1, QuietAccounts, QuietRepeats, QuietFiling DEF ForwardingInv, Passing, OnQueue
<1>3. CASE e \in Expressions /\ (Fwd!Schedule(n, e) \/ Fwd!ScheduleOlder(n, e))
      <2>1. PICK r : /\ rows' = [rows EXCEPT ![n] = r] /\ UNCHANGED newest
                     /\ r \in Fwd!Row
                     /\ r.by = "this" => r.kind = r.expr.written
                     /\ r.last = IF rows[n] = None THEN None ELSE rows[n].last
            <3>1. (IF rows[n] = None THEN None ELSE rows[n].last) \in Fwd!Slots \cup {None}
                  BY DEF ForwardingInv, ForwardTypes, Fwd!Row
            <3>2. (IF rows[n] = None THEN "cron" ELSE rows[n].kind) \in Fwd!Kinds
                  BY DEF ForwardingInv, ForwardTypes, Fwd!Row, Fwd!Kinds
            <3>3. CASE Fwd!Schedule(n, e)
                  <4>1. PICK r : r = [expr |-> e, kind |-> e.written, by |-> "this",
                                      last |-> IF rows[n] = None THEN None ELSE rows[n].last]
                        OBVIOUS
                  <4>2. r \in Fwd!Row /\ r.kind = r.expr.written /\ r.last = IF rows[n] = None THEN None ELSE rows[n].last
                        BY <1>0, <1>3, <3>1, <4>1 DEF Fwd!Row
                  <4>3. rows' = [rows EXCEPT ![n] = r] /\ UNCHANGED newest
                        BY <3>3, <4>1 DEF Fwd!Schedule, Fwd!ghostVars
                  <4> QED BY <4>2, <4>3
            <3>4. CASE Fwd!ScheduleOlder(n, e)
                  <4>1. PICK r : r = [expr |-> e, by |-> "older",
                                      kind |-> IF rows[n] = None THEN "cron" ELSE rows[n].kind,
                                      last |-> IF rows[n] = None THEN None ELSE rows[n].last]
                        OBVIOUS
                  <4>2. r \in Fwd!Row /\ r.by = "older" /\ r.last = IF rows[n] = None THEN None ELSE rows[n].last
                        BY <1>3, <3>1, <3>2, <4>1 DEF Fwd!Row
                  <4>3. rows' = [rows EXCEPT ![n] = r] /\ UNCHANGED newest
                        BY <3>4, <4>1 DEF Fwd!ScheduleOlder, Fwd!ghostVars
                  <4> QED BY <4>2, <4>3
            <3> QED BY <1>3, <3>3, <3>4
      <2>2. ForwardTypes'
            BY <1>1, <2>1 DEF ForwardingInv, ForwardTypes
      <2>3. Fwd!LabelFollowsExpression'
            BY <2>1 DEF ForwardingInv, ForwardTypes, Fwd!LabelFollowsExpression
      <2>4. \A m \in Names : rows'[m] # None /\ rows'[m].last # None => rows[m] # None /\ rows'[m].last = rows[m].last
            BY <2>1 DEF ForwardingInv, ForwardTypes
      <2>5. ~crossed => Recording'
            BY <1>1, <2>1, <2>4, QuietRecording DEF ForwardingInv
      <2> QED BY <1>1, <1>2, <2>2, <2>3, <2>5 DEF ForwardingInv
<1>4. CASE Fwd!Unschedule(n)
      <2>1. rows' = [rows EXCEPT ![n] = None] /\ newest' = [newest EXCEPT ![n] = 0]
            BY <1>4 DEF Fwd!Unschedule
      <2>2. ForwardTypes'
            BY <1>1, <2>1, ForwardingAssumption DEF ForwardingInv, ForwardTypes, Fwd!SendItAssumption
      <2>3. Fwd!LabelFollowsExpression'
            BY <2>1 DEF ForwardingInv, ForwardTypes, Fwd!LabelFollowsExpression
      <2>4. \A m \in Names : newest'[m] = newest[m] \/ newest'[m] = 0
            BY <2>1 DEF ForwardingInv, ForwardTypes
      <2>5. ASSUME ~crossed PROVE Recording'
            <3>1. Recording
                  BY <2>5 DEF ForwardingInv
            <3>2. ASSUME NEW m \in Names, rows'[m] # None, rows'[m].last # None
                  PROVE  rows'[m].last = newest'[m]
                  BY <2>1, <3>1, <3>2 DEF ForwardingInv, ForwardTypes, Recording
            <3>3. \A k \in Fwd!Keys : k[2] \in Nat /\ 0 <= k[2]
                  BY DEF Fwd!Keys, Fwd!Slots
            <3>4. ASSUME NEW i \in Instances, batch'[i] # None, NEW k \in batch'[i].jobs, ~batch'[i].recorded, NEW m \in Names
                  PROVE  newest'[m] <= k[2]
                  <4>1. k \in Fwd!Keys /\ newest[m] <= k[2]
                        BY <1>1, <3>1, <3>4, BatchFacts DEF ForwardingInv, ForwardTypes, Recording
                  <4> QED BY <2>4, <3>3, <4>1
            <3>5. \A m \in Names : newest'[m] = 0 \/ \E k \in Fwd!Keys : Fetched(k)' /\ k[2] = newest'[m]
                  BY <1>1, <2>4, <3>1 DEF Recording, Fetched
            <3> QED BY <1>1, <3>1, <3>2, <3>4, <3>5 DEF Recording, Fetched
      <2> QED BY <1>1, <1>2, <2>2, <2>3, <2>5 DEF ForwardingInv
<1> QED BY <1>3, <1>4
\* The format an expression is read in.
LEMMA KindFacts ==
    ASSUME NEW r \in Fwd!Row
    PROVE  /\ r.expr \in Expressions /\ Fwd!DueKinds(r) \subseteq Fwd!Kinds
           /\ \A k \in Fwd!DueKinds(r) \ {r.kind} : k = r.expr.written
           /\ r.expr.usable => Fwd!DueKinds(r) # {}
<1>1. r.expr \in Expressions /\ r.kind \in Fwd!Kinds /\ r.expr.written \in Fwd!Kinds
      BY ForwardingAssumption DEF Fwd!SendItAssumption, Fwd!Row, Fwd!Kinds
<1>2. CASE Fwd!ReadsAs(r.expr, r.kind)
      BY <1>1, <1>2 DEF Fwd!DueKinds
<1>3. CASE ~Fwd!ReadsAs(r.expr, r.kind)
      <2>1. Fwd!DueKinds(r) = {k \in {r.expr.written} \ {r.kind} : Fwd!ReadsAs(r.expr, k)}
            BY <1>3 DEF Fwd!DueKinds
      <2>2. r.expr.usable => r.expr.written \in Fwd!DueKinds(r)
            BY <1>3, <2>1 DEF Fwd!ReadsAs
      <2> QED BY <1>1, <2>1, <2>2
<1> QED BY <1>2, <1>3

\* A pass reads the table.
LEMMA ReadKeeps ==
    ASSUME ForwardingInv, NEW i \in Instances, Fwd!Read(i)
    PROVE  ForwardingInv'
<1>1. /\ UNCHANGED <<slot, rows, queue, batch, sent, due, reported, newest, crossed>>
      /\ passed' = slot /\ \A j \in Instances : pass[j] = None
      BY DEF Fwd!Read, Fwd!ghostVars
<1>2. PICK late \in SUBSET {n \in Fwd!Readable : passed < slot} :
        pass' = [pass EXCEPT ![i] =
            [step |-> "read",
             seen |-> {n \in Names : rows[n] # None /\ rows[n].expr.usable},
             owed |-> {k \in Fwd!Keys : k[1] \in Fwd!Readable
                        /\ (k[2] = slot \/ (k[2] = slot - 1 /\ k[1] \in late))},
             relabelled |-> UNION {{<<n, rows[n].expr, k>> : k \in Fwd!DueKinds(rows[n]) \ {rows[n].kind}}
                                    : n \in Fwd!Readable}]]
      BY DEF Fwd!Read
<1>3. PICK p : /\ pass' = [pass EXCEPT ![i] = p] /\ p.step = "read"
               /\ p.seen = {n \in Names : rows[n] # None /\ rows[n].expr.usable}
               /\ p.owed = {k \in Fwd!Keys : k[1] \in Fwd!Readable
                        /\ (k[2] = slot \/ (k[2] = slot - 1 /\ k[1] \in late))}
               /\ p.relabelled = UNION {{<<n, rows[n].expr, k>> : k \in Fwd!DueKinds(rows[n]) \ {rows[n].kind}}
                                    : n \in Fwd!Readable}
               /\ p = [step |-> p.step, seen |-> p.seen, owed |-> p.owed, relabelled |-> p.relabelled]
      <2> DEFINE S == {n \in Names : rows[n] # None /\ rows[n].expr.usable}
                 O == {k \in Fwd!Keys : k[1] \in Fwd!Readable
                        /\ (k[2] = slot \/ (k[2] = slot - 1 /\ k[1] \in late))}
                 R == UNION {{<<n, rows[n].expr, k>> : k \in Fwd!DueKinds(rows[n]) \ {rows[n].kind}} : n \in Fwd!Readable}
                 q == [step |-> "read", seen |-> S, owed |-> O, relabelled |-> R]
      <2>1. pass' = [pass EXCEPT ![i] = q]
            BY <1>2
      <2> HIDE DEF S, O, R
      <2>2. q.step = "read" /\ q.seen = S /\ q.owed = O /\ q.relabelled = R
            OBVIOUS
      <2>3. q = [step |-> q.step, seen |-> q.seen, owed |-> q.owed, relabelled |-> q.relabelled]
            OBVIOUS
      <2> HIDE DEF q
      <2> QED BY <2>1, <2>2, <2>3 DEF S, O, R
<1>4. \A n \in Fwd!Readable : n \in Names /\ rows[n] \in Fwd!Row
      BY DEF Fwd!Readable, ForwardingInv, ForwardTypes
<1>5. p.relabelled \subseteq Relabels
      <2> SUFFICES ASSUME NEW n \in Fwd!Readable, NEW k \in Fwd!DueKinds(rows[n]) \ {rows[n].kind}
                   PROVE  <<n, rows[n].expr, k>> \in Relabels
          BY <1>3
      <2> QED BY <1>4, KindFacts DEF Relabels
<1>6. p \in PassRecords
      <2>1. p.seen \subseteq Names /\ p.owed \subseteq Fwd!Keys
            BY <1>3
      <2> QED BY <1>3, <1>5, <2>1 DEF PassRecords
<1>7. ForwardTypes'
      BY <1>1, <1>3, <1>6 DEF ForwardingInv, ForwardTypes, Fwd!Slots
<1>8. \A n \in p.seen : <<n, slot>> \in p.owed
      <2> SUFFICES ASSUME NEW n \in p.seen PROVE <<n, slot>> \in p.owed
          OBVIOUS
      <2>1. n \in Names /\ rows[n] # None /\ rows[n] \in Fwd!Row /\ rows[n].expr.usable
            BY <1>3 DEF ForwardingInv, ForwardTypes
      <2>2. n \in Fwd!Readable /\ <<n, slot>> \in Fwd!Keys
            BY <2>1, KindFacts DEF Fwd!Readable, Fwd!Keys, ForwardingInv, ForwardTypes
      <2> QED BY <1>3, <2>2
<1>9. \A r \in p.relabelled : \E n \in Fwd!Readable : r = <<n, rows[n].expr, rows[n].expr.written>>
      <2> SUFFICES ASSUME NEW n \in Fwd!Readable, NEW k \in Fwd!DueKinds(rows[n]) \ {rows[n].kind}
                   PROVE  k = rows[n].expr.written
          BY <1>3
      <2> QED BY <1>4, KindFacts
<1>10. \A j \in Instances : pass'[j] # None => j = i /\ pass'[j] = p
      BY <1>1, <1>3 DEF ForwardingInv, ForwardTypes
<1>11. Passing'
      <2>1. \A r \in p.relabelled : r[3] = r[2].written
            BY <1>9
      <2>2. \A r, q \in p.relabelled : r[1] = q[1] => r = q
            BY <1>9
      <2> QED BY <1>1, <1>8, <1>10, <2>1, <2>2 DEF Passing
<1>12. Filing'
      <2>1. slot \in Int /\ passed \in Int /\ passed <= slot /\ \A k \in Fwd!Keys : k[2] \in Int
            BY DEF ForwardingInv, ForwardTypes, Fwd!Slots, Fwd!Keys
      <2>2. ASSUME NEW l \in p.owed, NEW k \in Fwd!Keys, OnQueue(k)
            PROVE  k[2] <= l[2]
            <3>1. k[2] <= slot /\ (passed < slot => k[2] < slot)
                  BY <2>2 DEF ForwardingInv, Filing
            <3>2. l[2] = slot \/ (l[2] = slot - 1 /\ passed < slot)
                  BY <1>2, <1>3, <2>2
            <3> QED BY <2>1, <3>1, <3>2
      <2>3. \A l \in p.owed : l[2] <= slot
            BY <1>3, <2>1
      <2>4. \A k \in Fwd!Keys : OnQueue(k)' => k[2] <= slot' /\ (passed' < slot' => k[2] < slot')
            BY <1>1, <2>1 DEF ForwardingInv, Filing, OnQueue
      <2> QED BY <1>1, <1>10, <2>2, <2>3, <2>4 DEF Filing, OnQueue
<1>13. Fwd!LabelFollowsExpression' /\ Accounts' /\ Repeats' /\ (~crossed => Recording')
      BY <1>1, QuietAccounts, QuietRepeats, QuietRecording DEF ForwardingInv, Fwd!LabelFollowsExpression
<1> QED BY <1>1, <1>7, <1>11, <1>12, <1>13 DEF ForwardingInv

\* Its jobs are filed.
LEMMA InsertKeeps ==
    ASSUME ForwardingInv, NEW i \in Instances, Fwd!Insert(i)
    PROVE  ForwardingInv'
<1>1. /\ UNCHANGED <<slot, passed, rows, batch, sent, reported, newest, crossed>>
      /\ pass[i] # None /\ pass[i].step = "read"
      BY DEF Fwd!Insert
<1>2. PICK p \in PassRecords : p = pass[i]
      BY <1>1 DEF ForwardingInv, ForwardTypes
<1>3. /\ queue' = [k \in Fwd!Keys |-> IF k \in p.owed /\ queue[k] = Fwd!NoJob THEN Fwd!Filed("full") ELSE queue[k]]
      /\ due' = due \cup {<<n, slot>> : n \in p.seen}
      BY <1>2 DEF Fwd!Insert
<1>4. PICK q : q = [p EXCEPT !.step = "sent"]
      OBVIOUS
<1>5. pass' = [pass EXCEPT ![i] = q]
      BY <1>2, <1>4 DEF Fwd!Insert
<1>6. q \in PassRecords /\ q.step = "sent" /\ q.seen = p.seen /\ q.owed = p.owed /\ q.relabelled = p.relabelled
      BY <1>4 DEF PassRecords
<1>7. p.owed \subseteq Fwd!Keys /\ p.seen \subseteq Names /\ passed = slot /\ \A n \in p.seen : <<n, slot>> \in p.owed
      BY <1>1, <1>2 DEF PassRecords, ForwardingInv, Passing
<1>8. \A j \in Instances : pass'[j] # None => (pass[j] # None) /\ i = j /\ pass'[j] = q
      BY <1>1, <1>5 DEF ForwardingInv, ForwardTypes, Passing
<1>9. \A k \in Fwd!Keys : /\ queue'[k] = queue[k] \/ (queue[k] = Fwd!NoJob /\ queue'[k] = Fwd!Filed("full") /\ k \in p.owed)
                          /\ queue'[k] \in Fwd!Job
      BY <1>3, JobFacts DEF ForwardingInv, ForwardTypes
<1>10. ForwardTypes'
      BY <1>1, <1>3, <1>5, <1>6, <1>7, <1>9 DEF ForwardingInv, ForwardTypes
<1>11. Passing'
      <2>1. /\ \A n \in p.seen : <<n, slot>> \in p.owed
            /\ \A r \in p.relabelled : r[3] = r[2].written
            /\ \A r, s \in p.relabelled : r[1] = s[1] => r = s
            BY <1>1, <1>2 DEF ForwardingInv, Passing
      <2> QED BY <1>1, <1>6, <1>7, <1>8, <2>1 DEF Passing
<1>12. /\ \A k \in p.owed : queue'[k].state # "none"
      <2> SUFFICES ASSUME NEW k \in p.owed PROVE queue'[k].state # "none"
          OBVIOUS
      <2>1. CASE queue[k] = Fwd!NoJob
            BY <1>3, <1>7, <2>1, JobFacts
      <2>2. CASE queue[k] # Fwd!NoJob
            BY <1>3, <1>7, <2>2 DEF ForwardingInv, Accounts, OnQueue
      <2> QED BY <2>1, <2>2
<1>13. Accounts'
      <2>1. \A k \in due' : OnQueue(k)'
            <3>1. \A k \in due : queue'[k].state # "none"
                  BY <1>9, JobFacts DEF ForwardingInv, Accounts, ForwardTypes, OnQueue
            <3> QED BY <1>3, <1>7, <1>12, <3>1 DEF OnQueue
      <2>2. \A k \in Fwd!Keys : /\ ~OnQueue(k)' => queue'[k] = Fwd!NoJob
                                /\ queue'[k].state = "completed" => sent[k] > 0 \/ k \in reported
            BY <1>9, JobFacts DEF ForwardingInv, Accounts, OnQueue
      <2>3. \A j \in Instances : batch[j] # None => \A k \in batch[j].jobs : OnQueue(k)'
            BY <1>9, JobFacts, BatchFacts DEF ForwardingInv, ForwardTypes, Accounts, OnQueue
      <2> QED BY <1>1, <2>1, <2>2, <2>3 DEF ForwardingInv, Accounts, Fwd!AllSettled
<1>14. Repeats'
      <2> SUFFICES ASSUME NEW k \in Fwd!Keys
                   PROVE  (sent[k] + Cardinality(ToForward(k)) <= queue[k].losses + (IF Fetched(k) THEN 1 ELSE 0))'
          BY DEF Repeats
      <2>1. queue'[k].losses = queue[k].losses /\ (Fetched(k)' <=> Fetched(k))
            BY <1>9, JobFacts DEF Fetched
      <2>2. ToForward(k)' = ToForward(k)
            BY <1>1 DEF ToForward
      <2> QED BY <1>1, <2>1, <2>2 DEF ForwardingInv, Repeats
<1>15. Filing'
      <2>1. \A l \in p.owed : l[2] <= slot
            BY <1>1, <1>2 DEF ForwardingInv, Filing
      <2>2. \A k \in Fwd!Keys : OnQueue(k)' => k[2] <= slot
            BY <1>9, <2>1 DEF ForwardingInv, Filing, OnQueue
      <2>3. ~(passed < slot)
            BY <1>7 DEF ForwardingInv, ForwardTypes, Fwd!Slots
      <2> QED BY <1>1, <1>6, <1>8, <2>2, <2>3 DEF Filing
<1>16. ASSUME ~crossed PROVE Recording'
      <2>1. \A k \in Fwd!Keys : Fetched(k)' <=> Fetched(k)
            BY <1>9, JobFacts DEF Fetched
      <2>2. ASSUME NEW k \in Fwd!Keys, NEW l \in Fwd!Keys, Fetched(k), queue'[l].state = "created"
            PROVE  k[2] <= l[2]
            <3>1. CASE queue'[l] = queue[l]
                  BY <1>16, <2>2, <3>1 DEF ForwardingInv, Recording
            <3>2. CASE l \in p.owed
                  BY <1>1, <1>2, <2>2, <3>2 DEF ForwardingInv, Filing, Fetched, OnQueue
            <3> QED BY <1>9, <3>1, <3>2
      <2>3. \A j \in Instances : batch[j] # None => batch[j].jobs \subseteq Fwd!Keys
            BY BatchFacts DEF ForwardingInv, ForwardTypes
      <2> QED BY <1>1, <1>16, <2>1, <2>2, <2>3 DEF ForwardingInv, Recording
<1>17. Fwd!LabelFollowsExpression'
      BY <1>1 DEF ForwardingInv, Fwd!LabelFollowsExpression
<1> QED BY <1>1, <1>10, <1>11, <1>13, <1>14, <1>15, <1>16, <1>17 DEF ForwardingInv
\* It fails, or it is over and its labels are written.
LEMMA PassEndKeeps ==
    ASSUME ForwardingInv, NEW i \in Instances, Fwd!Abandon(i) \/ Fwd!Relabel(i)
    PROVE  ForwardingInv'
<1>1. /\ UNCHANGED <<slot, passed, queue, batch, sent, due, reported, newest, crossed>>
      /\ pass[i] # None /\ pass' = [pass EXCEPT ![i] = None]
      BY DEF Fwd!Abandon, Fwd!Relabel, Fwd!ghostVars
<1>2. PICK p \in PassRecords : p = pass[i]
      BY <1>1 DEF ForwardingInv, ForwardTypes
<1>3. \A n \in Names :
         \/ rows'[n] = rows[n]
         \/ /\ rows[n] # None
            /\ rows'[n] \in Fwd!Row /\ rows'[n].last = rows[n].last /\ rows'[n].kind = rows'[n].expr.written
      <2>1. CASE Fwd!Abandon(i)
            BY <2>1 DEF Fwd!Abandon
      <2>2. CASE Fwd!Relabel(i)
            <3> SUFFICES ASSUME NEW n \in Names, rows'[n] # rows[n]
                         PROVE  /\ rows[n] # None
                                /\ rows'[n] \in Fwd!Row /\ rows'[n].last = rows[n].last
                                /\ rows'[n].kind = rows'[n].expr.written
                OBVIOUS
            <3>1. rows'[n] = IF \E r \in p.relabelled : r[1] = n /\ Fwd!RelabelMatches(n, r[2])
                             THEN [rows[n] EXCEPT !.kind = (CHOOSE r \in p.relabelled : r[1] = n)[3]]
                             ELSE rows[n]
                  BY <1>2, <2>2 DEF Fwd!Relabel
            <3>2. PICK r \in p.relabelled : r[1] = n /\ Fwd!RelabelMatches(n, r[2])
                  BY <3>1
            <3>3. (CHOOSE s \in p.relabelled : s[1] = n) = r
                  <4>1. \A s \in p.relabelled : s[1] = n <=> s = r
                        BY <1>1, <1>2, <3>2 DEF ForwardingInv, Passing
                  <4> QED BY <4>1
            <3>4. r[3] = r[2].written /\ r[3] \in Fwd!Kinds /\ rows[n] # None /\ rows[n].expr = r[2]
                  BY <1>1, <1>2, <3>2 DEF ForwardingInv, Passing, PassRecords, Relabels, Fwd!RelabelMatches
            <3>5. rows'[n] = [rows[n] EXCEPT !.kind = r[3]]
                  BY <3>1, <3>2, <3>3
            <3>6. PICK b \in Fwd!Row : b = rows[n]
                  BY <3>4 DEF ForwardingInv, ForwardTypes
            <3>7. rows'[n] \in Fwd!Row /\ rows'[n].last = b.last /\ rows'[n].kind = r[3] /\ rows'[n].expr = b.expr
                  BY <3>4, <3>5, <3>6 DEF Fwd!Row
            <3> QED BY <3>4, <3>6, <3>7
      <2> QED BY <2>1, <2>2
<1>4. rows' \in [Names -> Fwd!Row \cup {None}]
      <2>1. DOMAIN rows' = Names /\ rows' = [n \in Names |-> rows'[n]]
            BY DEF Fwd!Abandon, Fwd!Relabel, ForwardingInv, ForwardTypes
      <2>2. \A n \in Names : rows'[n] \in Fwd!Row \cup {None}
            BY <1>3 DEF ForwardingInv, ForwardTypes
      <2> QED BY <2>1, <2>2
<1>5. ForwardTypes'
      BY <1>1, <1>4 DEF ForwardingInv, ForwardTypes
<1>6. \A j \in Instances : pass'[j] # None => pass[j] # None /\ pass'[j] = pass[j]
      BY <1>1 DEF ForwardingInv, ForwardTypes
<1>7. Passing' /\ Filing'
      BY <1>1, <1>6 DEF ForwardingInv, Passing, Filing, OnQueue
<1>8. Fwd!LabelFollowsExpression'
      BY <1>3 DEF ForwardingInv, Fwd!LabelFollowsExpression
<1>9. ~crossed => Recording'
      <2>1. \A n \in Names : rows'[n] # None /\ rows'[n].last # None => rows[n] # None /\ rows'[n].last = rows[n].last
            BY <1>3
      <2> QED BY <1>1, <2>1, QuietRecording DEF ForwardingInv
<1> QED BY <1>1, <1>5, <1>7, <1>8, <1>9, QuietAccounts, QuietRepeats DEF ForwardingInv

\* The pass of an older release.
LEMMA OlderKeeps ==
    ASSUME ForwardingInv, NEW n \in Names, Fwd!InsertOlder(n)
    PROVE  ForwardingInv'
<1>1. /\ UNCHANGED <<slot, rows, pass, batch, sent, due, reported, newest, crossed>>
      /\ passed' = slot /\ \A i \in Instances : pass[i] = None
      BY DEF Fwd!InsertOlder, Fwd!ghostVars
<1>2. PICK q \in {"noslot", "nokey"} : queue' = [queue EXCEPT ![<<n, slot>>] = Fwd!Filed(q)]
      BY DEF Fwd!InsertOlder
<1>3. <<n, slot>> \in Fwd!Keys /\ queue[<<n, slot>>] = Fwd!NoJob
      BY DEF Fwd!InsertOlder, Fwd!Keys, ForwardingInv, ForwardTypes
<1>4. Fwd!Filed(q) \in Fwd!Job /\ Fwd!Filed(q).state = "created" /\ Fwd!Filed(q).losses = 0
      BY JobFacts
<1>5. \A k \in Fwd!Keys : /\ queue'[k] = queue[k] \/ (queue[k] = Fwd!NoJob /\ queue'[k] = Fwd!Filed(q) /\ k = <<n, slot>>)
                          /\ queue'[k] \in Fwd!Job
      BY <1>2, <1>3, <1>4 DEF ForwardingInv, ForwardTypes
<1>6. ForwardTypes'
      <2>1. passed' \in 0 .. slot'
            BY <1>1 DEF ForwardingInv, ForwardTypes, Fwd!Slots
      <2> QED BY <1>1, <1>2, <1>4, <2>1 DEF ForwardingInv, ForwardTypes
<1>7. Passing' /\ Fwd!LabelFollowsExpression'
      BY <1>1 DEF ForwardingInv, Passing, Fwd!LabelFollowsExpression
<1>8. Accounts'
      <2>1. \A k \in Fwd!Keys : OnQueue(k) => OnQueue(k)'
            BY <1>4, <1>5 DEF OnQueue
      <2>2. \A k \in Fwd!Keys : /\ ~OnQueue(k)' => queue'[k] = Fwd!NoJob
                                /\ queue'[k].state = "completed" => sent[k] > 0 \/ k \in reported
            BY <1>4, <1>5 DEF ForwardingInv, Accounts, OnQueue
      <2>3. \A j \in Instances : batch[j] # None => batch[j].jobs \subseteq Fwd!Keys
            BY BatchFacts DEF ForwardingInv, ForwardTypes
      <2> QED BY <1>1, <2>1, <2>2, <2>3 DEF ForwardingInv, ForwardTypes, Accounts, Fwd!AllSettled
<1>9. Repeats'
      <2> SUFFICES ASSUME NEW k \in Fwd!Keys
                   PROVE  (sent[k] + Cardinality(ToForward(k)) <= queue[k].losses + (IF Fetched(k) THEN 1 ELSE 0))'
          BY DEF Repeats
      <2>1. queue'[k].losses = queue[k].losses /\ (Fetched(k)' <=> Fetched(k))
            BY <1>4, <1>5, JobFacts DEF Fetched
      <2>2. ToForward(k)' = ToForward(k)
            BY <1>1 DEF ToForward
      <2> QED BY <1>1, <2>1, <2>2 DEF ForwardingInv, Repeats
<1>10. \A k \in Fwd!Keys : k[2] \in Int /\ slot \in Int
      BY DEF ForwardingInv, ForwardTypes, Fwd!Keys, Fwd!Slots
<1>11. Filing'
      <2>1. \A k \in Fwd!Keys : OnQueue(k)' => k[2] <= slot
            BY <1>5, <1>10 DEF ForwardingInv, Filing, OnQueue
      <2> QED BY <1>1, <1>10, <2>1 DEF Filing
<1>12. ASSUME ~crossed PROVE Recording'
      <2>1. \A k \in Fwd!Keys : Fetched(k)' <=> Fetched(k)
            BY <1>4, <1>5, JobFacts DEF Fetched
      <2>2. ASSUME NEW k \in Fwd!Keys, NEW l \in Fwd!Keys, Fetched(k), queue'[l].state = "created"
            PROVE  k[2] <= l[2]
            <3>1. CASE queue'[l] = queue[l]
                  BY <1>12, <2>2, <3>1 DEF ForwardingInv, Recording
            <3>2. CASE l = <<n, slot>>
                  BY <2>2, <3>2 DEF ForwardingInv, Filing, Fetched, OnQueue
            <3> QED BY <1>5, <3>1, <3>2
      <2>3. \A j \in Instances : batch[j] # None => batch[j].jobs \subseteq Fwd!Keys
            BY BatchFacts DEF ForwardingInv, ForwardTypes
      <2> QED BY <1>1, <1>12, <2>1, <2>2, <2>3 DEF ForwardingInv, Recording
<1> QED BY <1>1, <1>6, <1>7, <1>8, <1>9, <1>11, <1>12 DEF ForwardingInv

\* The clock moves between passes.
LEMMA NextSlotKeeps ==
    ASSUME ForwardingInv, Fwd!NextSlot
    PROVE  ForwardingInv'
<1>1. /\ UNCHANGED <<passed, rows, pass, queue, batch, sent, due, reported, newest, crossed>>
      /\ slot < MaxSlot /\ slot' = slot + 1 /\ \A i \in Instances : pass[i] = None
      BY DEF Fwd!NextSlot, Fwd!ghostVars
<1>2. MaxSlot \in Nat /\ slot \in Nat /\ passed \in Nat /\ passed <= slot /\ \A k \in Fwd!Keys : k[2] \in Int
      BY ForwardingAssumption DEF Fwd!SendItAssumption, ForwardingInv, ForwardTypes, Fwd!Slots, Fwd!Keys
<1>3. slot' \in Fwd!Slots /\ passed' \in 0 .. slot'
      BY <1>1, <1>2 DEF ForwardingInv, ForwardTypes, Fwd!Slots
<1>4. ForwardTypes'
      BY <1>1, <1>3 DEF ForwardingInv, ForwardTypes
<1>5. Filing'
      BY <1>1, <1>2 DEF ForwardingInv, Filing, OnQueue
<1>6. Passing' /\ Fwd!LabelFollowsExpression' /\ Accounts' /\ Repeats' /\ (~crossed => Recording')
      BY <1>1, QuietAccounts, QuietRepeats, QuietRecording DEF ForwardingInv, Fwd!LabelFollowsExpression, Passing
<1> QED BY <1>1, <1>4, <1>5, <1>6 DEF ForwardingInv
\* A send-it worker takes what waits.
LEMMA FetchKeeps ==
    ASSUME ForwardingInv, NEW i \in Instances, Fwd!Fetch(i)
    PROVE  ForwardingInv'
<1>1. /\ UNCHANGED <<slot, passed, rows, pass, sent, due, reported, newest>>
      /\ batch[i] = None /\ crossed' = (crossed \/ \E j \in Instances : batch[j] # None)
      BY DEF Fwd!Fetch
<1>2. /\ Fwd!Waiting \subseteq Fwd!Keys /\ \A k \in Fwd!Keys : k \in Fwd!Waiting <=> queue[k].state = "created"
      BY DEF Fwd!Waiting
<1>3. queue' = [k \in Fwd!Keys |-> IF k \in Fwd!Waiting THEN [queue[k] EXCEPT !.state = "active"] ELSE queue[k]]
      BY DEF Fwd!Fetch
<1>4. PICK b \in BatchRecords : /\ batch' = [batch EXCEPT ![i] = b]
                               /\ b.jobs = Fwd!Waiting /\ ~b.recorded /\ b.result = [k \in Fwd!Waiting |-> "pending"]
      <2>1. \A k \in Fwd!Waiting : queue[k].attempt \in 0 .. RetryLimit
            BY <1>2 DEF ForwardingInv, ForwardTypes, Fwd!Job
      <2> DEFINE A == [k \in Fwd!Waiting |-> queue[k].attempt]
                 R == [k \in Fwd!Waiting |-> "pending"]
                 q == [jobs |-> Fwd!Waiting, recorded |-> FALSE, attempt |-> A, result |-> R]
      <2>2. batch' = [batch EXCEPT ![i] = q]
            BY DEF Fwd!Fetch
      <2>3. A \in [Fwd!Waiting -> 0 .. RetryLimit] /\ R \in [Fwd!Waiting -> {"pending", "job", "null", "rejected"}]
            BY <2>1
      <2>4. q \in [jobs : {Fwd!Waiting}, recorded : BOOLEAN, attempt : [Fwd!Waiting -> 0 .. RetryLimit],
                   result : [Fwd!Waiting -> {"pending", "job", "null", "rejected"}]]
            BY <2>3
      <2>5. q \in BatchRecords
            BY <1>2, <2>4 DEF BatchRecords
      <2> QED BY <2>2, <2>5
<1>5. \A k \in Fwd!Keys : /\ queue'[k] \in Fwd!Job /\ queue'[k].losses = queue[k].losses
                          /\ IF k \in Fwd!Waiting THEN queue'[k].state = "active" ELSE queue'[k] = queue[k]
      <2> SUFFICES ASSUME NEW k \in Fwd!Keys
                   PROVE  /\ queue'[k] \in Fwd!Job /\ queue'[k].losses = queue[k].losses
                          /\ IF k \in Fwd!Waiting THEN queue'[k].state = "active" ELSE queue'[k] = queue[k]
          OBVIOUS
      <2>1. PICK q \in Fwd!Job : q = queue[k]
            BY DEF ForwardingInv, ForwardTypes
      <2>2. CASE k \in Fwd!Waiting
            <3>1. queue'[k] = [q EXCEPT !.state = "active"]
                  BY <1>3, <2>1, <2>2
            <3> QED BY <2>1, <2>2, <3>1 DEF Fwd!Job
      <2>3. CASE k \notin Fwd!Waiting
            BY <1>3, <2>1, <2>3
      <2> QED BY <2>2, <2>3
<1>6. ForwardTypes'
      <2>1. crossed' \in BOOLEAN
            BY <1>1
      <2> QED BY <1>1, <1>3, <1>4, <1>5, <2>1 DEF ForwardingInv, ForwardTypes
<1>7. Passing' /\ Fwd!LabelFollowsExpression'
      BY <1>1 DEF ForwardingInv, Passing, Fwd!LabelFollowsExpression
<1>8. \A k \in Fwd!Keys : OnQueue(k)' <=> OnQueue(k)
      BY <1>2, <1>5 DEF OnQueue
<1>9. \A j \in Instances : j # i => batch'[j] = batch[j]
      BY <1>4 DEF ForwardingInv, ForwardTypes
<1>10. batch'[i] = b
       BY <1>4 DEF ForwardingInv, ForwardTypes
<1>11. \A j \in Instances : batch[j] # None => batch[j].jobs \subseteq Fwd!Keys
       BY BatchFacts DEF ForwardingInv, ForwardTypes
<1>12. Accounts'
      <2>1. \A k \in due' : OnQueue(k)'
            BY <1>1, <1>8 DEF ForwardingInv, ForwardTypes, Accounts
      <2>2. \A k \in Fwd!Keys : /\ ~OnQueue(k)' => queue'[k] = Fwd!NoJob
                                /\ queue'[k].state = "completed" => sent[k] > 0 \/ k \in reported
            BY <1>2, <1>5, <1>8 DEF ForwardingInv, Accounts, OnQueue
      <2>3. \A k \in b.jobs : OnQueue(k)' /\ b.result[k] = "pending"
            BY <1>2, <1>4, <1>5 DEF OnQueue
      <2>4. \A j \in Instances \ {i} : batch[j] # None =>
              /\ batch[j].recorded => Fwd!AllSettled(j)'
              /\ \A k \in batch[j].jobs :
                    /\ OnQueue(k)'
                    /\ batch[j].result[k] = "job" => sent[k] > 0
                    /\ batch[j].result[k] \in {"null", "rejected"} => k \in reported
            BY <1>8, <1>9, <1>11 DEF ForwardingInv, Accounts, Fwd!AllSettled
      <2> QED BY <1>1, <1>4, <1>9, <1>10, <2>1, <2>2, <2>3, <2>4 DEF Accounts
<1>13. Repeats'
      <2> SUFFICES ASSUME NEW k \in Fwd!Keys
                   PROVE  (sent[k] + Cardinality(ToForward(k)) <= queue[k].losses + (IF Fetched(k) THEN 1 ELSE 0))'
          BY DEF Repeats
      <2>1. sent[k] + Cardinality(ToForward(k)) <= queue[k].losses + (IF Fetched(k) THEN 1 ELSE 0)
            BY DEF ForwardingInv, Repeats
      <2>2. sent[k] \in Nat /\ queue[k].losses \in Nat
            BY DEF ForwardingInv, ForwardTypes, Fwd!Job
      <2>3. CASE k \in Fwd!Waiting
            <3>1. ToForward(k)' \subseteq ToForward(k) \cup {i}
                  BY <1>9 DEF ToForward
            <3>2. IsFiniteSet(ToForward(k) \cup {i}) /\ Cardinality(ToForward(k) \cup {i}) <= Cardinality(ToForward(k)) + 1
                  BY PendingFinite, OneMore
            <3>3. Cardinality(ToForward(k)') <= Cardinality(ToForward(k) \cup {i})
                  BY <3>1, <3>2, FS_Subset
            <3>4. Cardinality(ToForward(k)') \in Nat /\ Cardinality(ToForward(k) \cup {i}) \in Nat /\ Cardinality(ToForward(k)) \in Nat
                  BY <3>1, <3>2, FS_Subset, FS_CardinalityType, PendingFinite
            <3>5. ~Fetched(k) /\ Fetched(k)'
                  BY <1>2, <1>5, <2>3 DEF Fetched
            <3> QED BY <1>1, <1>5, <2>1, <2>2, <3>2, <3>3, <3>4, <3>5
      <2>4. CASE k \notin Fwd!Waiting
            <3>1. ToForward(k)' = ToForward(k)
                  BY <1>1, <1>4, <1>9, <1>10, <2>4 DEF ToForward
            <3>2. Fetched(k)' <=> Fetched(k)
                  BY <1>5, <2>4 DEF Fetched
            <3> QED BY <1>1, <1>5, <2>1, <3>1, <3>2
      <2> QED BY <2>3, <2>4
<1>14. Filing'
      BY <1>1, <1>8 DEF ForwardingInv, Filing
<1>15. ASSUME ~crossed' PROVE Recording'
      <2>1. ~crossed /\ Recording /\ \A j \in Instances : batch[j] = None
            BY <1>1, <1>15 DEF ForwardingInv
      <2>2. \A k \in Fwd!Keys : queue'[k].state # "created" /\ (Fetched(k) => Fetched(k)') /\ (k \in Fwd!Waiting => Fetched(k)')
            BY <1>2, <1>5 DEF Fetched
      <2>3. \A n \in Names, k \in Fwd!Waiting : newest[n] <= k[2]
            <3> SUFFICES ASSUME NEW n \in Names, NEW k \in Fwd!Waiting PROVE newest[n] <= k[2]
                OBVIOUS
            <3>1. k \in Fwd!Keys /\ queue[k].state = "created" /\ k[2] \in Nat
                  BY <1>2 DEF Fwd!Keys, Fwd!Slots
            <3> QED BY <2>1, <3>1 DEF Recording
      <2>4. \A n \in Names : newest[n] = 0 \/ \E k \in Fwd!Keys : Fetched(k)' /\ k[2] = newest[n]
            BY <2>1, <2>2 DEF Recording
      <2>5. \A n \in Names : rows[n] # None /\ rows[n].last # None => rows[n].last = newest[n]
            BY <2>1 DEF Recording
      <2>6. \A j \in Instances : batch'[j] # None => j = i
            BY <1>9, <2>1
      <2> QED BY <1>1, <1>2, <1>4, <1>10, <2>2, <2>3, <2>4, <2>5, <2>6 DEF Recording
<1> QED BY <1>6, <1>7, <1>12, <1>13, <1>14, <1>15 DEF ForwardingInv

\* One occurrence is forwarded, or not.
LEMMA ForwardKeeps ==
    ASSUME ForwardingInv, NEW i \in Instances, NEW k \in Fwd!Keys, Fwd!Forward(i, k)
    PROVE  ForwardingInv'
<1>1. /\ UNCHANGED <<slot, passed, rows, pass, queue, due, newest, crossed>>
      /\ batch[i] # None /\ k \in batch[i].jobs /\ batch[i].result[k] = "pending"
      BY DEF Fwd!Forward
<1>2. PICK b \in BatchRecords : b = batch[i]
      BY <1>1 DEF ForwardingInv, ForwardTypes
<1>3. PICK r \in {"job", "null", "rejected"} :
         /\ batch' = [batch EXCEPT ![i].result[k] = r]
         /\ \/ r = "job" /\ sent' = [sent EXCEPT ![k] = @ + 1] /\ UNCHANGED reported
            \/ r # "job" /\ reported' = reported \cup {k} /\ UNCHANGED sent
      BY DEF Fwd!Forward
<1>4. PICK c : c = [b EXCEPT !.result[k] = r]
      OBVIOUS
<1>5. /\ c \in BatchRecords /\ batch' = [batch EXCEPT ![i] = c]
      /\ c.jobs = b.jobs /\ c.recorded = b.recorded /\ c.result = [b.result EXCEPT ![k] = r]
      /\ b.result \in [b.jobs -> {"pending", "job", "null", "rejected"}] /\ k \in b.jobs
      <2>1. b.jobs \subseteq Fwd!Keys /\ b.result \in [b.jobs -> {"pending", "job", "null", "rejected"}] /\ k \in b.jobs
            BY <1>1, <1>2, BatchFacts
      <2>2. c \in BatchRecords
            BY <1>4, <2>1, BatchFacts
      <2>3. PICK S \in SUBSET Fwd!Keys :
              b \in [jobs : {S}, recorded : BOOLEAN, attempt : [S -> 0 .. RetryLimit],
                     result : [S -> {"pending", "job", "null", "rejected"}]]
            BY DEF BatchRecords
      <2>4. c.jobs = b.jobs /\ c.recorded = b.recorded /\ c.result = [b.result EXCEPT ![k] = r]
            BY <1>4, <2>3
      <2> QED BY <1>2, <1>3, <1>4, <2>1, <2>2, <2>4
<1>6. sent' \in [Fwd!Keys -> Nat] /\ \A l \in Fwd!Keys : sent'[l] >= sent[l] /\ (l # k => sent'[l] = sent[l])
      BY <1>3 DEF ForwardingInv, ForwardTypes
<1>7. reported \subseteq reported'
      BY <1>3
<1>8. ForwardTypes'
      BY <1>1, <1>5, <1>6 DEF ForwardingInv, ForwardTypes
<1>9. Passing' /\ Fwd!LabelFollowsExpression' /\ Filing'
      BY <1>1 DEF ForwardingInv, Passing, Fwd!LabelFollowsExpression, Filing, OnQueue
<1>10. batch'[i] = c /\ \A j \in Instances : j # i => batch'[j] = batch[j]
      BY <1>5 DEF ForwardingInv, ForwardTypes
<1>11. \A j \in Instances : batch[j] # None => batch[j].jobs \subseteq Fwd!Keys
       BY BatchFacts DEF ForwardingInv, ForwardTypes
<1>12. ~b.recorded
       BY <1>1, <1>2 DEF ForwardingInv, Accounts, Fwd!AllSettled
<1>13. Accounts'
      <2>1. (\A l \in due' : OnQueue(l)') /\ \A l \in Fwd!Keys : ~OnQueue(l)' => queue'[l] = Fwd!NoJob
            BY <1>1 DEF ForwardingInv, Accounts, OnQueue
      <2>2. \A l \in Fwd!Keys : queue'[l].state = "completed" => sent'[l] > 0 \/ l \in reported'
            BY <1>1, <1>6, <1>7 DEF ForwardingInv, ForwardTypes, Accounts
      <2>3. \A l \in c.jobs : /\ OnQueue(l)'
                              /\ c.result[l] = "job" => sent'[l] > 0
                              /\ c.result[l] \in {"null", "rejected"} => l \in reported'
            <3> SUFFICES ASSUME NEW l \in c.jobs
                         PROVE  /\ OnQueue(l)'
                                /\ c.result[l] = "job" => sent'[l] > 0
                                /\ c.result[l] \in {"null", "rejected"} => l \in reported'
                OBVIOUS
            <3>1. l \in Fwd!Keys /\ l \in b.jobs
                  BY <1>5, BatchFacts
            <3>2. /\ OnQueue(l)'
                  /\ b.result[l] = "job" => sent[l] > 0
                  /\ b.result[l] \in {"null", "rejected"} => l \in reported
                  BY <1>1, <1>2, <3>1 DEF ForwardingInv, Accounts, OnQueue
            <3>3. CASE l = k
                  <4>1. c.result[k] = r
                        BY <1>5
                  <4>2. r = "job" => sent'[k] > 0
                        BY <1>3 DEF ForwardingInv, ForwardTypes
                  <4> QED BY <1>3, <3>2, <3>3, <4>1, <4>2
            <3>4. CASE l # k
                  BY <1>5, <1>6, <1>7, <3>1, <3>2, <3>4
            <3> QED BY <3>3, <3>4
      <2>4. \A j \in Instances \ {i} : batch[j] # None =>
              /\ batch[j].recorded => Fwd!AllSettled(j)'
              /\ \A l \in batch[j].jobs :
                    /\ OnQueue(l)'
                    /\ batch[j].result[l] = "job" => sent'[l] > 0
                    /\ batch[j].result[l] \in {"null", "rejected"} => l \in reported'
            <3>1. \A l \in Fwd!Keys : sent[l] > 0 => sent'[l] > 0
                  BY <1>6 DEF ForwardingInv, ForwardTypes
            <3> QED BY <1>1, <1>7, <1>10, <1>11, <3>1 DEF ForwardingInv, Accounts, Fwd!AllSettled, OnQueue
      <2> QED BY <1>5, <1>10, <1>12, <2>1, <2>2, <2>3, <2>4 DEF Accounts
<1>14. Repeats'
      <2> SUFFICES ASSUME NEW l \in Fwd!Keys
                   PROVE  (sent[l] + Cardinality(ToForward(l)) <= queue[l].losses + (IF Fetched(l) THEN 1 ELSE 0))'
          BY DEF Repeats
      <2>1. sent[l] + Cardinality(ToForward(l)) <= queue[l].losses + (IF Fetched(l) THEN 1 ELSE 0)
            BY DEF ForwardingInv, Repeats
      <2>2. sent[l] \in Nat /\ queue[l].losses \in Nat /\ (Fetched(l)' <=> Fetched(l))
            BY <1>1 DEF ForwardingInv, ForwardTypes, Fwd!Job, Fetched
      <2>3. CASE l = k
            <3>1. i \in ToForward(k) /\ ToForward(k)' \subseteq ToForward(k) \ {i}
                  BY <1>1, <1>3, <1>5, <1>10 DEF ToForward
            <3>2. IsFiniteSet(ToForward(k) \ {i}) /\ Cardinality(ToForward(k) \ {i}) = Cardinality(ToForward(k)) - 1
                  BY <3>1, PendingFinite, FS_RemoveElement
            <3>3. Cardinality(ToForward(k)') <= Cardinality(ToForward(k) \ {i}) /\ Cardinality(ToForward(k)') \in Nat
                  BY <3>1, <3>2, FS_Subset, FS_CardinalityType
            <3>4. sent'[k] <= sent[k] + 1 /\ sent'[k] \in Nat
                  BY <1>3 DEF ForwardingInv, ForwardTypes
            <3> QED BY <1>1, <2>1, <2>2, <2>3, <3>2, <3>3, <3>4, PendingFinite
      <2>4. CASE l # k
            <3>1. ToForward(l)' \subseteq ToForward(l)
                  BY <1>1, <1>2, <1>5, <1>10, <2>4 DEF ToForward
            <3>2. Cardinality(ToForward(l)') <= Cardinality(ToForward(l)) /\ Cardinality(ToForward(l)') \in Nat
                  BY <3>1, PendingFinite, FS_Subset, FS_CardinalityType
            <3> QED BY <1>1, <1>6, <2>1, <2>2, <2>4, <3>2, PendingFinite
      <2> QED BY <2>3, <2>4
<1>15. ASSUME ~crossed PROVE Recording'
      <2>1. Recording
            BY <1>15 DEF ForwardingInv
      <2>2. \A j \in Instances : batch'[j] # None => batch[j] # None /\ batch'[j].jobs = batch[j].jobs
                                                     /\ batch'[j].recorded = batch[j].recorded
            BY <1>1, <1>2, <1>5, <1>10
      <2> QED BY <1>1, <2>1, <2>2 DEF Recording, Fetched
<1> QED BY <1>1, <1>8, <1>9, <1>13, <1>14, <1>15 DEF ForwardingInv
\* The bookkeeping of a batch is done, or given up.
LEMMA MarkFacts ==
    ASSUME ForwardingInv, NEW i \in Instances, batch[i] # None, Fwd!AllSettled(i),
           batch' = [batch EXCEPT ![i].recorded = TRUE], UNCHANGED <<queue, sent, due, reported>>
    PROVE  /\ batch' \in [Instances -> BatchRecords \cup {None}]
           /\ batch'[i].recorded = TRUE
           /\ \A j \in Instances : batch'[j] # None => /\ batch[j] # None
                                                       /\ batch'[j].jobs = batch[j].jobs
                                                       /\ j # i => batch'[j] = batch[j]
           /\ Accounts' /\ Repeats'
<1>1. PICK b \in BatchRecords : b = batch[i]
      BY DEF ForwardingInv, ForwardTypes
<1>2. PICK c : c = [b EXCEPT !.recorded = TRUE]
      OBVIOUS
<1>3. c \in BatchRecords /\ c.recorded = TRUE /\ c.jobs = b.jobs /\ c.result = b.result
      <2>1. PICK S \in SUBSET Fwd!Keys :
              b \in [jobs : {S}, recorded : BOOLEAN, attempt : [S -> 0 .. RetryLimit],
                     result : [S -> {"pending", "job", "null", "rejected"}]]
            BY DEF BatchRecords
      <2>2. c.recorded = TRUE /\ c.jobs = b.jobs /\ c.result = b.result
            BY <1>2, <2>1
      <2> QED BY <1>2, <2>2, BatchFacts
<1>4. batch' = [batch EXCEPT ![i] = c]
      BY <1>1, <1>2
<1>5. batch'[i] = c /\ \A j \in Instances : j # i => batch'[j] = batch[j]
      BY <1>4 DEF ForwardingInv, ForwardTypes
<1>6. batch' \in [Instances -> BatchRecords \cup {None}]
      BY <1>3, <1>4 DEF ForwardingInv, ForwardTypes
<1>7. \A j \in Instances : batch'[j] # None => /\ batch[j] # None
                                               /\ batch'[j].jobs = batch[j].jobs
                                               /\ batch'[j].result = batch[j].result
                                               /\ batch'[j].recorded => Fwd!AllSettled(j)
      <2>1. \A j \in Instances : batch[j] # None /\ batch[j].recorded => Fwd!AllSettled(j)
            BY DEF ForwardingInv, Accounts
      <2> QED BY <1>1, <1>3, <1>5, <2>1
<1>8. Accounts'
      <2>1. \A j \in Instances : batch'[j] # None =>
              /\ batch'[j].recorded => Fwd!AllSettled(j)'
              /\ \A k \in batch'[j].jobs :
                    /\ OnQueue(k)'
                    /\ batch'[j].result[k] = "job" => sent'[k] > 0
                    /\ batch'[j].result[k] \in {"null", "rejected"} => k \in reported'
            BY <1>7 DEF ForwardingInv, Accounts, Fwd!AllSettled, OnQueue
      <2>2. /\ \A k \in due' : OnQueue(k)'
            /\ \A k \in Fwd!Keys : /\ ~OnQueue(k)' => queue'[k] = Fwd!NoJob
                                   /\ queue'[k].state = "completed" => sent'[k] > 0 \/ k \in reported'
            BY DEF ForwardingInv, Accounts, OnQueue
      <2> QED BY <2>1, <2>2 DEF Accounts
<1>9. Repeats'
      <2> SUFFICES ASSUME NEW k \in Fwd!Keys
                   PROVE  (sent[k] + Cardinality(ToForward(k)) <= queue[k].losses + (IF Fetched(k) THEN 1 ELSE 0))'
          BY DEF Repeats
      <2>1. sent[k] + Cardinality(ToForward(k)) <= queue[k].losses + (IF Fetched(k) THEN 1 ELSE 0)
            BY DEF ForwardingInv, Repeats
      <2>2. sent[k] \in Nat /\ queue[k].losses \in Nat /\ (Fetched(k)' <=> Fetched(k))
            BY DEF ForwardingInv, ForwardTypes, Fwd!Job, Fetched
      <2>3. ToForward(k)' \subseteq ToForward(k)
            BY <1>7 DEF ToForward
      <2>4. Cardinality(ToForward(k)') <= Cardinality(ToForward(k)) /\ Cardinality(ToForward(k)') \in Nat
            BY <2>3, PendingFinite, FS_Subset, FS_CardinalityType
      <2> QED BY <2>1, <2>2, <2>4, PendingFinite
<1> QED BY <1>3, <1>5, <1>6, <1>7, <1>8, <1>9

\* The record of the newest jobs fails.
LEMMA RecordFailsKeeps ==
    ASSUME ForwardingInv, NEW i \in Instances, Fwd!RecordFails(i)
    PROVE  ForwardingInv'
<1>1. /\ UNCHANGED <<slot, passed, rows, pass, queue, sent, due, reported, newest, crossed>>
      /\ batch[i] # None /\ ~batch[i].recorded /\ Fwd!AllSettled(i)
      /\ batch' = [batch EXCEPT ![i].recorded = TRUE]
      BY DEF Fwd!RecordFails, Fwd!ghostVars
<1>2. /\ batch' \in [Instances -> BatchRecords \cup {None}]
      /\ batch'[i].recorded = TRUE
      /\ \A j \in Instances : batch'[j] # None => /\ batch[j] # None
                                                  /\ batch'[j].jobs = batch[j].jobs
                                                  /\ j # i => batch'[j] = batch[j]
      /\ Accounts' /\ Repeats'
      BY <1>1, MarkFacts
<1>3. ForwardTypes'
      BY <1>1, <1>2 DEF ForwardingInv, ForwardTypes
<1>4. Passing' /\ Fwd!LabelFollowsExpression' /\ Filing'
      BY <1>1 DEF ForwardingInv, Passing, Fwd!LabelFollowsExpression, Filing, OnQueue
<1>5. ASSUME ~crossed PROVE Recording'
      <2>1. Recording
            BY <1>5 DEF ForwardingInv
      <2> QED BY <1>1, <1>2, <2>1 DEF Recording, Fetched
<1> QED BY <1>1, <1>2, <1>3, <1>4, <1>5 DEF ForwardingInv

\* The newest job of each schedule is recorded.
LEMMA RecordKeeps ==
    ASSUME ForwardingInv, NEW i \in Instances, Fwd!Record(i)
    PROVE  ForwardingInv'
<1>1. /\ UNCHANGED <<slot, passed, pass, queue, sent, due, reported>>
      /\ batch[i] # None /\ ~batch[i].recorded /\ Fwd!AllSettled(i)
      /\ batch' = [batch EXCEPT ![i].recorded = TRUE]
      /\ newest' = [n \in Names |-> IF rows[n] # None /\ Fwd!Named(i, n) # {}
                    THEN Fwd!SetMax({k[2] : k \in Fwd!Named(i, n)} \cup {newest[n]}) ELSE newest[n]]
      /\ crossed' = (crossed \/ \E k \in batch[i].jobs : Fwd!FiledSlot(k) # k[2])
      BY DEF Fwd!Record
<1>2. PICK pick \in [Names -> Fwd!Slots \cup {None}] :
        /\ \A n \in Names : IF Fwd!Fired(i, n) = {} THEN pick[n] = None
                                                ELSE <<n, pick[n]>> \in Fwd!Fired(i, n)
        /\ rows' = [n \in Names |-> IF rows[n] # None /\ pick[n] # None
                                    THEN [rows[n] EXCEPT !.last = pick[n]] ELSE rows[n]]
      BY DEF Fwd!Record
<1>3. /\ batch' \in [Instances -> BatchRecords \cup {None}]
      /\ batch'[i].recorded = TRUE
      /\ \A j \in Instances : batch'[j] # None => /\ batch[j] # None
                                                  /\ batch'[j].jobs = batch[j].jobs
                                                  /\ j # i => batch'[j] = batch[j]
      /\ Accounts' /\ Repeats'
      BY <1>1, MarkFacts
<1>4. batch[i].jobs \subseteq Fwd!Keys /\ \A n \in Names : Fwd!Named(i, n) \subseteq batch[i].jobs
      BY <1>1, BatchFacts DEF ForwardingInv, ForwardTypes, Fwd!Named
<1>5. \A n \in Names : /\ {k[2] : k \in Fwd!Named(i, n)} \cup {newest[n]} \subseteq 0 .. MaxSlot
                       /\ {k[2] : k \in Fwd!Named(i, n)} \subseteq Fwd!Slots
      <2> SUFFICES ASSUME NEW n \in Names
                   PROVE  /\ {k[2] : k \in Fwd!Named(i, n)} \cup {newest[n]} \subseteq 0 .. MaxSlot
                          /\ {k[2] : k \in Fwd!Named(i, n)} \subseteq Fwd!Slots
          OBVIOUS
      <2>1. newest[n] \in 0 .. MaxSlot
            BY DEF ForwardingInv, ForwardTypes
      <2>2. \A k \in Fwd!Named(i, n) : k[2] \in Fwd!Slots
            BY <1>4 DEF Fwd!Keys
      <2>3. Fwd!Slots \subseteq 0 .. MaxSlot
            BY ForwardingAssumption DEF Fwd!Slots, Fwd!SendItAssumption
      <2> QED BY <2>1, <2>2, <2>3
<1>6. \A n \in Names : IF rows[n] # None /\ Fwd!Named(i, n) # {}
         THEN /\ newest'[n] \in {k[2] : k \in Fwd!Named(i, n)} \cup {newest[n]}
              /\ \A y \in {k[2] : k \in Fwd!Named(i, n)} \cup {newest[n]} : y <= newest'[n]
         ELSE newest'[n] = newest[n]
      <2> SUFFICES ASSUME NEW n \in Names, rows[n] # None, Fwd!Named(i, n) # {}
                   PROVE  /\ newest'[n] \in {k[2] : k \in Fwd!Named(i, n)} \cup {newest[n]}
                          /\ \A y \in {k[2] : k \in Fwd!Named(i, n)} \cup {newest[n]} : y <= newest'[n]
          BY <1>1
      <2>1. PICK S \in SUBSET (0 .. MaxSlot) : S = {k[2] : k \in Fwd!Named(i, n)} \cup {newest[n]} /\ S # {}
            BY <1>5
      <2>2. newest'[n] = Fwd!SetMax(S)
            BY <1>1, <2>1
      <2> QED BY <2>1, <2>2, LatestOf
<1>7. \A n \in Names : /\ rows'[n] = rows[n] \/ (rows[n] # None /\ pick[n] # None /\ rows'[n] = [rows[n] EXCEPT !.last = pick[n]])
                       /\ rows'[n] # None => /\ rows[n] # None /\ rows'[n].by = rows[n].by
                                             /\ rows'[n].kind = rows[n].kind /\ rows'[n].expr = rows[n].expr
                       /\ rows'[n] \in Fwd!Row \cup {None}
      <2> SUFFICES ASSUME NEW n \in Names, rows'[n] # rows[n]
                   PROVE  /\ rows[n] # None /\ pick[n] # None /\ rows'[n] = [rows[n] EXCEPT !.last = pick[n]]
                          /\ rows'[n].by = rows[n].by
                          /\ rows'[n].kind = rows[n].kind /\ rows'[n].expr = rows[n].expr
                          /\ rows'[n] \in Fwd!Row
          BY DEF ForwardingInv, ForwardTypes
      <2>1. rows[n] # None /\ pick[n] # None /\ rows'[n] = [rows[n] EXCEPT !.last = pick[n]]
            BY <1>2
      <2>2. PICK r \in Fwd!Row : r = rows[n]
            BY <2>1 DEF ForwardingInv, ForwardTypes
      <2> QED BY <2>1, <2>2 DEF Fwd!Row
<1>8. ForwardTypes'
      <2>1. rows' \in [Names -> Fwd!Row \cup {None}]
            BY <1>2, <1>7
      <2>2. newest' \in [Names -> 0 .. MaxSlot]
            <3>1. \A n \in Names : newest'[n] \in 0 .. MaxSlot
                  BY <1>5, <1>6 DEF ForwardingInv, ForwardTypes
            <3> QED BY <1>1, <3>1
      <2>3. crossed' \in BOOLEAN
            BY <1>1
      <2> QED BY <1>1, <1>3, <2>1, <2>2, <2>3 DEF ForwardingInv, ForwardTypes
<1>9. Passing' /\ Fwd!LabelFollowsExpression' /\ Filing'
      <2>1. Fwd!LabelFollowsExpression'
            <3> SUFFICES ASSUME NEW n \in Names, rows'[n] # None, rows'[n].by = "this"
                         PROVE  rows'[n].kind = rows'[n].expr.written
                BY DEF Fwd!LabelFollowsExpression
            <3>1. /\ rows[n] # None /\ rows[n].by = "this"
                  /\ rows'[n].kind = rows[n].kind /\ rows'[n].expr = rows[n].expr
                  BY <1>7
            <3> QED BY <3>1 DEF ForwardingInv, Fwd!LabelFollowsExpression
      <2>2. Passing' /\ Filing'
            BY <1>1 DEF ForwardingInv, Passing, Filing, OnQueue
      <2> QED BY <2>1, <2>2
<1>10. ASSUME ~crossed' PROVE Recording'
      <2>1. Recording /\ \A k \in batch[i].jobs : Fwd!FiledSlot(k) = k[2]
            BY <1>1, <1>10 DEF ForwardingInv
      <2>2. \A n \in Names : \A k \in Fwd!Named(i, n) : newest[n] <= k[2]
            BY <1>1, <1>4, <2>1 DEF Recording
      <2>3. ASSUME NEW n \in Names, rows[n] # None, Fwd!Named(i, n) # {}
            PROVE  /\ \E k \in Fwd!Named(i, n) : k[2] = newest'[n]
                   /\ pick[n] # None /\ pick[n] = newest'[n]
            <3>1. newest[n] \in Nat /\ \A k \in Fwd!Named(i, n) : k[2] \in Nat
                  BY <1>4 DEF ForwardingInv, ForwardTypes, Fwd!Keys, Fwd!Slots
            <3>2. \A k \in Fwd!Named(i, n) : k[2] <= newest'[n]
                  BY <1>6, <2>3
            <3>3. PICK k \in Fwd!Named(i, n) : k[2] = newest'[n]
                  <4>1. CASE newest'[n] = newest[n]
                        <5>1. PICK k \in Fwd!Named(i, n) : TRUE
                              BY <2>3
                        <5>2. k[2] = newest'[n]
                              BY <2>2, <3>1, <3>2, <4>1
                        <5> QED BY <5>2
                  <4>2. CASE newest'[n] # newest[n]
                        BY <1>6, <2>3, <4>2
                  <4> QED BY <4>1, <4>2
            <3>4. \A l \in Fwd!Named(i, n) : Fwd!FiledSlot(l) = l[2]
                  BY <1>4, <2>1
            <3>5. k \in Fwd!Fired(i, n)
                  BY <3>2, <3>3, <3>4 DEF Fwd!Fired
            <3>6. <<n, pick[n]>> \in Fwd!Named(i, n) /\ Fwd!FiledSlot(k) <= Fwd!FiledSlot(<<n, pick[n]>>)
                  BY <1>2, <3>3, <3>5 DEF Fwd!Fired
            <3>7. k[2] <= pick[n] /\ pick[n] <= newest'[n] /\ pick[n] \in Nat
                  BY <3>1, <3>2, <3>3, <3>4, <3>6
            <3>8. pick[n] = newest'[n]
                  BY <3>1, <3>3, <3>7
            <3>9. pick[n] # None
                  BY <3>7, ForwardingAssumption DEF Fwd!SendItAssumption
            <3> QED BY <3>3, <3>8, <3>9
      <2>4. ASSUME NEW n \in Names, rows[n] # None, Fwd!Named(i, n) = {}
            PROVE  rows'[n] = rows[n] /\ newest'[n] = newest[n]
            <3>1. Fwd!Fired(i, n) = {}
                  BY <2>4 DEF Fwd!Fired
            <3>2. pick[n] = None
                  BY <1>2, <3>1
            <3> QED BY <1>2, <1>6, <2>4, <3>2
      <2>5. \A n \in Names : rows'[n] # None /\ rows'[n].last # None => rows'[n].last = newest'[n]
            <3> SUFFICES ASSUME NEW n \in Names, rows'[n] # None, rows'[n].last # None
                         PROVE  rows'[n].last = newest'[n]
                OBVIOUS
            <3>1. rows[n] # None
                  BY <1>7
            <3>2. PICK r \in Fwd!Row : r = rows[n]
                  BY <3>1 DEF ForwardingInv, ForwardTypes
            <3>3. CASE Fwd!Named(i, n) # {}
                  <4>1. rows'[n] = [r EXCEPT !.last = pick[n]]
                        BY <1>2, <2>3, <3>1, <3>2, <3>3
                  <4>2. rows'[n].last = pick[n]
                        BY <3>2, <4>1 DEF Fwd!Row
                  <4> QED BY <2>3, <3>1, <3>3, <4>2
            <3>4. CASE Fwd!Named(i, n) = {}
                  BY <2>1, <2>4, <3>1, <3>4 DEF Recording
            <3> QED BY <3>3, <3>4
      <2>6. \A n \in Names : newest'[n] = 0 \/ \E k \in Fwd!Keys : Fetched(k)' /\ k[2] = newest'[n]
            <3> SUFFICES ASSUME NEW n \in Names
                         PROVE  newest'[n] = 0 \/ \E k \in Fwd!Keys : Fetched(k) /\ k[2] = newest'[n]
                BY <1>1 DEF Fetched
            <3>1. CASE rows[n] # None /\ Fwd!Named(i, n) # {}
                  <4>1. PICK k \in Fwd!Named(i, n) : k[2] = newest'[n]
                        BY <2>3, <3>1
                  <4>2. k \in Fwd!Keys /\ Fetched(k)
                        BY <1>1, <1>4, <2>1 DEF Recording
                  <4> QED BY <4>1, <4>2
            <3>2. CASE ~(rows[n] # None /\ Fwd!Named(i, n) # {})
                  <4>1. newest'[n] = newest[n]
                        BY <1>6, <3>2
                  <4> QED BY <2>1, <4>1 DEF Recording
            <3> QED BY <3>1, <3>2
      <2>7. \A j, l \in Instances : batch'[j] # None /\ batch'[l] # None => j = l
            BY <1>3, <2>1 DEF Recording
      <2>8. \A j \in Instances : batch'[j] # None => j = i
            BY <1>1, <1>3, <2>1 DEF Recording
      <2>9. \A j \in Instances : batch'[j] # None =>
              \A k \in batch'[j].jobs : Fetched(k)' /\ (~batch'[j].recorded => \A n \in Names : newest'[n] <= k[2])
            BY <1>1, <1>3, <2>1, <2>8 DEF Recording, Fetched
      <2>10. \A k, l \in Fwd!Keys : Fetched(k)' /\ queue'[l].state = "created" => k[2] <= l[2]
            BY <1>1, <2>1 DEF Recording, Fetched
      <2> QED BY <2>5, <2>6, <2>7, <2>9, <2>10 DEF Recording
<1> QED BY <1>3, <1>8, <1>9, <1>10 DEF ForwardingInv
\* A batch is let go, by its end or its instance's.
LEMMA LetGo ==
    ASSUME ForwardingInv, NEW i \in Instances, batch' = [batch EXCEPT ![i] = None]
    PROVE  /\ batch' \in [Instances -> BatchRecords \cup {None}]
           /\ \A j \in Instances : batch'[j] # None => batch[j] # None /\ batch'[j] = batch[j]
           /\ \A k : /\ Cardinality(ToForward(k)') <= Cardinality(ToForward(k))
                     /\ Cardinality(ToForward(k)') \in Nat /\ Cardinality(ToForward(k)) \in Nat
<1>1. /\ batch' \in [Instances -> BatchRecords \cup {None}]
      /\ \A j \in Instances : batch'[j] # None => batch[j] # None /\ batch'[j] = batch[j]
      BY DEF ForwardingInv, ForwardTypes
<1>2. ASSUME NEW k
      PROVE  /\ Cardinality(ToForward(k)') <= Cardinality(ToForward(k))
             /\ Cardinality(ToForward(k)') \in Nat /\ Cardinality(ToForward(k)) \in Nat
      <2>1. ToForward(k)' \subseteq ToForward(k)
            BY <1>1 DEF ToForward
      <2> QED BY <2>1, PendingFinite, FS_Subset, FS_CardinalityType
<1> QED BY <1>1, <1>2

\* A batch that went through completes.
LEMMA CompleteKeeps ==
    ASSUME ForwardingInv, NEW i \in Instances, Fwd!Complete(i)
    PROVE  ForwardingInv'
<1>1. /\ UNCHANGED <<slot, passed, rows, pass, sent, due, reported, newest, crossed>>
      /\ batch[i] # None /\ batch[i].recorded
      /\ batch' = [batch EXCEPT ![i] = None]
      /\ queue' = [k \in Fwd!Keys |-> IF k \in Fwd!Held(i) THEN [queue[k] EXCEPT !.state = "completed"] ELSE queue[k]]
      BY DEF Fwd!Complete, Fwd!ghostVars
<1>2. /\ batch' \in [Instances -> BatchRecords \cup {None}]
      /\ \A j \in Instances : batch'[j] # None => batch[j] # None /\ batch'[j] = batch[j]
      /\ \A k : /\ Cardinality(ToForward(k)') <= Cardinality(ToForward(k))
                /\ Cardinality(ToForward(k)') \in Nat /\ Cardinality(ToForward(k)) \in Nat
      BY <1>1, LetGo
<1>3. \A k \in Fwd!Keys : /\ queue'[k] \in Fwd!Job /\ queue'[k].losses = queue[k].losses
                          /\ queue'[k] = queue[k] \/ (k \in batch[i].jobs /\ queue[k].state = "active" /\ queue'[k].state = "completed")
      <2> SUFFICES ASSUME NEW k \in Fwd!Keys
                   PROVE  /\ queue'[k] \in Fwd!Job /\ queue'[k].losses = queue[k].losses
                          /\ queue'[k] = queue[k] \/ (k \in batch[i].jobs /\ queue[k].state = "active" /\ queue'[k].state = "completed")
          OBVIOUS
      <2>1. PICK q \in Fwd!Job : q = queue[k]
            BY DEF ForwardingInv, ForwardTypes
      <2>2. CASE k \in Fwd!Held(i)
            <3>1. queue'[k] = [q EXCEPT !.state = "completed"]
                  BY <1>1, <2>1, <2>2
            <3>2. queue'[k] \in Fwd!Job /\ queue'[k].losses = q.losses /\ queue'[k].state = "completed"
                  BY <3>1 DEF Fwd!Job
            <3> QED BY <2>1, <2>2, <3>2 DEF Fwd!Held
      <2>3. CASE k \notin Fwd!Held(i)
            BY <1>1, <2>1, <2>3
      <2> QED BY <2>2, <2>3
<1>4. ForwardTypes'
      BY <1>1, <1>2, <1>3 DEF ForwardingInv, ForwardTypes
<1>5. \A k \in Fwd!Keys : /\ OnQueue(k)' <=> OnQueue(k)
                          /\ Fetched(k)' <=> Fetched(k)
                          /\ queue'[k].state = "created" <=> queue[k].state = "created"
      BY <1>3 DEF OnQueue, Fetched
<1>6. Passing' /\ Fwd!LabelFollowsExpression' /\ Filing'
      <2>1. Filing'
            BY <1>1, <1>5, QuietFiling DEF ForwardingInv
      <2> QED BY <1>1, <2>1 DEF ForwardingInv, Passing, Fwd!LabelFollowsExpression
<1>7. \A j \in Instances : batch[j] # None => batch[j].jobs \subseteq Fwd!Keys
      BY BatchFacts DEF ForwardingInv, ForwardTypes
<1>8. Accounts'
      <2>1. \A k \in due' : OnQueue(k)'
            BY <1>1, <1>5 DEF ForwardingInv, ForwardTypes, Accounts
      <2>2. \A k \in Fwd!Keys : ~OnQueue(k)' => queue'[k] = Fwd!NoJob
            BY <1>3, <1>5 DEF ForwardingInv, Accounts, OnQueue
      <2>3. \A k \in batch[i].jobs : sent[k] > 0 \/ k \in reported
            <3> SUFFICES ASSUME NEW k \in batch[i].jobs PROVE sent[k] > 0 \/ k \in reported
                OBVIOUS
            <3>1. batch[i].result[k] # "pending"
                  BY <1>1 DEF ForwardingInv, Accounts, Fwd!AllSettled
            <3>2. batch[i].result[k] \in {"pending", "job", "null", "rejected"}
                  BY <1>1, BatchFacts DEF ForwardingInv, ForwardTypes
            <3> QED BY <1>1, <3>1, <3>2 DEF ForwardingInv, Accounts
      <2>4. \A k \in Fwd!Keys : queue'[k].state = "completed" => sent[k] > 0 \/ k \in reported
            BY <1>3, <2>3 DEF ForwardingInv, Accounts
      <2>5. \A j \in Instances : batch'[j] # None =>
              /\ batch'[j].recorded => Fwd!AllSettled(j)'
              /\ \A k \in batch'[j].jobs :
                    /\ OnQueue(k)'
                    /\ batch'[j].result[k] = "job" => sent[k] > 0
                    /\ batch'[j].result[k] \in {"null", "rejected"} => k \in reported
            BY <1>2, <1>5, <1>7 DEF ForwardingInv, Accounts, Fwd!AllSettled
      <2> QED BY <1>1, <2>1, <2>2, <2>4, <2>5 DEF Accounts
<1>9. Repeats'
      <2> SUFFICES ASSUME NEW k \in Fwd!Keys
                   PROVE  (sent[k] + Cardinality(ToForward(k)) <= queue[k].losses + (IF Fetched(k) THEN 1 ELSE 0))'
          BY DEF Repeats
      <2>1. sent[k] + Cardinality(ToForward(k)) <= queue[k].losses + (IF Fetched(k) THEN 1 ELSE 0)
            BY DEF ForwardingInv, Repeats
      <2>2. sent[k] \in Nat /\ queue[k].losses \in Nat
            BY DEF ForwardingInv, ForwardTypes, Fwd!Job
      <2> QED BY <1>1, <1>2, <1>3, <1>5, <2>1, <2>2
<1>10. ASSUME ~crossed PROVE Recording'
      <2>1. Recording
            BY <1>10 DEF ForwardingInv
      <2> QED BY <1>1, <1>2, <1>5, <1>7, <2>1 DEF Recording
<1> QED BY <1>1, <1>4, <1>6, <1>8, <1>9, <1>10 DEF ForwardingInv

\* An instance dies.
LEMMA CrashKeeps ==
    ASSUME ForwardingInv, NEW i \in Instances, Fwd!Crash(i)
    PROVE  ForwardingInv'
<1>1. /\ UNCHANGED <<slot, passed, rows, queue, sent, due, reported, newest, crossed>>
      /\ batch' = [batch EXCEPT ![i] = None] /\ pass' = [pass EXCEPT ![i] = None]
      BY DEF Fwd!Crash, Fwd!ghostVars
<1>2. /\ batch' \in [Instances -> BatchRecords \cup {None}]
      /\ \A j \in Instances : batch'[j] # None => batch[j] # None /\ batch'[j] = batch[j]
      /\ \A k : /\ Cardinality(ToForward(k)') <= Cardinality(ToForward(k))
                /\ Cardinality(ToForward(k)') \in Nat /\ Cardinality(ToForward(k)) \in Nat
      BY <1>1, LetGo
<1>3. ForwardTypes'
      BY <1>1, <1>2 DEF ForwardingInv, ForwardTypes
<1>4. \A j \in Instances : pass'[j] # None => pass[j] # None /\ pass'[j] = pass[j]
      BY <1>1 DEF ForwardingInv, ForwardTypes
<1>5. Passing' /\ Fwd!LabelFollowsExpression' /\ Filing'
      BY <1>1, <1>4 DEF ForwardingInv, Passing, Fwd!LabelFollowsExpression, Filing, OnQueue
<1>6. Accounts'
      BY <1>1, <1>2 DEF ForwardingInv, Accounts, Fwd!AllSettled, OnQueue
<1>7. Repeats'
      <2> SUFFICES ASSUME NEW k \in Fwd!Keys
                   PROVE  (sent[k] + Cardinality(ToForward(k)) <= queue[k].losses + (IF Fetched(k) THEN 1 ELSE 0))'
          BY DEF Repeats
      <2>1. sent[k] + Cardinality(ToForward(k)) <= queue[k].losses + (IF Fetched(k) THEN 1 ELSE 0)
            BY DEF ForwardingInv, Repeats
      <2>2. sent[k] \in Nat /\ queue[k].losses \in Nat /\ (Fetched(k)' <=> Fetched(k))
            BY <1>1 DEF ForwardingInv, ForwardTypes, Fwd!Job, Fetched
      <2> QED BY <1>1, <1>2, <2>1, <2>2
<1>8. ~crossed => Recording'
      BY <1>1, <1>2 DEF ForwardingInv, Recording, Fetched
<1> QED BY <1>1, <1>3, <1>5, <1>6, <1>7, <1>8 DEF ForwardingInv

\* Claims of running jobs are taken; a batch goes on, or is over.
LEMMA LossKeeps ==
    ASSUME ForwardingInv, NEW S \in SUBSET Fwd!Keys, \A k \in S : queue[k].state = "active",
           UNCHANGED <<slot, passed, rows, pass, sent, due, reported, newest>>, crossed' = TRUE,
           queue' = [k \in Fwd!Keys |-> IF k \in S THEN Fwd!Lost(queue[k]) ELSE queue[k]],
           batch' = batch \/ \E i \in Instances : batch' = [batch EXCEPT ![i] = None]
    PROVE  ForwardingInv'
<1>1. /\ batch' \in [Instances -> BatchRecords \cup {None}]
      /\ \A j \in Instances : batch'[j] # None => batch[j] # None /\ batch'[j] = batch[j]
      /\ \A k : /\ Cardinality(ToForward(k)') <= Cardinality(ToForward(k))
                /\ Cardinality(ToForward(k)') \in Nat /\ Cardinality(ToForward(k)) \in Nat
      <2>1. CASE batch' = batch
            <3>1. \A k : ToForward(k)' = ToForward(k)
                  BY <2>1 DEF ToForward
            <3>2. \A k : Cardinality(ToForward(k)') = Cardinality(ToForward(k))
                  BY <3>1
            <3>3. \A k : Cardinality(ToForward(k)) \in Nat
                  BY PendingFinite
            <3> QED BY <2>1, <3>2, <3>3 DEF ForwardingInv, ForwardTypes
      <2>2. CASE \E i \in Instances : batch' = [batch EXCEPT ![i] = None]
            BY <2>2, LetGo
      <2> QED BY <2>1, <2>2
<1>2. \A k \in Fwd!Keys : /\ queue'[k] \in Fwd!Job
                          /\ \/ queue'[k] = queue[k]
                             \/ /\ queue[k].state = "active" /\ queue'[k].state \in {"created", "failed"}
                                /\ queue'[k].losses = queue[k].losses + 1
      <2> SUFFICES ASSUME NEW k \in Fwd!Keys
                   PROVE  /\ queue'[k] \in Fwd!Job
                          /\ \/ queue'[k] = queue[k]
                             \/ /\ queue[k].state = "active" /\ queue'[k].state \in {"created", "failed"}
                                /\ queue'[k].losses = queue[k].losses + 1
          OBVIOUS
      <2>1. PICK q \in Fwd!Job : q = queue[k]
            BY DEF ForwardingInv, ForwardTypes
      <2>2. CASE k \in S
            <3>1. queue'[k] = Fwd!Lost(q)
                  BY <2>1, <2>2
            <3>2. /\ queue'[k] \in Fwd!Job /\ queue'[k].state \in {"created", "failed"}
                  /\ queue'[k].losses = q.losses + 1
                  BY <3>1, JobFacts
            <3> QED BY <2>1, <2>2, <3>2
      <2>3. CASE k \notin S
            BY <2>1, <2>3
      <2> QED BY <2>2, <2>3
<1>3. ForwardTypes'
      BY <1>1, <1>2 DEF ForwardingInv, ForwardTypes
<1>4. \A k \in Fwd!Keys : OnQueue(k)' <=> OnQueue(k)
      BY <1>2 DEF OnQueue
<1>5. Passing' /\ Fwd!LabelFollowsExpression' /\ Filing'
      <2>1. Filing'
            BY <1>1, <1>4, QuietFiling DEF ForwardingInv
      <2> QED BY <1>1, <2>1 DEF ForwardingInv, Passing, Fwd!LabelFollowsExpression
<1>6. \A j \in Instances : batch[j] # None => batch[j].jobs \subseteq Fwd!Keys
      BY BatchFacts DEF ForwardingInv, ForwardTypes
<1>7. Accounts'
      <2>1. \A k \in due' : OnQueue(k)'
            BY <1>1, <1>4 DEF ForwardingInv, ForwardTypes, Accounts
      <2>2. \A k \in Fwd!Keys : /\ ~OnQueue(k)' => queue'[k] = Fwd!NoJob
                                /\ queue'[k].state = "completed" => sent[k] > 0 \/ k \in reported
            BY <1>2 DEF ForwardingInv, Accounts, OnQueue
      <2>3. \A j \in Instances : batch'[j] # None =>
              /\ batch'[j].recorded => Fwd!AllSettled(j)'
              /\ \A k \in batch'[j].jobs :
                    /\ OnQueue(k)'
                    /\ batch'[j].result[k] = "job" => sent[k] > 0
                    /\ batch'[j].result[k] \in {"null", "rejected"} => k \in reported
            BY <1>1, <1>4, <1>6 DEF ForwardingInv, Accounts, Fwd!AllSettled
      <2> QED BY <1>1, <2>1, <2>2, <2>3 DEF Accounts
<1>8. Repeats'
      <2> SUFFICES ASSUME NEW k \in Fwd!Keys
                   PROVE  (sent[k] + Cardinality(ToForward(k)) <= queue[k].losses + (IF Fetched(k) THEN 1 ELSE 0))'
          BY DEF Repeats
      <2>1. sent[k] + Cardinality(ToForward(k)) <= queue[k].losses + (IF Fetched(k) THEN 1 ELSE 0)
            BY DEF ForwardingInv, Repeats
      <2>2. sent[k] \in Nat /\ queue[k].losses \in Nat
            BY DEF ForwardingInv, ForwardTypes, Fwd!Job
      <2>3. /\ Cardinality(ToForward(k)') <= Cardinality(ToForward(k))
            /\ Cardinality(ToForward(k)') \in Nat /\ Cardinality(ToForward(k)) \in Nat
            BY <1>1
      <2>4. CASE queue'[k] = queue[k]
            <3>1. Fetched(k)' <=> Fetched(k)
                  BY <2>4 DEF Fetched
            <3> QED BY <2>1, <2>2, <2>3, <2>4, <3>1
      <2>5. CASE queue[k].state = "active" /\ queue'[k].losses = queue[k].losses + 1
            <3>1. Fetched(k)
                  BY <2>5 DEF Fetched
            <3> QED BY <2>1, <2>2, <2>3, <2>5, <3>1
      <2> QED BY <1>2, <2>4, <2>5
<1> QED BY <1>1, <1>3, <1>5, <1>7, <1>8 DEF ForwardingInv

\* The supervisor takes the claims of the batches, an instance those of its own.
LEMMA ExpireKeeps ==
    ASSUME ForwardingInv,
           Fwd!Expire \/ \E i \in Instances : Fwd!CompleteFails(i) \/ Fwd!FailRunning(i)
    PROVE  ForwardingInv'
<1>1. CASE Fwd!Expire
      <2>1. PICK S \in SUBSET Fwd!Keys : S = {k \in Fwd!Keys : queue[k].state = "active"}
            OBVIOUS
      <2>2. \A k \in S : queue[k].state = "active"
            BY <2>1
      <2>3. UNCHANGED <<slot, passed, rows, pass, sent, due, reported, newest>> /\ crossed' = TRUE /\ batch' = batch
            BY <1>1 DEF Fwd!Expire
      <2>4. queue' = [k \in Fwd!Keys |-> IF k \in S THEN Fwd!Lost(queue[k]) ELSE queue[k]]
            BY <1>1, <2>1 DEF Fwd!Expire
      <2> QED BY <2>2, <2>3, <2>4, LossKeeps
<1>2. ASSUME NEW i \in Instances, Fwd!CompleteFails(i) \/ Fwd!FailRunning(i)
      PROVE  ForwardingInv'
      <2>1. batch[i] # None
            BY <1>2 DEF Fwd!CompleteFails, Fwd!FailRunning
      <2>2. Fwd!Held(i) \subseteq Fwd!Keys /\ \A k \in Fwd!Held(i) : queue[k].state = "active"
            <3>1. batch[i].jobs \subseteq Fwd!Keys
                  BY <2>1, BatchFacts DEF ForwardingInv, ForwardTypes
            <3> QED BY <3>1 DEF Fwd!Held
      <2>3. /\ UNCHANGED <<slot, passed, rows, pass, sent, due, reported, newest>> /\ crossed' = TRUE
            /\ batch' = batch \/ batch' = [batch EXCEPT ![i] = None]
            /\ queue' = Fwd!Failed(i) \/ queue' = queue
            BY <1>2 DEF Fwd!CompleteFails, Fwd!FailRunning
      <2>4. CASE queue' = Fwd!Failed(i)
            BY <2>2, <2>3, <2>4, LossKeeps DEF Fwd!Failed
      <2>5. CASE queue' = queue
            <3>1. PICK S \in SUBSET Fwd!Keys : S = {}
                  OBVIOUS
            <3>2. queue' = [k \in Fwd!Keys |-> IF k \in S THEN Fwd!Lost(queue[k]) ELSE queue[k]]
                  BY <2>5, <3>1 DEF ForwardingInv, ForwardTypes
            <3>3. \A k \in S : queue[k].state = "active"
                  BY <3>1
            <3> QED BY <2>3, <3>2, <3>3, LossKeeps
      <2> QED BY <2>3, <2>4, <2>5
<1> QED BY <1>1, <1>2

-----------------------------------------------------------------------------
(* The theorem *)

\* Nothing is filed.
LEMMA ForwardingInitially ==
    Fwd!Init => ForwardingInv
<1> SUFFICES ASSUME Fwd!Init PROVE ForwardingInv
    OBVIOUS
<1>0. 0 \in 0 .. MaxSlot /\ 1 \in Fwd!Slots /\ 0 \in 0 .. 1 /\ 0 \in Nat
      BY ForwardingAssumption DEF Fwd!SendItAssumption, Fwd!Slots
<1>1. ForwardTypes
      <2>1. slot \in Fwd!Slots /\ passed \in 0 .. slot
            BY <1>0 DEF Fwd!Init
      <2>2. queue \in [Fwd!Keys -> Fwd!Job] /\ due \subseteq Fwd!Keys
            BY JobFacts DEF Fwd!Init
      <2>3. /\ rows \in [Names -> Fwd!Row \cup {None}]
            /\ pass \in [Instances -> PassRecords \cup {None}]
            /\ batch \in [Instances -> BatchRecords \cup {None}]
            BY DEF Fwd!Init
      <2>4. sent \in [Fwd!Keys -> Nat] /\ newest \in [Names -> 0 .. MaxSlot] /\ crossed \in BOOLEAN
            BY <1>0 DEF Fwd!Init
      <2> QED BY <2>1, <2>2, <2>3, <2>4 DEF ForwardTypes
<1>2. Passing /\ Fwd!LabelFollowsExpression
      BY DEF Fwd!Init, Passing, Fwd!LabelFollowsExpression
<1>3. Accounts
      <2>1. \A k \in Fwd!Keys : queue[k] = Fwd!NoJob /\ queue[k].state = "none"
            BY JobFacts DEF Fwd!Init
      <2> QED BY <2>1 DEF Fwd!Init, Accounts, OnQueue
<1>4. Filing
      BY JobFacts DEF Fwd!Init, Filing, OnQueue
<1>5. Repeats
      <2>1. \A k \in Fwd!Keys : ToForward(k) = {}
            BY DEF Fwd!Init, ToForward
      <2> QED BY <2>1, FS_EmptySet, JobFacts DEF Fwd!Init, Repeats, Fetched
<1>6. Recording
      BY JobFacts DEF Fwd!Init, Recording, Fetched
<1> QED BY <1>1, <1>2, <1>3, <1>4, <1>5, <1>6 DEF ForwardingInv

\* Every step keeps the invariant.
LEMMA ForwardingKeeps ==
    ForwardingInv /\ [Fwd!Next]_scheduleVars => ForwardingInv'
<1> SUFFICES ASSUME ForwardingInv, [Fwd!Next]_scheduleVars PROVE ForwardingInv'
    OBVIOUS
<1>1. CASE UNCHANGED scheduleVars
      <2>1. UNCHANGED <<slot, passed, rows, pass, queue, batch, sent, due, reported, newest, crossed>>
            BY <1>1 DEF scheduleVars
      <2> QED BY <2>1, QuietAccounts, QuietRepeats, QuietRecording
              DEF ForwardingInv, ForwardTypes, Passing, Fwd!LabelFollowsExpression, Filing, OnQueue
<1>2. CASE \E n \in Names, e \in Expressions : Fwd!Schedule(n, e) \/ Fwd!ScheduleOlder(n, e)
      <2>1. PICK n \in Names, e \in Expressions : Fwd!Schedule(n, e) \/ Fwd!ScheduleOlder(n, e)
            BY <1>2
      <2> QED BY <2>1, ScheduleKeeps
<1>3. CASE \E n \in Names : Fwd!Unschedule(n) \/ Fwd!InsertOlder(n)
      <2>1. PICK n \in Names : Fwd!Unschedule(n) \/ Fwd!InsertOlder(n)
            BY <1>3
      <2>2. CASE Fwd!Unschedule(n)
            BY <2>2, ScheduleKeeps
      <2> QED BY <2>1, <2>2, OlderKeeps
<1>4. CASE \E i \in Instances : \/ Fwd!Read(i) \/ Fwd!Insert(i) \/ Fwd!Abandon(i) \/ Fwd!Relabel(i)
                                \/ Fwd!Fetch(i) \/ Fwd!Record(i) \/ Fwd!RecordFails(i)
                                \/ Fwd!Complete(i) \/ Fwd!CompleteFails(i) \/ Fwd!FailRunning(i)
                                \/ Fwd!Crash(i)
      BY <1>4, ReadKeeps, InsertKeeps, PassEndKeeps, FetchKeeps, RecordKeeps, RecordFailsKeeps,
         CompleteKeeps, ExpireKeeps, CrashKeeps
<1>5. CASE \E i \in Instances, k \in Fwd!Keys : Fwd!Forward(i, k)
      BY <1>5, ForwardKeeps
<1>6. CASE Fwd!NextSlot \/ Fwd!Expire
      BY <1>6, NextSlotKeeps, ExpireKeeps
<1> QED BY <1>1, <1>2, <1>3, <1>4, <1>5, <1>6 DEF Fwd!Next

\* What the invariant says of the property.
LEMMA ForwardingHolds ==
    ForwardingInv => Fwd!OccurrencesAccounted /\ Fwd!RepeatedOnlyByLoss /\ Fwd!LastJobNewest
<1> SUFFICES ASSUME ForwardingInv PROVE Fwd!OccurrencesAccounted /\ Fwd!RepeatedOnlyByLoss /\ Fwd!LastJobNewest
    OBVIOUS
<1>1. Fwd!OccurrencesAccounted
      <2> SUFFICES ASSUME NEW k \in due
                   PROVE  queue[k] # Fwd!NoJob /\ (queue[k].state = "completed" => sent[k] > 0 \/ k \in reported)
          BY DEF Fwd!OccurrencesAccounted
      <2>1. k \in Fwd!Keys /\ queue[k].state # "none"
            BY DEF ForwardingInv, ForwardTypes, Accounts, OnQueue
      <2>2. queue[k] # Fwd!NoJob
            BY <2>1, JobFacts
      <2> QED BY <2>1, <2>2 DEF ForwardingInv, Accounts
<1>2. Fwd!RepeatedOnlyByLoss
      <2> SUFFICES ASSUME NEW k \in Fwd!Keys PROVE sent[k] <= 1 + queue[k].losses
          BY DEF Fwd!RepeatedOnlyByLoss
      <2>1. sent[k] + Cardinality(ToForward(k)) <= queue[k].losses + (IF Fetched(k) THEN 1 ELSE 0)
            BY DEF ForwardingInv, Repeats
      <2>2. sent[k] \in Nat /\ queue[k].losses \in Nat
            BY DEF ForwardingInv, ForwardTypes, Fwd!Job
      <2> QED BY <2>1, <2>2, PendingFinite
<1>3. Fwd!LastJobNewest
      BY DEF ForwardingInv, Recording, Fwd!LastJobNewest
<1> QED BY <1>1, <1>2, <1>3

-----------------------------------------------------------------------------
(* Theorems *)

\* The state is well typed, every row is kept for the retention from its start, retries
\* apart, which put the start off and leave keep_until; and what an open transaction of
\* update() or upsert() holds waits and stays its own.
THEOREM HeldInvariant == Spec => []IInv
BY Initially, NextKeeps, PTL DEF Spec

\* EditsSafe: no edit reaches a job a worker has started, only its retry moves its start, and a
\* waiting job is swept only when its retention has passed since its start, wherever an edit
\* moved it, counted without what its retries put it off (updateJob, failJobsBody and deletion
\* in plans.ts).
THEOREM EditsTheorem == Spec => EditsSafe
<1>1. EditsStep => /\ \A j \in Ids : jobs[j].state \in {"active", "completed"} =>
                        /\ jobs'[j].data = jobs[j].data /\ jobs'[j].keep = jobs[j].keep
                        /\ jobs'[j].start = jobs[j].start \/ (jobs[j].state = "active" /\ jobs'[j].state = "retry")
                   /\ \A j \in Ids : Waiting(j) /\ jobs'[j].state = "swept" =>
                            now > jobs[j].start - jobs[j].putOff + Retention
      BY DEF EditsStep
<1>2. IInv /\ [Next]_vars => [\A j \in Ids : jobs[j].state \in {"active", "completed"} =>
                        /\ jobs'[j].data = jobs[j].data /\ jobs'[j].keep = jobs[j].keep
                        /\ jobs'[j].start = jobs[j].start \/ (jobs[j].state = "active" /\ jobs'[j].state = "retry")]_vars
      BY <1>1, NextKeeps
<1>3. IInv /\ [Next]_vars => [\A j \in Ids : Waiting(j) /\ jobs'[j].state = "swept" =>
                            now > jobs[j].start - jobs[j].putOff + Retention]_vars
      BY <1>1, NextKeeps
<1>4. Spec => StartedUntouched
      BY <1>2, HeldInvariant, PTL DEF Spec, StartedUntouched
<1>5. Spec => RetainedFromStart
      BY <1>3, HeldInvariant, PTL DEF Spec, RetainedFromStart
<1> QED BY <1>4, <1>5 DEF EditsSafe

\* UpsertsAgree: of concurrent upserts of one key at most one inserts while its job waits, and
\* none comes back with nothing unless a job was claimed or swept while it ran, or a running
\* job holds an exclusive queue (upsert in manager.ts, job_i13 in plans.ts).
THEOREM UpsertsAgreeTheorem == Spec => []UpsertsAgree
<1>1. Spec => [](IInv /\ AInv)
      BY Initially, NextKeeps, InitiallyAgrees, NextAgrees, PTL DEF Spec
<1> QED BY <1>1, AgreedUpserts, PTL

\* SendsAgree: the same, and a debounced send that was refused its slot is filed in a later one,
\* never to start at once; it starts when the refused slot is over if the clock its delay was
\* read off was not in an earlier slot nor more than a second ahead, which is what the second
\* that getDebounceStartAfter adds makes up for.  How far the clocks are off is not bounded.
THEOREM SendsAgreeTheorem == Spec => []SendsAgree
<1>1. Init => Begun /\ \A c \in Callers : PastRefusal(c)
      BY InitiallyPast
<1>2. IInv /\ AInv /\ Begun /\ (\A c \in Callers : PastRefusal(c)) /\ [Next]_vars
          => Begun' /\ (\A c \in Callers : PastRefusal(c))'
      BY NextKeeps, NextBegins, NextRefusal
<1>3. Spec => [](IInv /\ AInv /\ Begun /\ \A c \in Callers : PastRefusal(c))
      BY <1>1, <1>2, Initially, NextKeeps, InitiallyAgrees, NextAgrees, PTL DEF Spec
<1>4. IInv /\ AInv /\ (\A c \in Callers : PastRefusal(c)) => SendsAgree
      BY AgreedUpserts, RefusalsPassed DEF SendsAgree
<1> QED BY <1>3, <1>4, PTL

\* What is filed, fetched, forwarded and recorded of each occurrence of a schedule agrees.
THEOREM ForwardedInvariant == AllSpec => []ForwardingInv
<1>1. AllInit => ForwardingInv
      BY ForwardingInitially DEF AllInit
<1>2. ForwardingInv /\ [AllNext]_allVars => ForwardingInv'
      <2> SUFFICES ASSUME ForwardingInv, [AllNext]_allVars
                   PROVE  [Fwd!Next]_scheduleVars
          BY ForwardingKeeps
      <2>1. CASE SendsStep
            BY <2>1 DEF SendsStep
      <2>2. CASE ForwardStep
            BY <2>2 DEF ForwardStep
      <2>3. CASE UNCHANGED allVars
            BY <2>3 DEF allVars
      <2> QED BY <2>1, <2>2, <2>3 DEF AllNext
<1> QED BY <1>1, <1>2, PTL DEF AllSpec

\* ForwardingSound: a row this release wrote keeps the label of its expression, whatever a pass
\* that read it before the edit still writes; every occurrence a pass filed is forwarded or
\* reported, once but for lost claims; and while batches neither overlap nor lose claims,
\* last_job_id names the newest job (cron, onSendIt in timekeeper.ts, setScheduleKinds and
\* setLastJobIds in plans.ts).
THEOREM ForwardingTheorem == AllSpec => []ForwardingSound
<1>1. ForwardingInv => ForwardingSound
      BY ForwardingHolds DEF ForwardingInv, ForwardingSound, Fwd!ForwardingSound
<1> QED BY <1>1, ForwardedInvariant, PTL

===============================================================================
