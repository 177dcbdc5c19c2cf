------------------------------ MODULE Queues_proofs ------------------------------
(* Proofs about Queues, for every set of queues and instances and any number of   *)
(* jobs: a job is in one place, whatever fails, is redriven, retried or deleted.    *)
EXTENDS Queues, FiniteSetTheorems, TLAPS

-----------------------------------------------------------------------------
(* Types. *)

LEMMA RecordTypes ==
    /\ NoJob \in JobRecords
    /\ Idle \in CallRecords
    /\ TypeOK => \A x \in Ids : job[x] \in JobRecords
BY DEF NoJob, Idle, JobRecords, CallRecords, Places, Stored, Tables, TypeOK

\* What a refresh does to a cache.
LEMMA RefreshTypeOK ==
    ASSUME TypeOK, NEW i \in Instances, NEW k \in Refreshes,
           RefreshRead(i, k) \/ RefreshApply(i, k) \/ RefreshFails(i, k)
    PROVE  TypeOK'
<1>1. CASE RefreshRead(i, k) \/ RefreshFails(i, k)
  <2>1. PICK read \in SUBSET [Names -> Stored] : answer' = [answer EXCEPT ![i][k] = read]
        BY <1>1 DEF RefreshRead, RefreshFails, TypeOK
  <2>2. answer' \in [Instances -> [Refreshes -> SUBSET [Names -> Stored]]]
        BY <2>1 DEF TypeOK
  <2> QED BY <1>1, <2>2 DEF RefreshRead, RefreshFails, TypeOK
<1>2. CASE RefreshApply(i, k)
  <2>1. answer[i][k] \subseteq [Names -> Stored]
        BY DEF TypeOK
  <2> QED BY <1>2, <2>1 DEF RefreshApply, RefreshedCache, TypeOK
<1> QED BY <1>1, <1>2

\* A call record whose fields are in their types.
CallOK(c) ==
    /\ c \in CallRecords
    /\ c.at # "idle" => c.name \in Names
    /\ c.op = "create" /\ c.at \in {"lookup", "found"} => c.dlq \in Names

LEMMA CallTypeOK ==
    ASSUME TypeOK, NEW i \in Instances, NEW c, CallOK(c), call' = [call EXCEPT ![i] = c],
           table' \in [Names -> Stored], deadLetter' \in [Names -> Places],
           cache' \in [Instances -> [Names -> Stored]], UNCHANGED <<answer, again>>, changes' \in Nat,
           job' \in [Ids -> JobRecords]
    PROVE  TypeOK'
BY DEF TypeOK, CallOK

LEMMA IdleOK == CallOK(Idle)
BY DEF CallOK, Idle, CallRecords, Places, Stored, Tables

\* A call under way goes to its next statement, with or without a row read.
LEMMA MovedOK ==
    ASSUME NEW c, CallOK(c), c.at # "idle", NEW row \in Stored,
           NEW at \in {"lookup", "found", "act", "reread", "reload", "reloaded", "empty", "drop"},
           c.op = "create" => at \notin {"lookup", "found"} \/ c.dlq \in Names
    PROVE  CallOK([c EXCEPT !.at = at]) /\ CallOK([c EXCEPT !.row = row, !.at = at])
BY DEF CallOK, CallRecords

\* The steps of a call write its record in one of these forms.
LEMMA CallForms ==
    ASSUME TypeOK, NEW i \in Instances, NEW at, NEW row
    PROVE  /\ [call EXCEPT ![i].at = at] = [call EXCEPT ![i] = [call[i] EXCEPT !.at = at]]
           /\ [call EXCEPT ![i].row = row, ![i].at = at]
                = [call EXCEPT ![i] = [call[i] EXCEPT !.row = row, !.at = at]]
           /\ CallOK(call[i])
BY DEF TypeOK, CallOK

LEMMA RemoveAllTypeOK ==
    ASSUME TypeOK, NEW n \in Names, RemoveAll(n)
    PROVE  job' \in [Ids -> JobRecords]
<1>1. ASSUME NEW x \in Ids PROVE [job[x] EXCEPT !.place = NoQueue] \in JobRecords
      BY DEF TypeOK, JobRecords, Places
<1> QED BY <1>1 DEF RemoveAll, TypeOK

LEMMA CellTypes ==
    ASSUME TypeOK, NEW i \in Instances, NEW n \in Names
    PROVE  cache[i][n] \in Stored /\ table[n] \in Stored
<1>1. table \in [Names -> Stored] /\ cache \in [Instances -> [Names -> Stored]]
      BY DEF TypeOK
<1> QED BY <1>1

LEMMA SendTypeOK ==
    ASSUME TypeOK, NEW i \in Instances,
           \/ Lookup(i) \/ Found(i) \/ InsertMissing(i) \/ InsertWrongTable(i) \/ Heal(i)
    PROVE  TypeOK'
<1> USE IdleOK, CallForms
<1> DEFINE c == call[i]
<1>1. CASE Lookup(i)
  <2>1. c.at = "lookup" /\ CallOK(c) /\ Wanted(i) \in Names
        BY <1>1 DEF Lookup, CallOK, Wanted
  <2>2. PICK n \in Names : n = Wanted(i)
        BY <2>1
  <2>3. cache[i][n] \in Stored /\ table[n] \in Stored
        BY CellTypes
  <2>4. PICK row \in Stored, at \in {"act", "found"} :
            call' = [call EXCEPT ![i].row = row, ![i].at = at]
        BY <1>1, <2>2, <2>3 DEF Lookup, Read
  <2>5. c.op = "create" => c.dlq \in Names
        BY <2>1 DEF CallOK
  <2>6. PICK d : d = [c EXCEPT !.row = row, !.at = at]
        OBVIOUS
  <2>7. CallOK(d)
        BY <2>1, <2>5, <2>6, MovedOK
  <2>8. call' = [call EXCEPT ![i] = d]
        BY <2>4, <2>6
  <2> QED BY <1>1, <2>7, <2>8, CallTypeOK DEF Lookup, TypeOK
<1>2. CASE Found(i)
  <2>1. c.at = "found" /\ CallOK(c) /\ Wanted(i) \in Names /\ c.row \in Stored
        BY <1>2 DEF Found, CallOK, Wanted, CallRecords
  <2>2. PICK n \in Names : n = Wanted(i)
        BY <2>1
  <2>3. PICK d : CallOK(d) /\ call' = [call EXCEPT ![i] = d]
        <3>1. CASE c.row = "none"
              BY <1>2, <3>1 DEF Found, End
        <3>2. CASE c.row # "none"
          <4>1. CallOK([c EXCEPT !.at = "act"])
                BY <2>1, MovedOK
          <4> QED BY <1>2, <3>2, <4>1 DEF Found, Go
        <3> QED BY <3>1, <3>2
  <2>4. PICK row \in Stored : cache' = [cache EXCEPT ![i][n] = row]
        <3>1. cache[i][n] \in Stored
              BY CellTypes
        <3> QED BY <1>2, <2>1, <2>2, <3>1 DEF Found
  <2>5. cache' \in [Instances -> [Names -> Stored]]
        BY <2>4 DEF TypeOK
  <2> QED BY <1>2, <2>3, <2>5, CallTypeOK DEF Found, TypeOK
<1>3. CASE InsertMissing(i)
  <2>1. c.at = "act" /\ CallOK(c) /\ c.name \in Names
        BY <1>3 DEF InsertMissing, CallOK
  <2>2. cache' \in [Instances -> [Names -> Stored]]
        BY <1>3, <2>1 DEF InsertMissing, Evict, TypeOK, Stored
  <2> QED BY <1>3, <2>2, CallTypeOK DEF InsertMissing, End, TypeOK
<1>4. CASE InsertWrongTable(i)
  <2>1. c.at = "act" /\ CallOK(c) /\ c.name \in Names /\ c.op = "send"
        BY <1>4 DEF InsertWrongTable, CallOK
  <2>2. PICK d : d = [c EXCEPT !.row = table[c.name], !.at = "reread"]
        OBVIOUS
  <2>3. table[c.name] \in Stored
        BY <2>1 DEF TypeOK
  <2>4. CallOK(d)
        BY <2>1, <2>2, <2>3, MovedOK
  <2>5. call' = [call EXCEPT ![i] = d]
        BY <1>4, <2>2 DEF InsertWrongTable, Read
  <2> QED BY <1>4, <2>4, <2>5, CallTypeOK DEF InsertWrongTable, TypeOK
<1>5. CASE Heal(i)
  <2>1. c.at = "reread" /\ CallOK(c) /\ c.name \in Names /\ c.row \in Stored /\ c.op = "send"
        BY <1>5 DEF Heal, CallOK, CallRecords
  <2>2. cache' \in [Instances -> [Names -> Stored]]
        BY <1>5, <2>1 DEF Heal, TypeOK
  <2>3. PICK d : CallOK(d) /\ call' = [call EXCEPT ![i] = d]
        <3>1. CASE c.row = "none"
              BY <1>5, <3>1 DEF Heal, End
        <3>2. CASE c.row # "none"
          <4>1. CallOK([c EXCEPT !.at = "lookup"])
                BY <2>1, MovedOK
          <4> QED BY <1>5, <3>2, <4>1 DEF Heal, Go
        <3> QED BY <3>1, <3>2
  <2> QED BY <1>5, <2>2, <2>3, CallTypeOK DEF Heal, TypeOK
<1> QED BY <1>1, <1>2, <1>3, <1>4, <1>5

LEMMA CreateQueueTypeOK ==
    ASSUME TypeOK, NEW n \in Names, NEW own \in BOOLEAN, NEW dlq \in Places,
           CreateQueue(n, own, dlq)
    PROVE  table' \in [Names -> Stored] /\ deadLetter' \in [Names -> Places]
BY DEF TypeOK, CreateQueue, Stored, Tables

LEMMA DeleteQueueTypeOK ==
    ASSUME TypeOK, NEW n \in Names, DeleteQueue(n)
    PROVE  /\ table' \in [Names -> Stored] /\ deadLetter' \in [Names -> Places]
           /\ job' \in [Ids -> JobRecords]
BY RemoveAllTypeOK DEF DeleteQueue, TypeOK, Stored, Tables, Places

LEMMA DeployTypeOK ==
    ASSUME TypeOK, NEW i \in Instances,
           \/ Create(i) \/ Update(i) \/ DeployRefused(i) \/ ReloadRead(i) \/ ReloadApply(i)
    PROVE  TypeOK'
<1> USE IdleOK, CallForms
<1> DEFINE c == call[i]
<1>0. CallOK(c) /\ c.dlq \in Places /\ c.own \in BOOLEAN /\ c.row \in Stored
      BY DEF CallOK, CallRecords
<1>1. CASE Create(i)
  <2>1. c.at = "act" /\ c.name \in Names
        BY <1>0, <1>1 DEF Create, CallOK
  <2>2. table' \in [Names -> Stored] /\ deadLetter' \in [Names -> Places]
        BY <1>0, <1>1, <2>1, CreateQueueTypeOK DEF Create
  <2>3. CallOK([c EXCEPT !.at = "reload"])
        BY <1>0, <2>1, MovedOK
  <2> QED BY <1>1, <2>2, <2>3, CallTypeOK DEF Create, Go, TypeOK
<1>2. CASE Update(i)
  <2>1. c.at = "act" /\ c.name \in Names
        BY <1>0, <1>2 DEF Update, CallOK
  <2>2. deadLetter' \in [Names -> Places]
        BY <1>0, <1>2, <2>1 DEF Update, UpdateQueue, TypeOK, Places
  <2>3. CallOK([c EXCEPT !.at = "reload"])
        BY <1>0, <2>1, MovedOK
  <2> QED BY <1>2, <2>2, <2>3, CallTypeOK DEF Update, Go, TypeOK
<1>3. CASE DeployRefused(i)
      BY <1>3, CallTypeOK DEF DeployRefused, End, TypeOK
<1>4. CASE ReloadRead(i)
  <2>1. c.at = "reload" /\ c.name \in Names
        BY <1>0, <1>4 DEF ReloadRead, CallOK
  <2>2. PICK d : d = [c EXCEPT !.row = table[c.name], !.at = "reloaded"]
        OBVIOUS
  <2>3. CallOK(d)
        BY <1>0, <2>1, <2>2, CellTypes, MovedOK
  <2>4. call' = [call EXCEPT ![i] = d]
        BY <1>4, <2>2 DEF ReloadRead, Read
  <2> QED BY <1>4, <2>3, <2>4, CallTypeOK DEF ReloadRead, TypeOK
<1>5. CASE ReloadApply(i)
  <2>1. c.name \in Names
        BY <1>0, <1>5 DEF ReloadApply, CallOK
  <2>2. cache' \in [Instances -> [Names -> Stored]]
        BY <1>0, <1>5, <2>1 DEF ReloadApply, TypeOK
  <2> QED BY <1>5, <2>2, CallTypeOK DEF ReloadApply, End, TypeOK
<1> QED BY <1>1, <1>2, <1>3, <1>4, <1>5

LEMMA DeleteTypeOK ==
    ASSUME TypeOK, NEW i \in Instances,
           CheckReferrer(i) \/ EmptyShared(i) \/ Drop(i) \/ DropRefused(i)
    PROVE  TypeOK'
<1> USE IdleOK, CallForms
<1> DEFINE c == call[i]
<1>0. CallOK(c) /\ "none" \in Stored
      BY DEF Stored
<1>1. CASE CheckReferrer(i)
  <2>1. c.at = "act" /\ c.op = "delete"
        BY <1>1 DEF CheckReferrer
  <2>2. CallOK([c EXCEPT !.at = "drop"]) /\ CallOK([c EXCEPT !.at = "empty"])
        BY <1>0, <2>1, MovedOK
  <2>3. PICK d : CallOK(d) /\ call' = [call EXCEPT ![i] = d]
        BY <1>1, <2>2 DEF CheckReferrer, Go, End
  <2> QED BY <1>1, <2>3, CallTypeOK DEF CheckReferrer, TypeOK
<1>2. CASE EmptyShared(i)
  <2>1. c.at = "empty" /\ c.op = "delete" /\ c.name \in Names
        BY <1>2 DEF EmptyShared, CallOK
  <2>2. CallOK([c EXCEPT !.at = "drop"])
        BY <1>0, <2>1, MovedOK
  <2>3. job' \in [Ids -> JobRecords]
        BY <1>2, <2>1, RemoveAllTypeOK DEF EmptyShared, TypeOK
  <2> QED BY <1>2, <2>2, <2>3, CallTypeOK DEF EmptyShared, Go, TypeOK
<1>3. CASE Drop(i)
  <2>1. c.name \in Names
        BY <1>3 DEF Drop, CallOK
  <2>2. cache' \in [Instances -> [Names -> Stored]]
        BY <1>3, <2>1 DEF Drop, Evict, TypeOK, Stored
  <2>3. /\ table' \in [Names -> Stored] /\ deadLetter' \in [Names -> Places]
        /\ job' \in [Ids -> JobRecords]
        BY <1>3, <2>1, DeleteQueueTypeOK DEF Drop
  <2> QED BY <1>3, <2>2, <2>3, CallTypeOK DEF Drop, End, TypeOK
<1>4. CASE DropRefused(i)
      BY <1>4, CallTypeOK DEF DropRefused, End, TypeOK
<1> QED BY <1>1, <1>2, <1>3, <1>4

LEMMA CallsTypeOK ==
    ASSUME TypeOK, NEW i \in Instances, Calls(i)
    PROVE  TypeOK'
<1>1. PICK n \in Names :
        \/ CallSend(i, n) \/ CallDelete(i, n)
        \/ \E dlq \in Names \cup {NoQueue} :
            CallUpdate(i, n, dlq) \/ \E own \in BOOLEAN : CallCreate(i, n, own, dlq)
      BY DEF Calls
<1>2. CASE CallSend(i, n)
  <2>1. CallOK([Idle EXCEPT !.op = "send", !.name = n, !.at = "lookup"])
        BY IdleOK DEF CallOK, CallRecords, Idle, Places
  <2> QED BY <1>2, <2>1, CallTypeOK DEF CallSend, TypeOK
<1>3. ASSUME NEW op \in {"create", "update", "delete"}, NEW own \in BOOLEAN,
             NEW dlq \in Places, NEW at \in {"lookup", "act"},
             at = "lookup" /\ op = "create" => dlq \in Names, Deploy(i, op, n, own, dlq, at)
      PROVE  TypeOK'
  <2>1. PICK d : d = [op |-> op, name |-> n, at |-> at, row |-> "none", own |-> own, dlq |-> dlq]
        OBVIOUS
  <2>2. CallOK(d)
        BY <1>3, <2>1 DEF CallOK, CallRecords, Places, Stored, Tables
  <2>3. call' = [call EXCEPT ![i] = d] /\ changes' \in Nat
        BY <1>3, <2>1 DEF Deploy, TypeOK
  <2> QED BY <1>3, <2>2, <2>3, CallTypeOK DEF Deploy, TypeOK
<1>4. CASE CallDelete(i, n)
      BY <1>3, <1>4 DEF CallDelete, Places
<1>5. CASE \E dlq \in Names \cup {NoQueue} :
            CallUpdate(i, n, dlq) \/ \E own \in BOOLEAN : CallCreate(i, n, own, dlq)
  <2>1. PICK dlq \in Places :
            CallUpdate(i, n, dlq) \/ \E own \in BOOLEAN : CallCreate(i, n, own, dlq)
        BY <1>5 DEF Places
  <2>2. CASE CallUpdate(i, n, dlq)
        BY <1>3, <2>2 DEF CallUpdate
  <2>3. ASSUME NEW own \in BOOLEAN, CallCreate(i, n, own, dlq)
        PROVE  TypeOK'
        BY <1>3, <2>3 DEF CallCreate, Places
  <2> QED BY <2>1, <2>2, <2>3
<1> QED BY <1>1, <1>2, <1>4, <1>5
-----------------------------------------------------------------------------
(* The invariant: the ids used are the first ones, with room for every job being *)
(* sent; every job descends from a root, and one job stands for a root, and one   *)
(* more for each retry of a job whose copy was made.                              *)

Used == {x \in Ids : job[x].state # "unused"}

Dense ==
    /\ \A x \in Ids : x \in Used <=> x < NextId
    /\ NextId + Cardinality(Sending) <= MaxJobs + 1

JobSound(x) ==
    /\ job[x].state = "unused" => job[x] = NoJob
    /\ job[x].state # "unused" =>
        job[x].root \in Used /\ job[job[x].root].root = job[x].root
    \* A copy in a dead letter queue has no dead letter queue of its own.
    /\ job[x].source # NoQueue => job[x].dlq = NoQueue

Stands(y) ==
    y.state \in {"created", "active", "completed"} \/ (y.state = "failed" /\ y.dlq = NoQueue)

Stood(r) == {x \in Ids : StandsFor(x, r)}

PlacesInv ==
    /\ Dense
    /\ \A x \in Ids : JobSound(x)
    /\ \A r \in Ids : job[r].root = r => Cardinality(Stood(r)) = 1 + again[r]
    /\ \A r \in Ids \ Used : again[r] = 0

LEMMA Counts ==
    ASSUME TypeOK
    PROVE  /\ Used \subseteq Ids /\ IsFiniteSet(Used)
           /\ Sending \subseteq Instances /\ IsFiniteSet(Sending)
           /\ Cardinality(Used) \in Nat /\ Cardinality(Sending) \in Nat
           /\ NextId = 1 + Cardinality(Used)
           /\ \A r \in Ids : IsFiniteSet(Stood(r)) /\ Cardinality(Stood(r)) \in Nat
<1>1. IsFiniteSet(Ids)
      BY FS_Interval, QueuesAssumption DEF Ids
<1>2. Used \subseteq Ids /\ Sending \subseteq Instances /\ NextId = 1 + Cardinality(Used)
      BY DEF Used, Sending, NextId
<1>3. IsFiniteSet(Used) /\ IsFiniteSet(Sending)
      BY <1>1, <1>2, FS_Subset, QueuesAssumption
<1>4. \A r \in Ids : IsFiniteSet(Stood(r))
      BY <1>1, FS_Subset DEF Stood
<1> QED BY <1>2, <1>3, <1>4, FS_CardinalityType

\* A step that adds no job and changes the standing of none.
LEMMA SameStanding ==
    ASSUME TypeOK, TypeOK', PlacesInv, Sending' \subseteq Sending, UNCHANGED again,
           \A x \in Ids :
                /\ job'[x].root = job[x].root
                /\ job'[x].state = "unused" <=> job[x].state = "unused"
                /\ job'[x].state = "unused" => job'[x] = job[x]
                /\ job'[x].source # NoQueue => job'[x].dlq = NoQueue
                /\ Stands(job'[x]) <=> Stands(job[x])
    PROVE  PlacesInv'
<1>1. Used' = Used
      BY DEF Used
<1>2. Cardinality(Sending') <= Cardinality(Sending)
      BY Counts, FS_Subset
<1>3. NextId' = NextId /\ NextId \in Nat /\ Cardinality(Sending)' \in Nat
  <2>1. NextId' = 1 + Cardinality(Used')
        BY DEF NextId, Used
  <2>2. Cardinality(Sending') \in Nat
        BY Counts, FS_Subset, FS_CardinalityType
  <2> QED BY <1>1, <2>1, <2>2, Counts
<1>4. Dense'
      BY <1>1, <1>2, <1>3, Counts, QueuesAssumption DEF PlacesInv, Dense
<1>5. ASSUME NEW x \in Ids PROVE JobSound(x)'
      BY <1>1 DEF PlacesInv, JobSound, Used
<1>6. ASSUME NEW r \in Ids, job'[r].root = r PROVE Cardinality(Stood(r)') = 1 + again'[r]
  <2>1. Stood(r)' = Stood(r)
        BY DEF Stood, StandsFor, Stands
  <2> QED BY <1>6, <2>1 DEF PlacesInv
<1> QED BY <1>1, <1>4, <1>5, <1>6 DEF PlacesInv

LEMMA NothingChanges ==
    ASSUME TypeOK, TypeOK', PlacesInv, Sending' \subseteq Sending, UNCHANGED <<job, again>>
    PROVE  PlacesInv'
<1>1. \A x \in Ids : job[x].source # NoQueue => job[x].dlq = NoQueue
      BY DEF PlacesInv, JobSound
<1> QED BY <1>1, SameStanding

LEMMA RemovedKeepsStanding ==
    ASSUME TypeOK, TypeOK', PlacesInv, Sending' \subseteq Sending, UNCHANGED again,
           NEW n \in Names, RemoveAll(n)
    PROVE  PlacesInv'
<1>1. ASSUME NEW x \in Ids
      PROVE  /\ job'[x].root = job[x].root
             /\ job'[x].state = "unused" <=> job[x].state = "unused"
             /\ job'[x].state = "unused" => job'[x] = job[x]
             /\ job'[x].source # NoQueue => job'[x].dlq = NoQueue
             /\ Stands(job'[x]) <=> Stands(job[x])
  <2>1. job[x] \in JobRecords /\ JobSound(x)
        BY RecordTypes DEF PlacesInv
  <2>2. CASE x \in At(n)
    <3>1. job'[x] = [job[x] EXCEPT !.place = NoQueue]
          BY <2>2 DEF RemoveAll
    <3>2. job[x].place # NoQueue
          BY <2>2, QueuesAssumption DEF At
    <3>3. job[x].state # "unused"
          BY <2>1, <3>2 DEF JobSound, NoJob
    <3> QED BY <2>1, <3>1, <3>3 DEF JobSound, JobRecords, Stands
  <2>3. CASE x \notin At(n)
        BY <2>1, <2>3 DEF RemoveAll, JobSound
  <2> QED BY <2>2, <2>3
<1> QED BY <1>1, SameStanding

\* A step that stores one job, under the next id.
LEMMA OneMore ==
    ASSUME TypeOK, Dense, NEW n, n = NextId, n \in Ids, job'[n].state # "unused",
           \A y \in Ids \ {n} : job'[y].state = "unused" <=> job[y].state = "unused",
           Sending' \subseteq Sending,
           NextId + Cardinality(Sending') <= MaxJobs
    PROVE  Dense' /\ Used' = Used \cup {n} /\ n \notin Used
<1>1. Used' = Used \cup {n} /\ n \notin Used
      BY DEF Used, Dense, Ids
<1>2. Cardinality(Used') = Cardinality(Used) + 1
      BY <1>1, Counts, FS_AddElement
<1>3. NextId' = NextId + 1 /\ NextId \in Nat
  <2>1. NextId' = 1 + Cardinality(Used')
        BY DEF NextId, Used
  <2> QED BY <1>2, <2>1, Counts
<1>4. Cardinality(Sending') \in Nat
      BY Counts, FS_Subset, FS_CardinalityType
<1>5. \A x \in Ids : x \in Used' <=> x < NextId'
      BY <1>1, <1>3 DEF Dense, Ids
<1> QED BY <1>1, <1>3, <1>4, <1>5, QueuesAssumption DEF Dense

\* A job that is sent is a root of its own.
LEMMA SentStands ==
    ASSUME TypeOK, TypeOK', PlacesInv, NEW n, n = NextId, n \in Ids,
           NEW new \in JobRecords, job' = [job EXCEPT ![n] = new],
           new.state = "created", new.root = n, new.source = NoQueue,
           Sending' \subseteq Sending, NextId + Cardinality(Sending') <= MaxJobs,
           UNCHANGED again
    PROVE  PlacesInv'
<1>1. job'[n] = new /\ \A y \in Ids \ {n} : job'[y] = job[y]
      BY DEF TypeOK
<1>2. Dense' /\ Used' = Used \cup {n} /\ n \notin Used
      BY <1>1, OneMore DEF PlacesInv
<1>3. \A y \in Ids : JobSound(y) /\ (y \notin Used => job[y].root = 0)
      BY DEF PlacesInv, JobSound, Used, NoJob
<1>4. ASSUME NEW x \in Ids PROVE JobSound(x)'
  <2>1. CASE x = n
        BY <1>1, <1>2, <2>1 DEF JobSound
  <2>2. CASE x # n
    <3>1. job[x].state # "unused" => job[x].root \in Used /\ job[x].root # n
          BY <1>2, <1>3 DEF JobSound
    <3>2. job[x].state # "unused" => job'[job[x].root] = job[job[x].root]
          BY <1>1, <3>1 DEF Used
    <3> QED BY <1>1, <1>2, <1>3, <2>2, <3>1, <3>2 DEF JobSound
  <2> QED BY <2>1, <2>2
<1>5. \A y \in Ids \ {n} : job[y].root # n
      BY <1>2, <1>3 DEF JobSound, Used, Ids
<1>6. ASSUME NEW r \in Ids, job'[r].root = r PROVE Cardinality(Stood(r)') = 1 + again'[r]
  <2>1. CASE r = n
    <3>1. Stood(n)' = {n}
          BY <1>1, <1>5 DEF Stood, StandsFor
    <3>2. again'[n] = 0
          BY <1>2 DEF PlacesInv
    <3> QED BY <2>1, <3>1, <3>2, FS_Singleton
  <2>2. CASE r # n
    <3>1. job[r].root = r
          BY <1>1, <1>6, <2>2
    <3>2. ~StandsFor(n, r) /\ ~StandsFor(n, r)'
          BY <1>1, <1>2, <1>3, <2>2 DEF StandsFor, Ids
    <3>3. Stood(r)' = Stood(r)
          BY <1>1, <3>2 DEF Stood, StandsFor
    <3> QED BY <3>1, <3>3 DEF PlacesInv
  <2> QED BY <2>1, <2>2
<1> QED BY <1>2, <1>4, <1>6 DEF PlacesInv

\* A job that fails for good hands its standing to its copy.
LEMMA CopyStands ==
    ASSUME TypeOK, TypeOK', PlacesInv, NEW n, n = NextId, n \in Ids,
           NEW x \in Ids, job[x].state = "active", job[x].dlq # NoQueue,
           NEW new \in JobRecords,
           job' = [job EXCEPT ![x] = [job[x] EXCEPT !.state = "failed"], ![n] = new],
           new.state = "created", new.dlq = NoQueue, new.root = job[x].root,
           Sending' \subseteq Sending, NextId + Cardinality(Sending') <= MaxJobs,
           UNCHANGED again
    PROVE  PlacesInv'
<1>0. job[x] \in JobRecords /\ JobSound(x) /\ x \in Used
      BY RecordTypes DEF PlacesInv, Used
<1>1. x # n /\ n \notin Used
      BY <1>0 DEF PlacesInv, Dense, Ids
<1>2. /\ job'[n] = new /\ \A y \in Ids \ {n, x} : job'[y] = job[y]
      /\ job'[x].state = "failed" /\ job'[x].root = job[x].root /\ job'[x].dlq = job[x].dlq
      /\ job'[x].source = job[x].source
      BY <1>0, <1>1 DEF TypeOK, JobRecords
<1>3. Dense' /\ Used' = Used \cup {n}
  <2>1. job'[n].state # "unused" /\ \A y \in Ids \ {n} :
            job'[y].state = "unused" <=> job[y].state = "unused"
        BY <1>2
  <2>2. Dense
        BY DEF PlacesInv
  <2> QED BY <2>1, <2>2, OneMore
<1>4. \A y \in Ids : JobSound(y) /\ (y \notin Used => job[y].root = 0)
      BY DEF PlacesInv, JobSound, Used, NoJob
<1>5. \A y \in Ids \ {n} : job'[y].root = job[y].root
      BY <1>2
<1>6. ASSUME NEW y \in Ids PROVE JobSound(y)'
  <2>1. CASE y = n
    <3>1. job[x].root \in Used /\ job[job[x].root].root = job[x].root
          BY <1>0 DEF JobSound, Used
    <3>2. job[x].root \in Ids \ {n}
          BY <1>1, <3>1 DEF Used
    <3>3. job'[job[x].root].root = job[x].root /\ job[x].root \in Used'
          BY <1>3, <1>5, <3>1, <3>2
    <3> QED BY <1>2, <2>1, <3>3 DEF JobSound
  <2>2. CASE y # n
    <3>1. job[y].state # "unused" => job[y].root \in Used /\ job[job[y].root].root = job[y].root
          BY <1>4 DEF JobSound
    <3>2. job[y].state # "unused" => job[y].root \in Ids \ {n}
          BY <1>1, <3>1 DEF Used
    <3>3. job[y].state # "unused" =>
            job'[job[y].root].root = job[y].root /\ job[y].root \in Used'
          BY <1>3, <1>5, <3>1, <3>2
    <3>4. CASE y = x
          BY <1>0, <1>2, <3>3, <3>4 DEF JobSound
    <3>5. CASE y # x
      <4>1. job'[y] = job[y] /\ JobSound(y)
            BY <1>2, <1>4, <2>2, <3>5
      <4> QED BY <3>3, <4>1 DEF JobSound
    <3> QED BY <3>4, <3>5
  <2> QED BY <2>1, <2>2
<1>7. ASSUME NEW r \in Ids, job'[r].root = r PROVE Cardinality(Stood(r)') = 1 + again'[r]
  <2>1. r # n
    <3>1. new.root \in Used
          BY <1>0 DEF JobSound, Used
    <3> QED BY <1>1, <1>2, <1>7, <3>1
  <2>2. job[r].root = r /\ Cardinality(Stood(r)) = 1 + again[r] /\ again[r] \in Nat
        BY <1>5, <1>7, <2>1 DEF PlacesInv, TypeOK
  <2>3. n \notin Stood(r)
        BY <1>1, <1>4 DEF Stood, StandsFor, Ids
  <2>4. \A y \in Ids \ {n, x} : StandsFor(y, r)' <=> StandsFor(y, r)
        BY <1>2 DEF StandsFor
  <2>5. CASE job[x].root = r
    <3>1. x \in Stood(r) /\ ~StandsFor(x, r)' /\ StandsFor(n, r)'
          BY <1>2, <2>5 DEF Stood, StandsFor
    <3>2. Stood(r)' = (Stood(r) \ {x}) \cup {n}
          BY <2>4, <3>1 DEF Stood
    <3>3. Cardinality(Stood(r) \ {x}) = Cardinality(Stood(r)) - 1 /\ IsFiniteSet(Stood(r) \ {x})
          BY <3>1, Counts, FS_RemoveElement
    <3>4. Cardinality(Stood(r)') = Cardinality(Stood(r) \ {x}) + 1
          BY <2>3, <3>2, <3>3, FS_AddElement
    <3> QED BY <2>2, <3>3, <3>4, Counts
  <2>6. CASE job[x].root # r
    <3>1. ~StandsFor(x, r) /\ ~StandsFor(x, r)' /\ ~StandsFor(n, r)'
          BY <1>2, <2>6 DEF StandsFor
    <3>2. Stood(r)' = Stood(r)
          BY <2>3, <2>4, <3>1 DEF Stood
    <3> QED BY <2>2, <3>2
  <2> QED BY <2>5, <2>6
<1> QED BY <1>3, <1>6, <1>7 DEF PlacesInv

\* A retry of a job whose copy was made: one more stands for its root.
LEMMA RetriedStands ==
    ASSUME TypeOK, TypeOK', PlacesInv, NEW x \in Ids, job[x].state = "failed",
           ~StandsFor(x, job[x].root), job' = [job EXCEPT ![x].state = "created"],
           again' = [again EXCEPT ![job[x].root] = again[job[x].root] + 1],
           Sending' \subseteq Sending
    PROVE  PlacesInv'
<1>0. job[x] \in JobRecords /\ JobSound(x) /\ x \in Used
      BY RecordTypes DEF PlacesInv, Used
<1>1. PICK y : y = [job[x] EXCEPT !.state = "created"]
      OBVIOUS
<1>2. y.state = "created" /\ y.root = job[x].root /\ y.dlq = job[x].dlq /\ y.source = job[x].source
      BY <1>0, <1>1 DEF JobRecords
<1>3. job'[x] = y /\ \A z \in Ids \ {x} : job'[z] = job[z]
      BY <1>1 DEF TypeOK
<1>4. Used' = Used /\ \A z \in Ids : job'[z].root = job[z].root
      BY <1>0, <1>2, <1>3 DEF Used
<1>5. Dense'
  <2>1. NextId' = NextId
        BY <1>4 DEF NextId, Used
  <2>2. Cardinality(Sending') <= Cardinality(Sending) /\ Cardinality(Sending') \in Nat
        BY Counts, FS_Subset, FS_CardinalityType
  <2> QED BY <1>4, <2>1, <2>2, Counts, QueuesAssumption DEF PlacesInv, Dense
<1>6. ASSUME NEW z \in Ids PROVE JobSound(z)'
  <2>1. JobSound(z)
        BY DEF PlacesInv
  <2>2. job[z].state # "unused" => job[z].root \in Used' /\ job'[job[z].root].root = job[z].root
        BY <1>4, <2>1 DEF JobSound, Used
  <2> QED BY <1>0, <1>2, <1>3, <1>4, <2>1, <2>2 DEF JobSound
<1>7. job[x].root \in Used /\ again[job[x].root] \in Nat
      BY <1>0 DEF JobSound, Used, TypeOK
<1>8. ASSUME NEW r \in Ids, job'[r].root = r PROVE Cardinality(Stood(r)') = 1 + again'[r]
  <2>1. Cardinality(Stood(r)) = 1 + again[r] /\ again[r] \in Nat
        BY <1>4, <1>8 DEF PlacesInv, TypeOK
  <2>2. \A z \in Ids \ {x} : StandsFor(z, r)' <=> StandsFor(z, r)
        BY <1>3 DEF StandsFor
  <2>3. CASE job[x].root = r
    <3>1. Stood(r)' = Stood(r) \cup {x} /\ x \notin Stood(r)
          BY <1>2, <1>3, <2>2, <2>3 DEF Stood, StandsFor
    <3>2. Cardinality(Stood(r)') = Cardinality(Stood(r)) + 1
          BY <3>1, Counts, FS_AddElement
    <3>3. again'[r] = again[r] + 1
          BY <2>3 DEF TypeOK
    <3> QED BY <2>1, <3>2, <3>3
  <2>4. CASE job[x].root # r
    <3>1. Stood(r)' = Stood(r)
          BY <1>2, <1>3, <2>2, <2>4 DEF Stood, StandsFor
    <3>2. again'[r] = again[r]
          BY <2>4 DEF TypeOK
    <3> QED BY <2>1, <3>1, <3>2
  <2> QED BY <2>3, <2>4
<1>9. \A r \in Ids \ Used' : again'[r] = 0
      BY <1>4, <1>7 DEF PlacesInv, TypeOK
<1> QED BY <1>5, <1>6, <1>8, <1>9 DEF PlacesInv
-----------------------------------------------------------------------------
(* Every step. *)

IInv == TypeOK /\ PlacesInv

LEMMA InsertKeeps ==
    ASSUME IInv, NEW i \in Instances, Insert(i)
    PROVE  IInv'
<1> DEFINE c == call[i]
<1>1. TypeOK /\ PlacesInv /\ c.op = "send" /\ c.at = "act" /\ call' = [call EXCEPT ![i] = Idle]
      BY DEF IInv, Insert, End
<1>2. c.name \in Names
      BY <1>1 DEF TypeOK
<1>3. Sending' = Sending \ {i} /\ i \in Sending
      BY <1>1 DEF Sending, TypeOK, Idle
<1>4. Cardinality(Sending') = Cardinality(Sending) - 1 /\ Sending' \subseteq Sending
      BY <1>1, <1>3, Counts, FS_RemoveElement
<1>5. NextId + Cardinality(Sending') <= MaxJobs /\ NextId \in Ids
  <2>1. Cardinality(Sending') \in Nat
        BY <1>1, <1>4, Counts, FS_Subset, FS_CardinalityType
  <2>2. NextId + Cardinality(Sending) <= MaxJobs + 1
        BY <1>1 DEF PlacesInv, Dense
  <2> QED BY <1>1, <1>4, <2>1, <2>2, Counts, QueuesAssumption DEF Ids
<1>6. CASE UNCHANGED job
  <2>1. TypeOK'
        BY <1>1, <1>6, IdleOK, CallTypeOK DEF Insert, TypeOK
  <2> QED BY <1>1, <1>4, <1>6, <2>1, NothingChanges DEF IInv, Insert
<1>7. CASE ~UNCHANGED job
  <2>1. PICK new :
            new = [place |-> c.name, state |-> "created", dlq |-> deadLetter[c.name],
                   source |-> NoQueue, root |-> NextId]
        OBVIOUS
  <2>2. job' = [job EXCEPT ![NextId] = new]
        BY <1>7, <2>1 DEF Insert
  <2>3. new \in JobRecords
        BY <1>1, <1>2, <1>5, <2>1 DEF JobRecords, TypeOK, Places, Ids
  <2>4. job' \in [Ids -> JobRecords]
        BY <1>1, <1>5, <2>2, <2>3 DEF TypeOK
  <2>5. TypeOK'
        BY <1>1, <2>4, IdleOK, CallTypeOK DEF Insert, TypeOK
  <2>6. new.state = "created" /\ new.root = NextId /\ new.source = NoQueue
        BY <2>1
  <2> QED BY <1>1, <1>4, <1>5, <2>2, <2>3, <2>5, <2>6, SentStands DEF IInv, Insert
<1> QED BY <1>6, <1>7

\* The other steps of a call store nothing, and remove no more than a queue's jobs.
LEMMA CallKeeps ==
    ASSUME IInv, NEW i \in Instances, CallStep(i)
    PROVE  IInv'
<1> TypeOK /\ PlacesInv
    BY DEF IInv
<1>1. CASE Insert(i)
      BY <1>1, InsertKeeps
<1>2. CASE ~Insert(i)
  <2>1. TypeOK'
        BY <1>2, SendTypeOK, DeployTypeOK, DeleteTypeOK DEF CallStep
  <2>2. call \in [Instances -> CallRecords]
        BY DEF TypeOK
  <2>3. Sending' \subseteq Sending
    <3>1. PICK at, row :
            \/ call' = [call EXCEPT ![i].at = at]
            \/ call' = [call EXCEPT ![i].row = row, ![i].at = at]
            \/ call' = [call EXCEPT ![i] = Idle]
          BY <1>2 DEF CallStep, Lookup, Found, InsertMissing, InsertWrongTable, Heal, Create,
                Update, DeployRefused, ReloadRead, ReloadApply, CheckReferrer, EmptyShared, Drop,
                DropRefused, Go, End, Read
    <3>2. call'[i].op = call[i].op \/ call'[i] = Idle
          BY <2>2, <3>1 DEF CallRecords
    <3>3. \A k \in Instances : call'[k].op = call[k].op \/ call'[k].op = "none"
          BY <2>2, <3>1, <3>2 DEF Idle
    <3> QED BY <3>3 DEF Sending
  <2>4. call[i].at # "idle" => call[i].name \in Names
        BY DEF TypeOK
  <2>9. UNCHANGED again
        BY <1>2 DEF CallStep, Lookup, Found, InsertMissing, InsertWrongTable, Heal, Create, Update,
              DeployRefused, ReloadRead, ReloadApply, CheckReferrer, EmptyShared, Drop, DropRefused
  <2>5. CASE \/ UNCHANGED job
             \/ \E n \in Names : RemoveAll(n)
        BY <2>1, <2>3, <2>5, <2>9, NothingChanges, RemovedKeepsStanding DEF IInv
  <2>6. CASE EmptyShared(i)
        BY <2>4, <2>5, <2>6 DEF EmptyShared
  <2>7. CASE Drop(i)
        BY <2>4, <2>5, <2>7 DEF Drop, DeleteQueue
  <2>8. CASE ~EmptyShared(i) /\ ~Drop(i)
    <3>1. UNCHANGED job
          BY <1>2, <2>8 DEF CallStep, Lookup, Found, InsertMissing, InsertWrongTable, Heal, Create,
                Update, DeployRefused, ReloadRead, ReloadApply, CheckReferrer, DropRefused
    <3> QED BY <2>5, <3>1
  <2> QED BY <2>6, <2>7, <2>8
<1> QED BY <1>1, <1>2

LEMMA CallsKeep ==
    ASSUME IInv, NEW i \in Instances, Calls(i)
    PROVE  IInv'
<1>1. TypeOK /\ PlacesInv /\ TypeOK' /\ UNCHANGED <<job, again>> /\ call \in [Instances -> CallRecords]
      BY CallsTypeOK DEF IInv, Calls, CallSend, CallDelete, CallUpdate, CallCreate, Deploy, TypeOK
<1>2. CASE \E n \in Names : CallSend(i, n)
  <2>1. Sending' = Sending \cup {i} /\ i \notin Sending /\ Room
        BY <1>1, <1>2 DEF CallSend, Sending, Idle
  <2>2. Cardinality(Sending') = Cardinality(Sending) + 1
        BY <1>1, <2>1, Counts, FS_AddElement
  <2>3. UNCHANGED <<Used, NextId>>
        BY <1>1 DEF Used, NextId
  <2>4. NextId + Cardinality(Sending) <= MaxJobs
        BY <2>1 DEF Room, Sending, Ids
  <2>5. Dense'
        BY <1>1, <2>2, <2>3, <2>4, Counts, QueuesAssumption DEF Dense, PlacesInv
  <2>6. \A x \in Ids : JobSound(x)' /\ Stood(x)' = Stood(x)
        BY <1>1, <2>3 DEF PlacesInv, JobSound, Stood, StandsFor
  <2> QED BY <1>1, <2>3, <2>5, <2>6 DEF IInv, PlacesInv
<1>3. CASE ~\E n \in Names : CallSend(i, n)
  <2>1. PICK op, n, at, own, dlq :
            op \in {"create", "update", "delete"} /\
            call' = [call EXCEPT ![i] = [op |-> op, name |-> n, at |-> at, row |-> "none",
                                         own |-> own, dlq |-> dlq]]
        BY <1>3 DEF Calls, CallDelete, CallUpdate, CallCreate, Deploy
  <2>2. Sending' \subseteq Sending
        BY <1>1, <2>1 DEF Sending
  <2> QED BY <1>1, <2>2, NothingChanges DEF IInv
<1> QED BY <1>2, <1>3

\* Some other instance creates, updates, empties or deletes a queue.
LEMMA ElsewhereKeeps ==
    ASSUME IInv, NEW n \in Names, Elsewhere(n)
    PROVE  IInv'
<1>1. TypeOK /\ PlacesInv /\ UNCHANGED <<cache, answer, call, again>> /\ changes' \in Nat
      BY DEF IInv, Elsewhere, TypeOK
<1>2. Sending' \subseteq Sending
      BY <1>1 DEF Sending
<1>3. ASSUME table' \in [Names -> Stored], deadLetter' \in [Names -> Places],
             UNCHANGED job \/ RemoveAll(n)
      PROVE  IInv'
  <2>1. job' \in [Ids -> JobRecords]
        BY <1>1, <1>3, RemoveAllTypeOK DEF TypeOK
  <2>2. TypeOK'
        BY <1>1, <1>3, <2>1 DEF TypeOK
  <2> QED BY <1>1, <1>2, <1>3, <2>2, NothingChanges, RemovedKeepsStanding DEF IInv
<1>4. CASE (\E own \in BOOLEAN, dlq \in (Names \ {n}) \cup {NoQueue} : CreateQueue(n, own, dlq))
            /\ UNCHANGED job
      BY <1>1, <1>3, <1>4, CreateQueueTypeOK DEF Places
<1>5. CASE (\E dlq \in (Names \ {n}) \cup {NoQueue} : UpdateQueue(n, dlq)) /\ UNCHANGED <<table, job>>
      BY <1>1, <1>3, <1>5 DEF UpdateQueue, TypeOK, Places
<1>6. CASE DeleteQueue(n)
      BY <1>1, <1>3, <1>6, DeleteQueueTypeOK DEF DeleteQueue
<1>7. CASE RemoveAll(n) /\ UNCHANGED <<table, deadLetter>>
      BY <1>1, <1>3, <1>7 DEF TypeOK
<1> QED BY <1>4, <1>5, <1>6, <1>7 DEF Elsewhere

\* One job changes its state and keeps its root.
LEMMA OneJob ==
    ASSUME IInv, NEW x \in Ids, NEW s \in {"created", "active", "completed", "failed"},
           job' = [job EXCEPT ![x].state = s], job[x].state # "unused",
           Stands([job[x] EXCEPT !.state = s]), Stands(job[x]),
           UNCHANGED <<table, deadLetter, answer, call, changes, again>>,
           cache' \in [Instances -> [Names -> Stored]]
    PROVE  IInv'
<1>1. TypeOK /\ PlacesInv /\ job[x] \in JobRecords
      BY RecordTypes DEF IInv
<1>2. PICK y : y = [job[x] EXCEPT !.state = s]
      OBVIOUS
<1>3. y \in JobRecords /\ y.root = job[x].root /\ y.source = job[x].source /\ y.dlq = job[x].dlq
        /\ y.state = s
      BY <1>1, <1>2 DEF JobRecords
<1>4. job' = [job EXCEPT ![x] = y]
      BY <1>2
<1>5. TypeOK'
      BY <1>1, <1>3, <1>4 DEF TypeOK
<1>6. Sending' \subseteq Sending
      BY DEF Sending
<1>7. \A z \in Ids : job[z].source # NoQueue => job[z].dlq = NoQueue
      BY <1>1 DEF PlacesInv, JobSound
<1>8. ASSUME NEW z \in Ids
      PROVE  /\ job'[z].root = job[z].root
             /\ job'[z].state = "unused" <=> job[z].state = "unused"
             /\ job'[z].state = "unused" => job'[z] = job[z]
             /\ job'[z].source # NoQueue => job'[z].dlq = NoQueue
             /\ Stands(job'[z]) <=> Stands(job[z])
  <2>1. CASE z = x
    <3>1. job'[z] = y
          BY <1>1, <1>4, <2>1 DEF TypeOK
    <3> QED BY <1>2, <1>3, <1>7, <2>1, <3>1
  <2>2. CASE z # x
    <3>1. job'[z] = job[z]
          BY <1>1, <1>4, <2>2 DEF TypeOK
    <3> QED BY <1>7, <3>1
  <2> QED BY <2>1, <2>2
<1> QED BY <1>1, <1>5, <1>6, <1>8, SameStanding DEF IInv

LEMMA FailKeeps ==
    ASSUME IInv, NEW x \in Ids, Fail(x)
    PROVE  IInv'
<1>1. TypeOK /\ PlacesInv /\ job[x] \in JobRecords /\ JobSound(x) /\ job[x].state = "active"
      BY RecordTypes DEF IInv, PlacesInv, Fail
<1>2. CASE job[x].dlq = NoQueue
  <2>1. Stands([job[x] EXCEPT !.state = "failed"]) /\ Stands(job[x])
        BY <1>1, <1>2 DEF Stands, JobRecords
  <2> QED BY <1>1, <1>2, <2>1, OneJob DEF Fail, TypeOK
<1>3. CASE job[x].dlq # NoQueue
  <2>1. PICK new : new = [place |-> job[x].dlq, state |-> "created", dlq |-> NoQueue,
                          source |-> job[x].place, root |-> job[x].root]
        OBVIOUS
  <2>2. new \in JobRecords /\ new.state = "created" /\ new.dlq = NoQueue /\ new.root = job[x].root
        BY <1>1, <2>1 DEF JobRecords, Places
  <2>3. PICK y : y = [job[x] EXCEPT !.state = "failed"]
        OBVIOUS
  <2>4. job' = [job EXCEPT ![x] = y, ![NextId] = new] /\ y \in JobRecords
        BY <1>1, <1>3, <2>1, <2>3 DEF Fail, JobRecords
  <2>5. NextId \in Ids /\ Sending' = Sending /\ NextId + Cardinality(Sending) <= MaxJobs
    <3>1. NextId + Cardinality(Sending) \in Ids /\ Sending' = Sending
          BY <1>3 DEF Fail, Room, Sending
    <3> QED BY <1>1, <3>1, Counts, QueuesAssumption DEF Ids
  <2>6. TypeOK'
        BY <1>1, <2>2, <2>4, <2>5 DEF Fail, TypeOK
  <2> QED BY <1>1, <1>3, <2>2, <2>3, <2>4, <2>5, <2>6, CopyStands DEF IInv, Fail
<1> QED BY <1>2, <1>3

LEMMA RedriveKeeps ==
    ASSUME IInv, NEW i \in Instances, NEW n \in Names, Redrive(i, n)
    PROVE  IInv'
<1>1. TypeOK /\ PlacesInv
      BY DEF IInv
<1>2. PICK S \in SUBSET Candidates(n) : \E M \in SUBSET S : job' = Redrove(S, M)
      BY DEF Redrive
<1>3. PICK M \in SUBSET S : job' = Redrove(S, M)
      BY <1>2
<1>4. ASSUME NEW x \in Ids
      PROVE  /\ job'[x] \in JobRecords
             /\ job'[x].root = job[x].root
             /\ job'[x].state = "unused" <=> job[x].state = "unused"
             /\ job'[x].state = "unused" => job'[x] = job[x]
             /\ job'[x].source # NoQueue => job'[x].dlq = NoQueue
             /\ Stands(job'[x]) <=> Stands(job[x])
  <2>1. job[x] \in JobRecords /\ JobSound(x)
        BY <1>1, RecordTypes DEF PlacesInv
  <2>2. x \in S => job[x].state = "created" /\ job[x].source # NoQueue /\ job[x].dlq = NoQueue
        BY <2>1 DEF Candidates, JobSound
  <2>3. CASE x \in M
    <3>1. job'[x] = Redriven(x) /\ job[x].source \in Names
          BY <1>3, <2>1, <2>2, <2>3 DEF Redrove, JobRecords, Places
    <3>2. deadLetter[job[x].source] \in Places
          BY <1>1, <3>1 DEF TypeOK
    <3> QED BY <2>1, <2>2, <2>3, <3>1, <3>2 DEF Redriven, JobRecords, Stands, Places
  <2>4. CASE x \in S \ M
    <3>1. job'[x] = NotRedriven(x)
          BY <1>3, <2>4 DEF Redrove
    <3> QED BY <2>1, <2>2, <2>4, <3>1 DEF NotRedriven, JobRecords, Stands
  <2>5. CASE x \notin S
        BY <1>3, <2>1, <2>5 DEF Redrove, JobSound
  <2> QED BY <2>3, <2>4, <2>5
<1>5. job' \in [Ids -> JobRecords]
      BY <1>3, <1>4 DEF Redrove
<1>6. cache' \in [Instances -> [Names -> Stored]]
      BY <1>1 DEF Redrive, TypeOK
<1>7. TypeOK' /\ Sending' \subseteq Sending
      BY <1>1, <1>5, <1>6 DEF Redrive, TypeOK, Sending
<1> QED BY <1>1, <1>4, <1>7, SameStanding DEF IInv, Redrive

LEMMA JobKeeps ==
    ASSUME IInv, JobStep
    PROVE  IInv'
<1>1. TypeOK /\ PlacesInv
      BY DEF IInv
<1>2. ASSUME NEW x \in Ids, NEW i \in Instances, Fetch(i, x)
      PROVE  IInv'
  <2>1. job[x].place \in Names /\ job[x] \in JobRecords
        BY <1>1, <1>2, RecordTypes DEF Fetch, JobRecords, Places
  <2>2. cache' \in [Instances -> [Names -> Stored]]
        BY <1>1, <1>2, <2>1 DEF Fetch, TypeOK
  <2> QED BY <1>2, <2>1, <2>2, OneJob DEF Fetch, Stands, JobRecords
<1>3. ASSUME NEW x \in Ids, Complete(x)
      PROVE  IInv'
      BY <1>1, <1>3, OneJob, RecordTypes DEF Complete, Stands, JobRecords, TypeOK
<1>4. ASSUME NEW x \in Ids, Retry(x)
      PROVE  IInv'
  <2>1. job[x] \in JobRecords /\ job[x].state = "failed" /\ JobSound(x)
        BY <1>1, <1>4, RecordTypes DEF Retry, PlacesInv
  <2>2. CASE StandsFor(x, job[x].root)
    <3>1. Stands(job[x]) /\ Stands([job[x] EXCEPT !.state = "created"])
          BY <2>1, <2>2 DEF Stands, StandsFor, JobRecords
    <3> QED BY <1>1, <1>4, <2>1, <2>2, <3>1, OneJob DEF Retry, TypeOK
  <2>3. CASE ~StandsFor(x, job[x].root)
    <3>1. [job[x] EXCEPT !.state = "created"] \in JobRecords
          BY <2>1 DEF JobRecords
    <3>2. job[x].root \in Ids
          BY <2>1 DEF JobSound, Used
    <3>3. TypeOK'
          BY <1>1, <1>4, <2>3, <3>1, <3>2 DEF Retry, TypeOK
    <3>4. Sending' \subseteq Sending
          BY <1>4 DEF Retry, Sending
    <3> QED BY <1>1, <1>4, <2>1, <2>3, <3>3, <3>4, RetriedStands DEF Retry, IInv
  <2> QED BY <2>2, <2>3
<1> QED BY <1>2, <1>3, <1>4, FailKeeps, RedriveKeeps DEF JobStep

\* The invariant holds throughout.
THEOREM PlacesInvariant == Spec => []IInv
<1>1. Init => IInv
  <2> SUFFICES ASSUME Init PROVE IInv
      OBVIOUS
  <2>1. TypeOK
    <3>1. table \in [Names -> Stored] /\ deadLetter \in [Names -> Places]
          BY QueuesAssumption DEF Init, Stored, Tables, Places
    <3>2. cache \in [Instances -> [Names -> Stored]]
          BY <3>1 DEF Init
    <3>3. job \in [Ids -> JobRecords] /\ call \in [Instances -> CallRecords]
          BY RecordTypes DEF Init
    <3> QED BY <3>1, <3>2, <3>3 DEF Init, TypeOK, Idle
  <2>2. Used = {} /\ Sending = {} /\ \A x \in Ids : job[x] = NoJob
        BY DEF Init, Used, Sending, NoJob, Idle
  <2>3. NextId = 1 /\ Cardinality(Sending) = 0
        BY <2>1, <2>2, Counts, FS_EmptySet
  <2> QED BY <2>1, <2>2, <2>3, QueuesAssumption
          DEF IInv, PlacesInv, Dense, JobSound, NoJob, Ids, Used, Init
<1>2. ASSUME IInv, [Next]_vars PROVE IInv'
  <2>1. CASE UNCHANGED vars
        BY <1>2, <2>1 DEF vars, IInv, TypeOK, PlacesInv, Dense, JobSound, Stood, StandsFor,
              Used, Sending, NextId, CallOK
  <2>2. ASSUME NEW i \in Instances, NEW k \in Refreshes,
               RefreshRead(i, k) \/ RefreshApply(i, k) \/ RefreshFails(i, k)
        PROVE  IInv'
    <3>1. TypeOK' /\ UNCHANGED <<job, call, again>>
          BY <1>2, <2>2, RefreshTypeOK DEF IInv, RefreshRead, RefreshApply, RefreshFails
    <3> QED BY <1>2, <3>1, NothingChanges DEF IInv, Sending
  <2> QED BY <1>2, <2>1, <2>2, ElsewhereKeeps, JobKeeps, CallKeeps, CallsKeep DEF Next
<1> QED BY <1>1, <1>2, PTL DEF Spec

\* OnePlacePerJob: whatever fails, is redriven, collides, is retried, is emptied or
\* deleted, every job sent stands in exactly one place, and in one more for each
\* retry() of a job whose copy was already in the dead letter queue (retryJobs).
THEOREM OnePlaceTheorem == Spec => []OnePlacePerJob
<1>1. IInv => OnePlacePerJob
      BY DEF IInv, PlacesInv, OnePlacePerJob, Stood
<1> QED BY <1>1, PlacesInvariant, PTL
================================================================================
