-------------------------------- MODULE Bam_proofs --------------------------------
(* Proofs about Bam, for any commands, tables and runners and any number of       *)
(* stops, crashes and failures: what the claims and the statements leave behind.  *)
EXTENDS Bam, SequenceTheorems, TLAPS

-----------------------------------------------------------------------------
(* The inductive invariant *)

\* The statements on the server, by table and place.
Places == {p \in Tables \X Nat : p[2] \in DOMAIN queue[p[1]]}
At(p) == queue[p[1]][p[2]]

\* A runner that is not idle works on a command, which had not completed.
Working ==
    \A r \in Runners : phase[r] # "idle" =>
        entry[r].cmd \in Commands /\ entry[r].prior # "completed"

\* It has the claim on it, as long as no live runner was outrun.
HasClaim ==
    \A r \in Runners : phase[r] # "idle" =>
        status[entry[r].cmd] = "in_progress" /\ claimant[entry[r].cmd] = r

\* A statement is one of a claimed command, the only one, and its client waits for it.
OneStatement ==
    /\ \A p \in Places :
          /\ TableOf[At(p).cmd] = p[1] /\ status[At(p).cmd] = "in_progress"
          /\ At(p).by \in Runners => entry[At(p).by].cmd = At(p).cmd
    /\ \A p, q \in Places : At(p).cmd = At(q).cmd => p = q
    /\ \A p \in Places, r \in Runners :
          phase[r] # "idle" /\ entry[r].cmd = At(p).cmd =>
              At(p).by = r /\ phase[r] \in {"healing", "building"} /\ result[r] = "none"

\* Whoever has begun has completed predecessors, and what completed is built.
InOrder ==
    /\ \A c \in Commands :
          status[c] # "pending" \/ (c \notin Builds /\ index[c] # "valid")
              => \A p \in Predecessors(c) : status[p] = "completed"
    /\ \A c \in Builds : status[c] = "completed" => index[c] = "valid"
    /\ \A r \in Runners : phase[r] = "done" /\ entry[r].cmd \in Builds => index[entry[r].cmd] = "valid"

Sound == HasClaim /\ OneStatement /\ InOrder

IInv == TypeOK /\ Working /\ (outrun \/ Sound)

-----------------------------------------------------------------------------
(* Types *)

Entries == [cmd : Commands \cup {NoCommand}, prior : Statuses,
            priorClaimant : Runners \cup {NoRunner}]
Statements == [cmd : Commands, op : {"heal", "run"}, by : Runners \cup {NoRunner}, began : BOOLEAN]

(* A runner that goes on with its command stays well typed. *)
LEMMA GotoType ==
    ASSUME TypeOK, Working, NEW r \in Runners, NEW p \in Phases \ {"idle"}, phase[r] # "idle", Goto(r, p)
    PROVE  /\ phase' \in [Runners -> Phases] /\ entry' \in [Runners -> Entries]
           /\ result' \in [Runners -> {"none", "ok", "error"}]
           /\ \A x \in Runners : phase'[x] = "idle" <=> entry'[x] = NoEntry
           /\ Working'
  BY DEF TypeOK, Working, Goto, Entries

(* So does one that leaves it. *)
LEMMA LeaveType ==
    ASSUME TypeOK, Working, NEW r \in Runners, Leave(r)
    PROVE  /\ phase' \in [Runners -> Phases] /\ entry' \in [Runners -> Entries]
           /\ result' \in [Runners -> {"none", "ok", "error"}]
           /\ \A x \in Runners : phase'[x] = "idle" <=> entry'[x] = NoEntry
           /\ Working'
  <1>1. NoEntry \in Entries
    BY DEF NoEntry, Entries, Statuses
  <1>2. "idle" \in Phases
    BY DEF Phases
  <1> QED
    BY <1>1, <1>2 DEF TypeOK, Working, Leave, Entries

(* A statement that has ended leaves the queue of its table. *)
LEMMA ReturnType ==
    ASSUME TypeOK, NEW t \in Tables, NEW outcome \in {"ok", "error"}, queue[t] # <<>>, Return(t, outcome)
    PROVE  /\ queue' \in [Tables -> Seq(Statements)]
           /\ result' \in [Runners -> {"none", "ok", "error"}]
  <1>1. queue \in [Tables -> Seq(Statements)]
    BY DEF TypeOK, Statements
  <1>2. Tail(queue[t]) \in Seq(Statements)
    BY <1>1
  <1> QED
    BY <1>1, <1>2 DEF TypeOK, Return

(* The first statement of a table is one of the table's statements. *)
LEMMA FirstType ==
    ASSUME TypeOK, NEW t \in Tables, queue[t] # <<>>
    PROVE  /\ Head(queue[t]) \in Statements /\ Head(queue[t]) = queue[t][1]
           /\ 1 \in DOMAIN queue[t] /\ <<t, 1>> \in Places
  <1>1. queue[t] \in Seq(Statements)
    BY DEF TypeOK, Statements
  <1> QED
    BY <1>1 DEF Places

(* What is at a place is a statement. *)
LEMMA StatementType ==
    ASSUME TypeOK, NEW p \in Places
    PROVE  At(p) \in Statements /\ p[1] \in Tables /\ p[2] \in Nat /\ p[2] \in DOMAIN queue[p[1]]
  <1>1. p[1] \in Tables /\ p[2] \in Nat /\ p[2] \in DOMAIN queue[p[1]]
    BY DEF Places
  <1>2. queue[p[1]] \in Seq(Statements)
    BY <1>1 DEF TypeOK, Statements
  <1> QED
    BY <1>1, <1>2 DEF At

(* Statements whose client has gone are statements. *)
LEMMA OrphanType ==
    ASSUME TypeOK, NEW r \in Runners, Orphan(r)
    PROVE  /\ queue' \in [Tables -> Seq(Statements)]
           /\ \A t \in Tables : DOMAIN queue'[t] = DOMAIN queue[t]
           /\ \A t \in Tables, i \in Nat : i \in DOMAIN queue[t] =>
                 queue'[t][i] = IF queue[t][i].by = r
                                THEN [queue[t][i] EXCEPT !.by = NoRunner] ELSE queue[t][i]
  <1> DEFINE Q(t) == [i \in DOMAIN queue[t] |->
                         IF queue[t][i].by = r THEN [queue[t][i] EXCEPT !.by = NoRunner]
                         ELSE queue[t][i]]
  <1>1. ASSUME NEW t \in Tables
        PROVE  Q(t) \in Seq(Statements)
    <2>1. queue[t] \in Seq(Statements)
      BY DEF TypeOK, Statements
    <2>2. /\ Len(queue[t]) \in Nat /\ DOMAIN queue[t] = 1..Len(queue[t])
          /\ \A i \in 1..Len(queue[t]) : queue[t][i] \in Statements
      BY <2>1
    <2>3. ASSUME NEW x \in Statements
          PROVE  [x EXCEPT !.by = NoRunner] \in Statements
      BY DEF Statements
    <2>4. Q(t) \in [1..Len(queue[t]) -> Statements]
      BY <2>2, <2>3
    <2> HIDE DEF Q
    <2> QED
      BY <2>2, <2>4, IsASeq
  <1>2. queue' = [t \in Tables |-> Q(t)]
    BY DEF Orphan
  <1>3. \A t \in Tables : queue'[t] = Q(t)
    BY <1>2
  <1>4. queue' \in [Tables -> Seq(Statements)]
    <2> HIDE DEF Q
    <2> QED
      BY <1>1, <1>2
  <1>5. \A t \in Tables : DOMAIN queue[t] \subseteq Nat
    BY DEF TypeOK
  <1> QED
    BY <1>3, <1>4

(* Every step keeps every state well typed and every runner at work on a command. *)
LEMMA TypeStep == TypeOK /\ Working /\ [Next]_vars => TypeOK' /\ Working'
  <1> USE BamAssumption
  <1> SUFFICES ASSUME TypeOK, Working, [Next]_vars PROVE TypeOK' /\ Working'
    OBVIOUS
  <1>0. /\ status \in [Commands -> Statuses] /\ claimant \in [Commands -> Runners \cup {NoRunner}]
        /\ fresh \in [Commands -> BOOLEAN]
        /\ index \in [Commands -> {"absent", "invalid", "valid"}]
        /\ queue \in [Tables -> Seq(Statements)] /\ phase \in [Runners -> Phases]
        /\ entry \in [Runners -> Entries] /\ result \in [Runners -> {"none", "ok", "error"}]
        /\ faults \in 0..MaxFaults /\ outrun \in BOOLEAN
        /\ \A r \in Runners : phase[r] = "idle" <=> entry[r] = NoEntry
    BY DEF TypeOK, Statements, Entries
  <1>1. ASSUME Fault PROVE faults' \in 0..MaxFaults
    BY <1>1, <1>0 DEF Fault
  <1> DEFINE RunsTyped ==
               /\ phase' \in [Runners -> Phases] /\ entry' \in [Runners -> Entries]
               /\ result' \in [Runners -> {"none", "ok", "error"}]
               /\ \A x \in Runners : phase'[x] = "idle" <=> entry'[x] = NoEntry
               /\ Working'
  <1>2. ASSUME RunsTyped,
               status' \in [Commands -> Statuses],
               claimant' \in [Commands -> Runners \cup {NoRunner}],
               fresh' \in [Commands -> BOOLEAN],
               index' \in [Commands -> {"absent", "invalid", "valid"}],
               queue' \in [Tables -> Seq(Statements)],
               faults' \in 0..MaxFaults, outrun' \in BOOLEAN
        PROVE  TypeOK' /\ Working'
    BY <1>2 DEF TypeOK, Statements, Entries
  <1>3. ASSUME UNCHANGED runVars PROVE RunsTyped
    BY <1>3, <1>0 DEF runVars, Working
  <1>4. ASSUME UNCHANGED <<phase, entry>>, result' \in [Runners -> {"none", "ok", "error"}] PROVE RunsTyped
    BY <1>4, <1>0 DEF Working
  <1>5. ASSUME NEW r \in Runners, Leave(r) PROVE RunsTyped
    BY <1>5, LeaveType
  <1>6. ASSUME NEW r \in Runners, phase[r] # "idle", NEW p \in Phases \ {"idle"}, Goto(r, p) PROVE RunsTyped
    BY <1>6, GotoType
  <1>7. \A r \in Runners : phase[r] # "idle" =>
            entry[r].cmd \in Commands /\ entry[r].prior \in Statuses
                /\ entry[r].priorClaimant \in Runners \cup {NoRunner}
    BY <1>0 DEF Working, Entries
  <1> HIDE DEF RunsTyped
  <1>8. ASSUME NEW r \in Runners, Claim(r) PROVE TypeOK' /\ Working'
    <2>1. PICK c \in Commands :
              /\ Claimable(c)
              /\ status' = [status EXCEPT ![c] = "in_progress"]
              /\ claimant' = [claimant EXCEPT ![c] = r]
              /\ fresh' = [fresh EXCEPT ![c] = TRUE]
              /\ entry' = [entry EXCEPT ![r] = [cmd |-> c, prior |-> status[c],
                                                priorClaimant |-> claimant[c]]]
              /\ outrun' = (outrun \/ Outruns(c))
              /\ IF Outruns(c) THEN Fault ELSE UNCHANGED faults
      BY <1>8 DEF Claim
    <2>2. phase' = [phase EXCEPT ![r] = "claimed"] /\ UNCHANGED <<index, queue, result>>
      BY <1>8 DEF Claim
    <2>3. status[c] # "completed" /\ status[c] \in Statuses /\ claimant[c] \in Runners \cup {NoRunner}
      BY <2>1, <1>0 DEF Claimable, Stale
    <2>4. [cmd |-> c, prior |-> status[c], priorClaimant |-> claimant[c]] \in Entries
      BY <2>3 DEF Entries
    <2>5. [cmd |-> c, prior |-> status[c], priorClaimant |-> claimant[c]] # NoEntry
      BY DEF NoEntry
    <2>6. "claimed" \in Phases /\ "in_progress" \in Statuses
      BY DEF Phases, Statuses
    <2>7. /\ phase' \in [Runners -> Phases] /\ entry' \in [Runners -> Entries]
          /\ result' \in [Runners -> {"none", "ok", "error"}]
      BY <1>0, <2>1, <2>2, <2>4, <2>6
    <2>8. /\ phase'[r] = "claimed" /\ entry'[r].cmd = c /\ entry'[r].prior = status[c]
          /\ entry'[r] # NoEntry
          /\ \A x \in Runners \ {r} : phase'[x] = phase[x] /\ entry'[x] = entry[x]
      BY <1>0, <2>1, <2>2, <2>5
    <2>9. RunsTyped
      BY <1>0, <2>3, <2>7, <2>8 DEF RunsTyped, Working
    <2>10. faults' \in 0..MaxFaults
      <3>1. CASE Outruns(c)
        BY <2>1, <1>1, <3>1
      <3>2. CASE ~Outruns(c)
        BY <2>1, <1>0, <3>2
      <3> QED
        BY <3>1, <3>2
    <2>11. outrun' \in BOOLEAN
      <3>1. (outrun \/ Outruns(c)) \in BOOLEAN
        OBVIOUS
      <3> QED
        BY <2>1, <3>1
    <2> QED
      BY <1>0, <1>2, <2>1, <2>2, <2>6, <2>9, <2>10, <2>11
  <1>9. ASSUME NEW r \in Runners, ReleaseClaim(r) PROVE TypeOK' /\ Working'
    <2>1. phase[r] # "idle" /\ Leave(r) /\ Fault /\ UNCHANGED <<index, queue, outrun>>
      BY <1>9 DEF ReleaseClaim
    <2>2. /\ status' \in [Commands -> Statuses]
          /\ claimant' \in [Commands -> Runners \cup {NoRunner}]
          /\ fresh' \in [Commands -> BOOLEAN]
      <3>1. CASE status[entry[r].cmd] = "in_progress" /\ claimant[entry[r].cmd] = r
        BY <1>9, <3>1, <2>1, <1>0, <1>7 DEF ReleaseClaim
      <3>2. CASE ~(status[entry[r].cmd] = "in_progress" /\ claimant[entry[r].cmd] = r)
        BY <1>9, <3>2, <1>0 DEF ReleaseClaim, rowVars
      <3> QED
        BY <3>1, <3>2
    <2> QED
      BY <1>0, <1>1, <1>2, <1>5, <2>1, <2>2
  <1>10. ASSUME NEW r \in Runners, Probe(r) PROVE TypeOK' /\ Working'
    <2>1. phase[r] # "idle" /\ AfterProbe(entry[r].cmd, entry[r].prior) \in Phases \ {"idle"}
      BY <1>10 DEF Probe, AfterProbe, Phases
    <2> QED
      BY <1>10, <1>0, <1>2, <1>6, <2>1 DEF Probe, rowVars
  <1>11. ASSUME NEW r \in Runners, HealDrop(r) \/ RunCommand(r) PROVE TypeOK' /\ Working'
    <2>1. phase[r] # "idle"
      BY <1>11 DEF HealDrop, RunCommand
    <2>2. PICK op \in {"heal", "run"}, next \in Phases \ {"idle"} : Execute(r, op, next)
      <3>1. CASE HealDrop(r)
        BY <3>1 DEF HealDrop, Phases
      <3>2. CASE RunCommand(r)
        BY <3>2 DEF RunCommand, Phases
      <3> QED
        BY <1>11, <3>1, <3>2
    <2> DEFINE s == [cmd |-> entry[r].cmd, op |-> op, by |-> r, began |-> FALSE]
    <2>3. s \in Statements
      BY <2>1, <1>7 DEF Statements
    <2>4. TableOf[entry[r].cmd] \in Tables
      BY <2>1, <1>7 DEF Tables
    <2>5. queue' = [queue EXCEPT ![TableOf[entry[r].cmd]] = Append(queue[TableOf[entry[r].cmd]], s)]
      BY <2>2 DEF Execute
    <2>6. Append(queue[TableOf[entry[r].cmd]], s) \in Seq(Statements)
      BY <1>0, <2>3, <2>4
    <2> HIDE DEF s
    <2>7. queue' \in [Tables -> Seq(Statements)]
      BY <1>0, <2>5, <2>6
    <2>8. Goto(r, next) /\ UNCHANGED <<rowVars, index, faults, outrun>>
      BY <2>2 DEF Execute
    <2> QED
      BY <1>0, <1>2, <1>6, <2>1, <2>7, <2>8 DEF rowVars
  <1>12. ASSUME NEW r \in Runners, NotStarted(r) PROVE TypeOK' /\ Working'
    <2>1. phase[r] # "idle" /\ "failed" \in Phases \ {"idle"}
      BY <1>12 DEF NotStarted, Phases
    <2> QED
      BY <1>12, <1>0, <1>1, <1>2, <1>6, <2>1 DEF NotStarted, rowVars
  <1>13. ASSUME NEW r \in Runners, StatementReturns(r) PROVE TypeOK' /\ Working'
    <2>1. PICK p \in Phases \ {"idle"} : Goto(r, p)
      BY <1>13 DEF StatementReturns, Phases
    <2>2. phase[r] # "idle"
      BY <1>13 DEF StatementReturns
    <2> QED
      BY <1>13, <1>0, <1>2, <1>6, <2>1, <2>2 DEF StatementReturns, rowVars
  <1>14. ASSUME NEW r \in Runners, Verify(r) PROVE TypeOK' /\ Working'
    <2>1. AfterBuild(entry[r].cmd) \in Phases \ {"idle"}
      BY DEF AfterBuild, Phases
    <2> QED
      BY <1>14, <1>0, <1>2, <1>6, <2>1 DEF Verify, rowVars
  <1>15. ASSUME NEW r \in Runners, MarkCompleted(r) \/ MarkFailed(r) PROVE TypeOK' /\ Working'
    <2>1. Leave(r) /\ UNCHANGED <<claimant, index, queue, faults, outrun>>
      BY <1>15 DEF MarkCompleted, MarkFailed
    <2>2. status' \in [Commands -> Statuses] /\ fresh' \in [Commands -> BOOLEAN]
      BY <1>15, <1>0 DEF MarkCompleted, MarkFailed, Statuses
    <2> QED
      BY <1>0, <1>2, <1>5, <2>1, <2>2
  <1>16. ASSUME NEW r \in Runners, MarkFails(r) PROVE TypeOK' /\ Working'
    <2>1. Fault /\ UNCHANGED <<rowVars, index, queue, outrun>>
      BY <1>16 DEF MarkFails
    <2>2. CASE phase[r] = "done" /\ Goto(r, "failed")
      <3>1. "failed" \in Phases \ {"idle"} /\ phase[r] # "idle"
        BY <2>2 DEF Phases
      <3> QED
        BY <1>0, <1>1, <1>2, <1>6, <2>1, <2>2, <3>1 DEF rowVars
    <2>3. CASE Leave(r)
      BY <1>0, <1>1, <1>2, <1>5, <2>1, <2>3 DEF rowVars
    <2> QED
      BY <1>16, <2>2, <2>3 DEF MarkFails
  <1>17. ASSUME NEW r \in Runners, Abandon(r) PROVE TypeOK' /\ Working'
    <2>1. queue' \in [Tables -> Seq(Statements)]
      BY <1>17, OrphanType DEF Abandon
    <2> QED
      BY <1>17, <1>0, <1>1, <1>2, <1>5, <2>1 DEF Abandon, rowVars
  <1>18. ASSUME NEW r \in Runners, ConnectionLost(r) PROVE TypeOK' /\ Working'
    <2>1. queue' \in [Tables -> Seq(Statements)]
      BY <1>18, OrphanType DEF ConnectionLost
    <2>2. result' \in [Runners -> {"none", "ok", "error"}] /\ UNCHANGED <<phase, entry>>
      BY <1>18, <1>0 DEF ConnectionLost
    <2> QED
      BY <1>18, <1>0, <1>1, <1>2, <1>4, <2>1, <2>2 DEF ConnectionLost, rowVars
  <1>19. ASSUME NEW c \in Commands, GracePasses(c) PROVE TypeOK' /\ Working'
    <2>1. fresh' \in [Commands -> BOOLEAN]
      BY <1>19, <1>0 DEF GracePasses
    <2> QED
      BY <1>19, <1>0, <1>2, <1>3, <2>1 DEF GracePasses
  <1>20. ASSUME NEW t \in Tables, Begin(t) PROVE TypeOK' /\ Working'
    <2>1. queue[t] # <<>> /\ UNCHANGED <<rowVars, phase, entry, faults, outrun>>
      BY <1>20 DEF Begin
    <2>2. /\ Head(queue[t]) \in Statements /\ Head(queue[t]) = queue[t][1] /\ 1 \in DOMAIN queue[t]
      BY <2>1, FirstType
    <2>3. CASE Return(t, "ok") /\ UNCHANGED index
      <3>1. /\ queue' \in [Tables -> Seq(Statements)]
            /\ result' \in [Runners -> {"none", "ok", "error"}]
        BY <2>1, <2>3, ReturnType
      <3> QED
        BY <1>0, <1>2, <1>4, <2>1, <2>3, <3>1 DEF rowVars
    <2>4. CASE /\ queue' = [queue EXCEPT ![t][1].began = TRUE]
               /\ index' = IF Head(queue[t]).op = "run" /\ Head(queue[t]).cmd \in Builds
                           THEN [index EXCEPT ![Head(queue[t]).cmd] = "invalid"] ELSE index
               /\ UNCHANGED result
      <3>1. [queue[t][1] EXCEPT !.began = TRUE] \in Statements
        BY <2>2 DEF Statements
      <3>2. [queue[t] EXCEPT ![1] = [queue[t][1] EXCEPT !.began = TRUE]] \in Seq(Statements)
        BY <1>0, <2>2, <3>1
      <3>3. queue' = [queue EXCEPT ![t] = [queue[t] EXCEPT ![1] = [queue[t][1] EXCEPT !.began = TRUE]]]
        BY <2>4
      <3>4. queue' \in [Tables -> Seq(Statements)]
        BY <1>0, <3>2, <3>3
      <3>5. index' \in [Commands -> {"absent", "invalid", "valid"}]
        BY <1>0, <2>4
      <3> QED
        BY <1>0, <1>2, <1>4, <2>1, <2>4, <3>4, <3>5 DEF rowVars
    <2> QED
      BY <1>20, <2>3, <2>4 DEF Begin
  <1>21. ASSUME NEW t \in Tables, Succeed(t) \/ Break(t) PROVE TypeOK' /\ Working'
    <2>1. queue[t] # <<>> /\ UNCHANGED <<rowVars, phase, entry, outrun>>
      BY <1>21 DEF Succeed, Break
    <2>2. PICK outcome \in {"ok", "error"} : Return(t, outcome)
      BY <1>21 DEF Succeed, Break
    <2>3. /\ queue' \in [Tables -> Seq(Statements)]
          /\ result' \in [Runners -> {"none", "ok", "error"}]
      BY <2>1, <2>2, ReturnType
    <2>4. index' \in [Commands -> {"absent", "invalid", "valid"}]
      BY <1>21, <1>0 DEF Succeed, Break
    <2>5. faults' \in 0..MaxFaults
      <3>1. CASE Succeed(t)
        BY <3>1, <1>0 DEF Succeed
      <3>2. CASE Break(t)
        BY <3>2, <1>1 DEF Break
      <3> QED
        BY <1>21, <3>1, <3>2
    <2> QED
      BY <1>0, <1>2, <1>4, <2>1, <2>3, <2>4, <2>5 DEF rowVars
  <1>22. CASE UNCHANGED vars
    BY <1>0, <1>2, <1>3, <1>22 DEF vars, rowVars
  <1> QED
    BY <1>8, <1>9, <1>10, <1>11, <1>12, <1>13, <1>14, <1>15, <1>16, <1>17, <1>18, <1>19,
       <1>20, <1>21, <1>22 DEF Next, RunnerStep, ServerStep

-----------------------------------------------------------------------------
(* Soundness is kept *)

\* Runner r waits for no statement.
AwaitsNothing(r) == ~(phase[r] \in {"healing", "building"} /\ result[r] = "none")

\* Runner r changes its own row and its own place, and no statement.
Moves(r) ==
    LET c == entry[r].cmd IN
    /\ phase[r] # "idle" /\ AwaitsNothing(r)
    /\ UNCHANGED <<index, queue>>
    /\ \A d \in Commands \ {c} : status'[d] = status[d] /\ claimant'[d] = claimant[d]
    /\ \A s \in Runners \ {r} :
          phase'[s] = phase[s] /\ entry'[s] = entry[s] /\ result'[s] = result[s]
    /\ \/ phase'[r] = "idle"
       \/ entry'[r].cmd = c /\ status'[c] = status[c] /\ claimant'[c] = claimant[c]
    /\ status'[c] = "completed" \/ phase'[r] = "done" => c \notin Builds \/ index[c] = "valid"

(* A runner that waits for nothing has no statement, so what it does to its row and *)
(* its place disturbs no other runner.                                               *)
LEMMA MovesSound ==
    ASSUME TypeOK, Working, Sound, NEW r \in Runners, Moves(r)
    PROVE  Sound'
  <1> USE BamAssumption
  <1> DEFINE c == entry[r].cmd
  <1>1. /\ c \in Commands /\ status[c] = "in_progress" /\ claimant[c] = r /\ Places' = Places
    BY DEF Moves, Working, Sound, HasClaim, Places
  <1>2. \A p \in Places : At(p)' = At(p) /\ At(p).cmd \in Commands /\ At(p).cmd # c
    <2> TAKE p \in Places
    <2>1. At(p)' = At(p)
      BY DEF Moves, At
    <2>2. At(p) \in Statements
      BY StatementType
    <2>3. At(p).cmd # c
      BY DEF Moves, AwaitsNothing, Sound, OneStatement
    <2> QED
      BY <2>1, <2>2, <2>3 DEF Statements
  <1>3. \A s \in Runners \ {r} :
            /\ phase'[s] = phase[s] /\ entry'[s] = entry[s] /\ result'[s] = result[s]
            /\ phase[s] # "idle" => entry[s].cmd \in Commands /\ entry[s].cmd # c
    BY <1>1 DEF Moves, Working, Sound, HasClaim
  <1>4. \A d \in Commands \ {c} : status'[d] = status[d] /\ claimant'[d] = claimant[d]
    BY DEF Moves
  <1>5. phase'[r] # "idle" => entry'[r].cmd = c /\ status'[c] = "in_progress" /\ claimant'[c] = r
    BY <1>1 DEF Moves
  <1>6. HasClaim'
    BY <1>3, <1>4, <1>5 DEF Sound, HasClaim
  <1>7. OneStatement'
    <2>1. \A p \in Places :
              /\ TableOf[At(p)'.cmd] = p[1] /\ status'[At(p)'.cmd] = "in_progress"
              /\ At(p)'.by \in Runners => entry'[At(p)'.by].cmd = At(p)'.cmd
      BY <1>2, <1>3, <1>4 DEF Sound, OneStatement
    <2>2. \A p, q \in Places : At(p)'.cmd = At(q)'.cmd => p = q
      BY <1>2 DEF Sound, OneStatement
    <2>3. \A p \in Places, s \in Runners :
              phase'[s] # "idle" /\ entry'[s].cmd = At(p)'.cmd =>
                  At(p)'.by = s /\ phase'[s] \in {"healing", "building"} /\ result'[s] = "none"
      BY <1>2, <1>3, <1>5 DEF Sound, OneStatement
    <2> QED
      BY <1>1, <2>1, <2>2, <2>3 DEF OneStatement
  <1>8. InOrder'
    <2>1. index' = index
      BY DEF Moves
    <2>2. ASSUME NEW d \in Commands, status'[d] # "pending" \/ (d \notin Builds /\ index[d] # "valid")
          PROVE  \A p \in Predecessors(d) : status'[p] = "completed"
      <3>1. \A p \in Predecessors(d) : status[p] = "completed"
        BY <1>1, <1>4, <2>2 DEF Sound, InOrder
      <3> QED
        BY <1>1, <1>4, <3>1 DEF Predecessors
    <2>3. \A d \in Builds : status'[d] = "completed" => index[d] = "valid"
      BY <1>4 DEF Moves, Sound, InOrder
    <2>4. \A s \in Runners : phase'[s] = "done" /\ entry'[s].cmd \in Builds => index[entry'[s].cmd] = "valid"
      BY <1>3, <1>5 DEF Moves, Sound, InOrder
    <2> QED
      BY <2>1, <2>2, <2>3, <2>4 DEF InOrder, Predecessors
  <1> QED
    BY <1>6, <1>7, <1>8 DEF Sound

(* The eight moves. *)
LEMMA MovesAre ==
    ASSUME TypeOK, Working, Sound, NEW r \in Runners,
           \/ ReleaseClaim(r) \/ Probe(r) \/ NotStarted(r) \/ StatementReturns(r) \/ Verify(r)
           \/ MarkCompleted(r) \/ MarkFailed(r) \/ MarkFails(r)
    PROVE  Moves(r)
  <1> DEFINE c == entry[r].cmd
  <1>0. /\ status \in [Commands -> Statuses] /\ claimant \in [Commands -> Runners \cup {NoRunner}]
        /\ phase \in [Runners -> Phases] /\ entry \in [Runners -> Entries]
        /\ result \in [Runners -> {"none", "ok", "error"}]
        /\ index \in [Commands -> {"absent", "invalid", "valid"}]
    BY DEF TypeOK, Entries
  <1>1. phase[r] # "idle" /\ AwaitsNothing(r)
    BY DEF AwaitsNothing, ReleaseClaim, Probe, NotStarted, StatementReturns, Verify, MarkCompleted,
           MarkFailed, MarkFails
  <1>2. /\ c \in Commands /\ entry[r].prior # "completed"
        /\ status[c] = "in_progress" /\ claimant[c] = r
    BY <1>1 DEF Working, Sound, HasClaim
  <1>3. ASSUME NEW p, Goto(r, p)
        PROVE  /\ phase'[r] = p /\ entry' = entry
               /\ \A s \in Runners \ {r} :
                     phase'[s] = phase[s] /\ entry'[s] = entry[s] /\ result'[s] = result[s]
    BY <1>3, <1>0 DEF Goto
  <1>4. ASSUME Leave(r)
        PROVE  /\ phase'[r] = "idle"
               /\ \A s \in Runners \ {r} :
                     phase'[s] = phase[s] /\ entry'[s] = entry[s] /\ result'[s] = result[s]
    BY <1>4, <1>0 DEF Leave
  <1>5. CASE ReleaseClaim(r)
    <2>1. Leave(r) /\ UNCHANGED <<index, queue>>
      BY <1>5 DEF ReleaseClaim
    <2>2. /\ status' = [status EXCEPT ![c] = entry[r].prior]
          /\ claimant' = [claimant EXCEPT ![c] = entry[r].priorClaimant]
      BY <1>5, <1>2 DEF ReleaseClaim
    <2> QED
      BY <1>0, <1>1, <1>2, <1>4, <2>1, <2>2 DEF Moves
  <1>6. CASE Probe(r)
    <2>1. AfterProbe(c, entry[r].prior) = "done" => c \notin Builds \/ index[c] = "valid"
      BY <1>0, <1>2 DEF AfterProbe
    <2> QED
      BY <1>1, <1>2, <1>3, <1>6, <2>1 DEF Probe, Moves, rowVars
  <1>7. CASE NotStarted(r)
    BY <1>1, <1>2, <1>3, <1>7 DEF NotStarted, Moves, rowVars
  <1>8. CASE StatementReturns(r)
    <2>1. PICK p \in {"failed", "build", "verify"} : Goto(r, p)
      BY <1>8 DEF StatementReturns
    <2> QED
      BY <1>1, <1>2, <1>3, <1>8, <2>1 DEF StatementReturns, Moves, rowVars
  <1>9. CASE Verify(r)
    <2>1. AfterBuild(c) = "done" => c \notin Builds \/ index[c] = "valid"
      BY DEF AfterBuild
    <2> QED
      BY <1>1, <1>2, <1>3, <1>9, <2>1 DEF Verify, Moves, rowVars
  <1>10. CASE MarkCompleted(r)
    <2>1. c \in Builds => index[c] = "valid"
      BY <1>10 DEF MarkCompleted, Sound, InOrder
    <2>2. Leave(r) /\ UNCHANGED <<claimant, index, queue>>
      BY <1>10 DEF MarkCompleted
    <2>3. \A d \in Commands \ {c} : status'[d] = status[d] /\ claimant'[d] = claimant[d]
      BY <1>0, <1>10 DEF MarkCompleted
    <2> QED
      BY <1>1, <1>2, <1>4, <2>1, <2>2, <2>3 DEF Moves
  <1>11. CASE MarkFailed(r)
    <2>1. Leave(r) /\ UNCHANGED <<claimant, index, queue>>
      BY <1>11 DEF MarkFailed
    <2>2. status'[c] = "failed"
      BY <1>0, <1>2, <1>11 DEF MarkFailed
    <2>3. \A d \in Commands \ {c} : status'[d] = status[d] /\ claimant'[d] = claimant[d]
      BY <1>0, <1>11 DEF MarkFailed
    <2> QED
      BY <1>1, <1>2, <1>4, <2>1, <2>2, <2>3 DEF Moves
  <1>12. CASE MarkFails(r)
    <2>1. CASE Goto(r, "failed")
      BY <1>1, <1>2, <1>3, <1>12, <2>1 DEF MarkFails, Moves, rowVars
    <2>2. CASE Leave(r)
      BY <1>1, <1>2, <1>4, <1>12, <2>2 DEF MarkFails, Moves, rowVars
    <2> QED
      BY <1>12, <2>1, <2>2 DEF MarkFails
  <1> QED
    BY <1>5, <1>6, <1>7, <1>8, <1>9, <1>10, <1>11, <1>12

(* A claim that outruns nobody takes a row no statement and no runner is at work on. *)
LEMMA ClaimSound ==
    ASSUME TypeOK, Working, Sound, NEW r \in Runners, Claim(r), ~outrun'
    PROVE  Sound'
  <1> USE BamAssumption
  <1>0. /\ status \in [Commands -> Statuses] /\ claimant \in [Commands -> Runners \cup {NoRunner}]
        /\ phase \in [Runners -> Phases] /\ entry \in [Runners -> Entries]
        /\ \A x \in Runners : phase[x] = "idle" <=> entry[x] = NoEntry
    BY DEF TypeOK, Entries
  <1>1. PICK c \in Commands :
            /\ Claimable(c)
            /\ status' = [status EXCEPT ![c] = "in_progress"]
            /\ claimant' = [claimant EXCEPT ![c] = r]
            /\ entry' = [entry EXCEPT ![r] = [cmd |-> c, prior |-> status[c],
                                              priorClaimant |-> claimant[c]]]
            /\ outrun' = (outrun \/ Outruns(c))
    BY DEF Claim
  <1>2. phase[r] = "idle" /\ phase' = [phase EXCEPT ![r] = "claimed"] /\ UNCHANGED <<index, queue, result>>
    BY DEF Claim
  <1>3. ~(status[c] = "in_progress" /\ claimant[c] \in Runners /\ entry[claimant[c]].cmd = c)
    BY <1>1 DEF Outruns, AtWork
  <1>4. /\ entry[r].cmd = NoCommand /\ entry'[r].cmd = c /\ phase'[r] = "claimed"
        /\ status'[c] = "in_progress" /\ claimant'[c] = r
        /\ \A d \in Commands \ {c} : status'[d] = status[d] /\ claimant'[d] = claimant[d]
        /\ \A x \in Runners \ {r} : phase'[x] = phase[x] /\ entry'[x] = entry[x]
    BY <1>0, <1>1, <1>2 DEF NoEntry
  <1>5. \A x \in Runners \ {r} : phase[x] # "idle" => entry[x].cmd \in Commands /\ entry[x].cmd # c
    BY <1>3 DEF Working, Sound, HasClaim
  <1>6. HasClaim'
    BY <1>4, <1>5 DEF Sound, HasClaim
  <1>7. Places' = Places /\ \A p \in Places : At(p)' = At(p)
    BY <1>2 DEF Places, At
  <1>8. ASSUME NEW p \in Places
        PROVE  At(p).cmd \in Commands /\ At(p).cmd # c /\ At(p).by # r
    <2>1. /\ At(p) \in Statements /\ p[1] \in Tables /\ p[2] \in DOMAIN queue[p[1]]
      BY StatementType
    <2>2. At(p).cmd \in Commands
      BY <2>1 DEF Statements
    <2>3. /\ TableOf[At(p).cmd] = p[1] /\ status[At(p).cmd] = "in_progress"
          /\ At(p).by \in Runners => entry[At(p).by].cmd = At(p).cmd
      BY DEF Sound, OneStatement
    <2>4. At(p).by # r
      BY <1>4, <2>2, <2>3
    <2>5. ASSUME At(p).cmd = c PROVE FALSE
      <3>1. Stale(c)
        BY <1>1, <2>3, <2>5 DEF Claimable
      <3>2. queue[p[1]] = <<>>
        BY <2>3, <2>5, <3>1 DEF Stale, LiveBuild
      <3> QED
        BY <2>1, <3>2
    <2> QED
      BY <2>2, <2>4, <2>5
  <1>9. OneStatement'
    <2>1. \A p \in Places :
              /\ TableOf[At(p)'.cmd] = p[1] /\ status'[At(p)'.cmd] = "in_progress"
              /\ At(p)'.by \in Runners => entry'[At(p)'.by].cmd = At(p)'.cmd
      BY <1>4, <1>7, <1>8 DEF Sound, OneStatement
    <2>2. \A p, q \in Places : At(p)'.cmd = At(q)'.cmd => p = q
      BY <1>7 DEF Sound, OneStatement
    <2>3. \A p \in Places, s \in Runners :
              phase'[s] # "idle" /\ entry'[s].cmd = At(p)'.cmd =>
                  At(p)'.by = s /\ phase'[s] \in {"healing", "building"} /\ result'[s] = "none"
      BY <1>2, <1>4, <1>7, <1>8 DEF Sound, OneStatement
    <2> QED
      BY <1>7, <2>1, <2>2, <2>3 DEF OneStatement
  <1>10. InOrder'
    <2>1. status[c] # "completed" /\ \A p \in Predecessors(c) : status[p] = "completed" /\ p # c
      BY <1>1 DEF Claimable, Stale, Predecessors
    <2>2. ASSUME NEW d \in Commands, status'[d] # "pending" \/ (d \notin Builds /\ index[d] # "valid")
          PROVE  \A p \in Predecessors(d) : status'[p] = "completed"
      <3>1. \A p \in Predecessors(d) : status[p] = "completed"
        BY <1>4, <2>1, <2>2 DEF Sound, InOrder
      <3> QED
        BY <1>4, <2>1, <3>1 DEF Predecessors
    <2>3. \A d \in Builds : status'[d] = "completed" => index[d] = "valid"
      BY <1>4 DEF Sound, InOrder
    <2>4. \A s \in Runners : phase'[s] = "done" /\ entry'[s].cmd \in Builds => index[entry'[s].cmd] = "valid"
      BY <1>4 DEF Sound, InOrder
    <2> QED
      BY <1>2, <2>2, <2>3, <2>4 DEF InOrder, Predecessors
  <1> QED
    BY <1>6, <1>9, <1>10 DEF Sound

(* A runner that sends a statement has none on the server. *)
LEMMA ExecuteSound ==
    ASSUME TypeOK, Working, Sound, NEW r \in Runners, HealDrop(r) \/ RunCommand(r)
    PROVE  Sound'
  <1> USE BamAssumption
  <1> DEFINE c == entry[r].cmd
             t == TableOf[c]
  <1>0. /\ queue \in [Tables -> Seq(Statements)] /\ phase \in [Runners -> Phases]
        /\ entry \in [Runners -> Entries] /\ result \in [Runners -> {"none", "ok", "error"}]
    BY DEF TypeOK, Entries, Statements
  <1>1. PICK op \in {"heal", "run"}, next \in {"healing", "building"} : Execute(r, op, next)
    <2>1. CASE HealDrop(r)
      BY <2>1 DEF HealDrop
    <2>2. CASE RunCommand(r)
      BY <2>2 DEF RunCommand
    <2> QED
      BY <2>1, <2>2
  <1>2. phase[r] \in {"heal", "build"}
    BY DEF HealDrop, RunCommand
  <1>3. c \in Commands /\ t \in Tables /\ status[c] = "in_progress" /\ claimant[c] = r
    BY <1>2 DEF Working, Tables, Sound, HasClaim
  <1> DEFINE s == [cmd |-> c, op |-> op, by |-> r, began |-> FALSE]
  <1>4. s \in Statements /\ s.cmd = c /\ s.by = r
    BY <1>3 DEF Statements
  <1>5. queue' = [queue EXCEPT ![t] = Append(queue[t], s)]
    BY <1>1 DEF Execute
  <1>6. /\ UNCHANGED <<status, claimant, index, entry>>
        /\ phase'[r] = next /\ result'[r] = "none"
        /\ \A x \in Runners \ {r} : phase'[x] = phase[x] /\ result'[x] = result[x]
    BY <1>0, <1>1 DEF Execute, Goto, rowVars
  <1>new. PICK new \in Tables \X Nat : new = <<t, Len(queue[t]) + 1>>
    <2>1. queue[t] \in Seq(Statements) /\ Len(queue[t]) \in Nat
      BY <1>0, <1>3
    <2>2. <<t, Len(queue[t]) + 1>> \in Tables \X Nat
      BY <1>3, <2>1
    <2> QED
      BY <2>2
  <1>7. /\ Places' = Places \cup {new} /\ new \notin Places
        /\ At(new)' = s /\ \A p \in Places : At(p)' = At(p)
    <2>1. queue[t] \in Seq(Statements) /\ Len(queue[t]) \in Nat
      BY <1>0, <1>3
    <2>2. /\ DOMAIN queue[t] = 1..Len(queue[t])
          /\ DOMAIN queue'[t] = 1..(Len(queue[t]) + 1)
          /\ queue'[t][Len(queue[t]) + 1] = s
          /\ \A i \in 1..Len(queue[t]) : queue'[t][i] = queue[t][i]
      <3> HIDE DEF s
      <3> QED
        BY <1>0, <1>3, <1>4, <1>5, <2>1
    <2>3. \A u \in Tables \ {t} : queue'[u] = queue[u]
      BY <1>0, <1>3, <1>5
    <2> HIDE DEF t, s
    <2>4. new[1] = t /\ new[2] = Len(queue[t]) + 1 /\ new \in Tables \X Nat
      BY <1>new
    <2>5. new \notin Places
      BY <2>1, <2>2, <2>4 DEF Places
    <2>6. At(new)' = s
      BY <2>2, <2>4 DEF At
    <2>7. ASSUME NEW p \in Tables \X Nat
          PROVE  /\ p[2] \in DOMAIN queue'[p[1]] <=> p[2] \in DOMAIN queue[p[1]] \/ p = new
                 /\ p[2] \in DOMAIN queue[p[1]] => queue'[p[1]][p[2]] = queue[p[1]][p[2]]
      <3>1. CASE p[1] = t
        <4>1. p = <<p[1], p[2]>> /\ p[2] \in Nat
          OBVIOUS
        <4>2. p = new <=> p[2] = Len(queue[t]) + 1
          BY <1>new, <3>1, <4>1
        <4> QED
          BY <2>1, <2>2, <3>1, <4>1, <4>2
      <3>2. CASE p[1] # t
        BY <2>3, <2>4, <3>2
      <3> QED
        BY <3>1, <3>2
    <2>8. \A p \in Places : At(p)' = At(p)
      BY <2>7 DEF At, Places
    <2>9. Places' = Places \cup {new}
      BY <2>4, <2>7 DEF Places
    <2> QED
      BY <2>5, <2>6, <2>8, <2>9
  <1>8. ASSUME NEW p \in Places
        PROVE  At(p).cmd # c /\ At(p).by # r
    BY <1>2 DEF Sound, OneStatement
  <1>9. HasClaim'
    BY <1>2, <1>6 DEF Sound, HasClaim
  <1>10. InOrder'
    BY <1>6 DEF Sound, InOrder, Predecessors
  <1>11. OneStatement'
    <2> HIDE DEF s
    <2>0. new[1] = t
      BY <1>new
    <2>1. \A p \in Places' :
              /\ TableOf[At(p)'.cmd] = p[1] /\ status'[At(p)'.cmd] = "in_progress"
              /\ At(p)'.by \in Runners => entry'[At(p)'.by].cmd = At(p)'.cmd
      BY <1>3, <1>4, <1>6, <1>7, <2>0 DEF Sound, OneStatement
    <2>2. \A p, q \in Places' : At(p)'.cmd = At(q)'.cmd => p = q
      BY <1>4, <1>7, <1>8 DEF Sound, OneStatement
    <2>3. \A p \in Places', x \in Runners :
              phase'[x] # "idle" /\ entry'[x].cmd = At(p)'.cmd =>
                  At(p)'.by = x /\ phase'[x] \in {"healing", "building"} /\ result'[x] = "none"
      <3>1. ASSUME NEW x \in Runners, phase'[x] # "idle", entry'[x].cmd = c
            PROVE  x = r
        BY <1>2, <1>3, <1>6, <3>1 DEF Sound, HasClaim
      <3>2. ASSUME NEW p \in Places, NEW x \in Runners, phase'[x] # "idle", entry'[x].cmd = At(p).cmd
            PROVE  At(p).by = x /\ phase'[x] \in {"healing", "building"} /\ result'[x] = "none"
        BY <1>6, <1>8, <3>2 DEF Sound, OneStatement
      <3> QED
        BY <1>4, <1>6, <1>7, <3>1, <3>2
    <2> QED
      BY <2>1, <2>2, <2>3 DEF OneStatement
  <1> QED
    BY <1>9, <1>10, <1>11 DEF Sound

(* A runner that goes leaves its row claimed and its statement running. *)
LEMMA AbandonSound ==
    ASSUME TypeOK, Working, Sound, NEW r \in Runners, Abandon(r)
    PROVE  Sound'
  <1> USE BamAssumption
  <1>0. /\ phase \in [Runners -> Phases] /\ entry \in [Runners -> Entries]
        /\ result \in [Runners -> {"none", "ok", "error"}]
    BY DEF TypeOK, Entries
  <1>1. Orphan(r) /\ Leave(r) /\ UNCHANGED <<status, claimant, index>>
    BY DEF Abandon, rowVars
  <1>2. /\ phase'[r] = "idle"
        /\ \A x \in Runners \ {r} :
              phase'[x] = phase[x] /\ entry'[x] = entry[x] /\ result'[x] = result[x]
    BY <1>0, <1>1 DEF Leave
  <1>3. Places' = Places
    BY <1>1, OrphanType DEF Places
  <1>4. ASSUME NEW p \in Places
        PROVE  At(p)'.cmd = At(p).cmd /\ At(p)'.by = IF At(p).by = r THEN NoRunner ELSE At(p).by
    <2>1. /\ At(p) \in Statements /\ p[1] \in Tables /\ p[2] \in Nat /\ p[2] \in DOMAIN queue[p[1]]
      BY StatementType
    <2>2. At(p)' = IF At(p).by = r THEN [At(p) EXCEPT !.by = NoRunner] ELSE At(p)
      BY <1>1, <2>1, OrphanType DEF At
    <2> QED
      BY <2>1, <2>2 DEF Statements
  <1>5. HasClaim'
    BY <1>1, <1>2 DEF Sound, HasClaim
  <1>6. InOrder'
    BY <1>1, <1>2 DEF Sound, InOrder, Predecessors
  <1>7. OneStatement'
    <2>1. \A p \in Places :
              /\ TableOf[At(p)'.cmd] = p[1] /\ status'[At(p)'.cmd] = "in_progress"
              /\ At(p)'.by \in Runners => entry'[At(p)'.by].cmd = At(p)'.cmd
      BY <1>1, <1>2, <1>4 DEF Sound, OneStatement
    <2>2. \A p, q \in Places : At(p)'.cmd = At(q)'.cmd => p = q
      BY <1>4 DEF Sound, OneStatement
    <2>3. \A p \in Places, x \in Runners :
              phase'[x] # "idle" /\ entry'[x].cmd = At(p)'.cmd =>
                  At(p)'.by = x /\ phase'[x] \in {"healing", "building"} /\ result'[x] = "none"
      BY <1>2, <1>4 DEF Sound, OneStatement
    <2> QED
      BY <1>3, <2>1, <2>2, <2>3 DEF OneStatement
  <1> QED
    BY <1>5, <1>6, <1>7 DEF Sound

(* A statement that has begun changes the index of a command in progress, which  *)
(* nobody relies on.                                                             *)
LEMMA IndexSound ==
    ASSUME TypeOK, Working, Sound, NEW t \in Tables, queue[t] # <<>>,
           UNCHANGED <<status, claimant, phase, entry>>,
           \A d \in Commands \ {queue[t][1].cmd} : index'[d] = index[d]
    PROVE  HasClaim' /\ InOrder'
  <1> USE BamAssumption
  <1>1. PICK p \in Places : p = <<t, 1>>
    BY FirstType
  <1>2. At(p) = queue[t][1] /\ At(p).cmd \in Commands /\ status[At(p).cmd] = "in_progress"
    BY <1>1, StatementType DEF At, Statements, Sound, OneStatement
  <1>3. \A r \in Runners : phase[r] = "done" => entry[r].cmd # At(p).cmd
    BY DEF Sound, OneStatement
  <1>4. HasClaim'
    BY DEF Sound, HasClaim
  <1>5. InOrder'
    <2>1. ASSUME NEW d \in Commands, status[d] # "pending" \/ (d \notin Builds /\ index'[d] # "valid")
          PROVE  \A q \in Predecessors(d) : status[q] = "completed"
      BY <1>2, <2>1 DEF Sound, InOrder
    <2>2. \A d \in Builds : status[d] = "completed" => index'[d] = "valid"
      BY <1>2 DEF Sound, InOrder
    <2>3. \A r \in Runners : phase[r] = "done" /\ entry[r].cmd \in Builds => index'[entry[r].cmd] = "valid"
      BY <1>2, <1>3 DEF Sound, InOrder
    <2> QED
      BY <2>1, <2>2, <2>3 DEF InOrder, Predecessors
  <1> QED
    BY <1>4, <1>5

(* A statement that has ended leaves the others as they are. *)
LEMMA ReturnSound ==
    ASSUME TypeOK, Working, Sound, NEW t \in Tables, queue[t] # <<>>,
           NEW outcome \in {"ok", "error"}, Return(t, outcome),
           UNCHANGED <<status, phase, entry>>
    PROVE  OneStatement'
  <1> USE BamAssumption
  <1> DEFINE Old(p) == IF p[1] = t THEN <<t, p[2] + 1>> ELSE p
  <1>1. PICK first \in Places : first = <<t, 1>>
    BY FirstType
  <1>2. At(first) = queue[t][1] /\ At(first) = Head(queue[t])
    BY <1>1, FirstType DEF At
  <1>3. /\ queue' = [queue EXCEPT ![t] = Tail(queue[t])]
        /\ result' = [r \in Runners |-> IF r = At(first).by THEN outcome ELSE result[r]]
    BY <1>2 DEF Return
  <1>4. ASSUME NEW p \in Places'
        PROVE  Old(p) \in Places /\ At(p)' = At(Old(p)) /\ Old(p)[1] = p[1] /\ Old(p) # first
    <2>1. queue \in [Tables -> Seq(Statements)]
      BY DEF TypeOK, Statements
    <2>2. p \in Tables \X Nat /\ p[2] \in DOMAIN queue'[p[1]] /\ p = <<p[1], p[2]>>
      BY DEF Places
    <2>3. CASE p[1] = t
      <3>1. queue[t] \in Seq(Statements) /\ queue'[t] = Tail(queue[t])
        BY <1>3, <2>1
      <3>2. /\ p[2] \in 1..(Len(queue[t]) - 1) /\ Len(queue[t]) \in Nat
            /\ queue'[t][p[2]] = queue[t][p[2] + 1] /\ DOMAIN queue[t] = 1..Len(queue[t])
        BY <2>2, <2>3, <3>1
      <3>3. PICK i \in Nat : i = p[2] + 1 /\ i \in DOMAIN queue[t] /\ i # 1
        BY <3>2
      <3>4. Old(p) = <<t, i>>
        BY <2>3, <3>3
      <3> HIDE DEF Old
      <3>5. Old(p) \in Places /\ Old(p)[1] = p[1] /\ Old(p)[2] = i
        BY <2>3, <3>3, <3>4 DEF Places
      <3>6. At(p)' = At(Old(p))
        BY <2>3, <3>2, <3>3, <3>5 DEF At
      <3>7. Old(p) # first
        BY <1>1, <3>3, <3>4
      <3> QED
        BY <3>5, <3>6, <3>7
    <2>4. CASE p[1] # t
      <3>1. queue'[p[1]] = queue[p[1]]
        BY <1>3, <2>1, <2>2, <2>4
      <3> QED
        BY <1>1, <2>2, <2>4, <3>1 DEF Places, At
    <2> QED
      BY <2>3, <2>4
  <1>5. \A p, q \in Places' : Old(p) = Old(q) => p = q
    <2> TAKE p, q \in Places'
    <2>1. /\ p = <<p[1], p[2]>> /\ q = <<q[1], q[2]>> /\ p[2] \in Nat /\ q[2] \in Nat
      BY DEF Places
    <2> QED
      BY <1>4, <2>1
  <1> HIDE DEF Old
  <1>6. \A p \in Places' :
            /\ TableOf[At(p)'.cmd] = p[1] /\ status'[At(p)'.cmd] = "in_progress"
            /\ At(p)'.by \in Runners => entry'[At(p)'.by].cmd = At(p)'.cmd
    BY <1>4 DEF Sound, OneStatement
  <1>7. \A p, q \in Places' : At(p)'.cmd = At(q)'.cmd => p = q
    BY <1>4, <1>5 DEF Sound, OneStatement
  <1>8. ASSUME NEW p \in Places', NEW x \in Runners, phase[x] # "idle", entry[x].cmd = At(p)'.cmd
        PROVE  At(p)'.by = x /\ phase[x] \in {"healing", "building"} /\ result'[x] = "none"
    <2>1. PICK q \in Places : q = Old(p) /\ At(p)' = At(q) /\ q # first
      BY <1>4
    <2>2. At(q).by = x /\ phase[x] \in {"healing", "building"} /\ result[x] = "none"
      BY <1>8, <2>1 DEF Sound, OneStatement
    <2>3. At(first).by # x
      BY <1>8, <2>1 DEF Sound, OneStatement
    <2> QED
      BY <1>3, <2>1, <2>2, <2>3
  <1> QED
    BY <1>6, <1>7, <1>8 DEF OneStatement

(* A statement that begins keeps its command and its client. *)
LEMMA BeginSound ==
    ASSUME TypeOK, Working, Sound, NEW t \in Tables, Begin(t)
    PROVE  Sound'
  <1>1. queue[t] # <<>> /\ UNCHANGED <<rowVars, phase, entry, faults, outrun>>
    BY DEF Begin
  <1>2. /\ Head(queue[t]) \in Statements /\ Head(queue[t]) = queue[t][1] /\ 1 \in DOMAIN queue[t]
    BY <1>1, FirstType
  <1>3. CASE Return(t, "ok") /\ UNCHANGED index
    <2>1. HasClaim' /\ InOrder'
      BY <1>1, <1>3, IndexSound DEF rowVars
    <2>2. OneStatement'
      BY <1>1, <1>3, ReturnSound DEF rowVars
    <2> QED
      BY <2>1, <2>2 DEF Sound
  <1>4. CASE /\ queue' = [queue EXCEPT ![t][1].began = TRUE]
             /\ index' = IF Head(queue[t]).op = "run" /\ Head(queue[t]).cmd \in Builds
                         THEN [index EXCEPT ![Head(queue[t]).cmd] = "invalid"] ELSE index
             /\ UNCHANGED result
    <2>1. \A d \in Commands \ {queue[t][1].cmd} : index'[d] = index[d]
      BY <1>2, <1>4 DEF TypeOK
    <2>2. HasClaim' /\ InOrder'
      BY <1>1, <2>1, IndexSound DEF rowVars
    <2>3. /\ queue \in [Tables -> Seq(Statements)]
          /\ queue' = [queue EXCEPT ![t] = [queue[t] EXCEPT ![1] = [queue[t][1] EXCEPT !.began = TRUE]]]
      BY <1>4 DEF TypeOK, Statements
    <2>4. /\ \A u \in Tables : DOMAIN queue'[u] = DOMAIN queue[u]
          /\ \A u \in Tables : u # t => queue'[u] = queue[u]
          /\ \A i \in DOMAIN queue[t] : i # 1 => queue'[t][i] = queue[t][i]
          /\ queue'[t][1] = [queue[t][1] EXCEPT !.began = TRUE]
      <3>1. queue'[t] = [queue[t] EXCEPT ![1] = [queue[t][1] EXCEPT !.began = TRUE]]
        BY <2>3
      <3>2. \A u \in Tables : u # t => queue'[u] = queue[u]
        BY <2>3
      <3>3. queue[t] \in Seq(Statements)
        BY <2>3
      <3> QED
        BY <1>2, <3>1, <3>2, <3>3
    <2>5. [queue[t][1] EXCEPT !.began = TRUE].cmd = queue[t][1].cmd
          /\ [queue[t][1] EXCEPT !.began = TRUE].by = queue[t][1].by
      BY <1>2 DEF Statements
    <2>6. Places' = Places
      BY <2>4 DEF Places
    <2>7. \A p \in Places : At(p)'.cmd = At(p).cmd /\ At(p)'.by = At(p).by
      BY <2>4, <2>5 DEF Places, At
    <2>8. OneStatement'
      <3>1. \A p \in Places :
                /\ TableOf[At(p)'.cmd] = p[1] /\ status'[At(p)'.cmd] = "in_progress"
                /\ At(p)'.by \in Runners => entry'[At(p)'.by].cmd = At(p)'.cmd
        BY <1>1, <2>7 DEF Sound, OneStatement, rowVars
      <3>2. \A p, q \in Places : At(p)'.cmd = At(q)'.cmd => p = q
        BY <2>7 DEF Sound, OneStatement
      <3>3. \A p \in Places, x \in Runners :
                phase'[x] # "idle" /\ entry'[x].cmd = At(p)'.cmd =>
                    At(p)'.by = x /\ phase'[x] \in {"healing", "building"} /\ result'[x] = "none"
        BY <1>1, <1>4, <2>7 DEF Sound, OneStatement
      <3> QED
        BY <2>6, <3>1, <3>2, <3>3 DEF OneStatement
    <2> QED
      BY <2>2, <2>8 DEF Sound
  <1> QED
    BY <1>3, <1>4 DEF Begin

(* What is sound stays sound until a live runner is outrun. *)
LEMMA SoundStep == TypeOK /\ Working /\ (outrun \/ Sound) /\ [Next]_vars => (outrun \/ Sound)'
  <1> SUFFICES ASSUME TypeOK, Working, outrun \/ Sound, [Next]_vars, ~outrun' PROVE Sound'
    OBVIOUS
  <1>1. ~outrun
    <2>1. ASSUME NEW r \in Runners, Claim(r) PROVE ~outrun
      <3>1. PICK c \in Commands : outrun' = (outrun \/ Outruns(c))
        BY <2>1 DEF Claim
      <3> QED
        BY <3>1
    <2>2. ASSUME NEW r \in Runners, ConnectionLost(r) PROVE FALSE
      BY <2>2 DEF ConnectionLost
    <2>3. ASSUME NEW r \in Runners, HealDrop(r) \/ RunCommand(r) PROVE ~outrun
      BY <2>3 DEF HealDrop, RunCommand, Execute
    <2>4. ASSUME NEW r \in Runners,
                 \/ Probe(r) \/ StatementReturns(r) \/ Verify(r) \/ MarkCompleted(r) \/ MarkFailed(r)
                 \/ ReleaseClaim(r) \/ NotStarted(r) \/ MarkFails(r) \/ Abandon(r)
          PROVE  ~outrun
      BY <2>4 DEF Probe, StatementReturns, Verify, MarkCompleted, MarkFailed, ReleaseClaim, NotStarted,
                  MarkFails, Abandon
    <2>5. ASSUME NEW c \in Commands, GracePasses(c) PROVE ~outrun
      BY <2>5 DEF GracePasses
    <2>6. ASSUME NEW t \in Tables, ServerStep(t) PROVE ~outrun
      BY <2>6 DEF ServerStep, Begin, Succeed, Break
    <2>7. CASE UNCHANGED vars
      BY <2>7 DEF vars
    <2> QED
      BY <2>1, <2>2, <2>3, <2>4, <2>5, <2>6, <2>7 DEF Next, RunnerStep
  <1>2. Sound
    BY <1>1
  <1>3. ASSUME NEW r \in Runners, Claim(r) PROVE Sound'
    BY <1>2, <1>3, ClaimSound
  <1>4. ASSUME NEW r \in Runners, HealDrop(r) \/ RunCommand(r) PROVE Sound'
    BY <1>2, <1>4, ExecuteSound
  <1>5. ASSUME NEW r \in Runners,
               \/ ReleaseClaim(r) \/ Probe(r) \/ NotStarted(r) \/ StatementReturns(r) \/ Verify(r)
               \/ MarkCompleted(r) \/ MarkFailed(r) \/ MarkFails(r)
        PROVE  Sound'
    BY <1>2, <1>5, MovesAre, MovesSound
  <1>6. ASSUME NEW r \in Runners, Abandon(r) PROVE Sound'
    BY <1>2, <1>6, AbandonSound
  <1>7. ASSUME NEW r \in Runners, ConnectionLost(r) PROVE FALSE
    BY <1>7 DEF ConnectionLost
  <1>8. ASSUME UNCHANGED <<status, claimant, index, queue, phase, entry, result>> PROVE Sound'
    <2>1. HasClaim'
      BY <1>2, <1>8 DEF Sound, HasClaim
    <2>2. Places' = Places /\ \A p \in Places : At(p)' = At(p)
      BY <1>8 DEF Places, At
    <2>3. OneStatement'
      BY <1>2, <1>8, <2>2 DEF Sound, OneStatement
    <2>4. InOrder'
      BY <1>2, <1>8 DEF Sound, InOrder, Predecessors
    <2> QED
      BY <2>1, <2>3, <2>4 DEF Sound
  <1>9. ASSUME NEW c \in Commands, GracePasses(c) PROVE Sound'
    BY <1>8, <1>9 DEF GracePasses, runVars
  <1>10. ASSUME NEW t \in Tables, Begin(t) PROVE Sound'
    BY <1>2, <1>10, BeginSound
  <1>11. ASSUME NEW t \in Tables, Succeed(t) \/ Break(t) PROVE Sound'
    <2>1. queue[t] # <<>> /\ UNCHANGED <<status, claimant, phase, entry>>
      BY <1>11 DEF Succeed, Break, rowVars
    <2>2. PICK outcome \in {"ok", "error"} : Return(t, outcome)
      BY <1>11 DEF Succeed, Break
    <2>3. \A d \in Commands \ {queue[t][1].cmd} : index'[d] = index[d]
      <3>1. Head(queue[t]) = queue[t][1]
        BY <2>1, FirstType
      <3> QED
        BY <1>11, <3>1 DEF Succeed, Break, TypeOK
    <2>4. HasClaim' /\ InOrder'
      BY <1>2, <2>1, <2>3, IndexSound
    <2>5. OneStatement'
      BY <1>2, <2>1, <2>2, ReturnSound
    <2> QED
      BY <2>4, <2>5 DEF Sound
  <1>12. CASE UNCHANGED vars
    BY <1>8, <1>12 DEF vars, rowVars, runVars
  <1> QED
    BY <1>3, <1>4, <1>5, <1>6, <1>7, <1>9, <1>10, <1>11, <1>12 DEF Next, RunnerStep, ServerStep

LEMMA InitInv == Init => IInv
  <1> USE BamAssumption
  <1> SUFFICES ASSUME Init PROVE IInv
    OBVIOUS
  <1>1. /\ NoEntry \in Entries /\ NoEntry.cmd = NoCommand
        /\ "idle" \in Phases /\ "pending" \in Statuses
    BY DEF NoEntry, Entries, Phases, Statuses
  <1>2. queue \in [Tables -> Seq(Statements)] /\ Places = {}
    BY DEF Init, Places
  <1>3. TypeOK
    <2>1. phase \in [Runners -> Phases] /\ entry \in [Runners -> Entries]
      BY <1>1 DEF Init
    <2>2. /\ status \in [Commands -> Statuses] /\ claimant \in [Commands -> Runners \cup {NoRunner}]
          /\ index \in [Commands -> {"absent", "invalid", "valid"}]
          /\ result \in [Runners -> {"none", "ok", "error"}]
      BY <1>1 DEF Init
    <2>3. fresh \in [Commands -> BOOLEAN] /\ outrun \in BOOLEAN
      BY Zenon DEF Init
    <2>4. faults \in 0..MaxFaults
      BY DEF Init
    <2>5. \A r \in Runners : phase[r] = "idle" <=> entry[r] = NoEntry
      BY DEF Init
    <2> QED
      BY <1>2, <2>1, <2>2, <2>3, <2>4, <2>5 DEF TypeOK, Entries, Statements
  <1>4. Working /\ HasClaim
    BY DEF Init, Working, HasClaim
  <1>5. OneStatement
    BY <1>2 DEF OneStatement
  <1>6. InOrder
    BY DEF Init, InOrder
  <1> QED
    BY <1>3, <1>4, <1>5, <1>6 DEF IInv, Sound

(* The rows, the runners and the statements on the server agree at every moment, until *)
(* a live runner is outrun: bam.ts #execute and the claim of getNextBamCommand.        *)
THEOREM BamInvariant == Spec => []IInv
  <1>1. IInv /\ [Next]_vars => IInv'
    BY TypeStep, SoundStep DEF IInv
  <1> QED
    BY <1>1, InitInv, PTL DEF Spec

(* A completed build is usable, and an old index goes only after its successor is: the *)
(* afterPredecessors order of getNextBamCommand and the probes of bam.ts.              *)
THEOREM IndexesTheorem == Spec => []IndexesSound
  <1>1. IInv => IndexesSound
    <2> SUFFICES ASSUME IInv, ~outrun PROVE IndexesSound
      BY DEF IndexesSound, CompletedIsBuilt, RetiredAfterBuilt
    <2>1. InOrder
      BY DEF IInv, Sound
    <2>2. CompletedIsBuilt
      BY <2>1 DEF CompletedIsBuilt, InOrder
    <2>3. RetiredAfterBuilt
      BY <2>1, BamAssumption DEF RetiredAfterBuilt, InOrder
    <2> QED
      BY <2>2, <2>3 DEF IndexesSound
  <1> QED
    BY <1>1, BamInvariant, PTL

(* A claim never meets a running statement of its command, and a stop gives back no     *)
(* claim but its own: the liveBuild condition of getNextBamCommand and the fence of     *)
(* releaseBamCommand.                                                                   *)
THEOREM ClaimsTheorem == Spec => ClaimsRespected
  <1> USE BamAssumption
  <1> DEFINE Kept == outrun \/ \A r \in Runners, c \in Commands : ~ReclaimsRunning(r, c)
             Spared == \A c \in Commands :
                 AtWork(c) /\ status[c] = "in_progress" /\ status'[c] = "pending"
                     => entry'[claimant[c]] = NoEntry
  <1>1. IInv /\ [Next]_vars => Kept \/ UNCHANGED vars
    <2> SUFFICES ASSUME IInv, Next, ~outrun, NEW r \in Runners, NEW c \in Commands, ReclaimsRunning(r, c)
                 PROVE  FALSE
      OBVIOUS
    <2>1. /\ entry[r].cmd # c /\ entry'[r].cmd = c /\ entry \in [Runners -> Entries]
      BY DEF ReclaimsRunning, IInv, TypeOK, Entries
    <2>2. PICK i \in DOMAIN queue[TableOf[c]] : queue[TableOf[c]][i].cmd = c
      BY DEF ReclaimsRunning
    <2>3. queue[TableOf[c]] \in Seq(Statements) /\ TableOf[c] \in Tables
      BY DEF IInv, TypeOK, Statements, Tables
    <2>4. <<TableOf[c], i>> \in Places /\ At(<<TableOf[c], i>>).cmd = c
      <3>1. i \in Nat
        BY <2>3
      <3> QED
        BY <2>2, <2>3, <3>1 DEF Places, At
    <2>5. status[c] = "in_progress"
      BY <2>4 DEF IInv, Sound, OneStatement
    <2>6. ASSUME NEW x \in Runners, Claim(x) PROVE FALSE
      <3>1. PICK d \in Commands :
                /\ Claimable(d)
                /\ entry' = [entry EXCEPT ![x] = [cmd |-> d, prior |-> status[d],
                                                  priorClaimant |-> claimant[d]]]
        BY <2>6 DEF Claim
      <3>2. d = c
        BY <2>1, <3>1
      <3> QED
        BY <2>2, <2>3, <2>5, <3>1, <3>2 DEF Claimable, Stale, LiveBuild
    <2>7. ASSUME NEW x \in Runners, Leave(x) PROVE FALSE
      BY <2>1, <2>7 DEF Leave, NoEntry
    <2>8. ASSUME UNCHANGED entry PROVE FALSE
      BY <2>1, <2>8
    <2>9. ASSUME NEW x \in Runners,
                 \/ Probe(x) \/ HealDrop(x) \/ RunCommand(x) \/ StatementReturns(x) \/ Verify(x)
                 \/ NotStarted(x) \/ ConnectionLost(x)
          PROVE  FALSE
      BY <2>8, <2>9 DEF Probe, HealDrop, RunCommand, Execute, StatementReturns, Verify, NotStarted,
                        ConnectionLost, Goto
    <2>10. ASSUME NEW x \in Runners,
                  \/ MarkCompleted(x) \/ MarkFailed(x) \/ ReleaseClaim(x) \/ Abandon(x)
           PROVE  FALSE
      BY <2>7, <2>10 DEF MarkCompleted, MarkFailed, ReleaseClaim, Abandon
    <2>11. ASSUME NEW x \in Runners, MarkFails(x) PROVE FALSE
      BY <2>7, <2>8, <2>11 DEF MarkFails, Goto
    <2>12. ASSUME NEW d \in Commands, GracePasses(d) PROVE FALSE
      BY <2>8, <2>12 DEF GracePasses, runVars
    <2>13. ASSUME NEW t \in Tables, ServerStep(t) PROVE FALSE
      BY <2>8, <2>13 DEF ServerStep, Begin, Succeed, Break
    <2> QED
      BY <2>6, <2>9, <2>10, <2>11, <2>12, <2>13 DEF Next, RunnerStep
  <1>2. IInv /\ [Next]_vars => Spared \/ UNCHANGED vars
    <2> SUFFICES ASSUME IInv, Next, NEW c \in Commands,
                        AtWork(c), status[c] = "in_progress", status'[c] = "pending"
                 PROVE  entry'[claimant[c]] = NoEntry
      OBVIOUS
    <2>1. status \in [Commands -> Statuses] /\ entry \in [Runners -> Entries]
      BY DEF IInv, TypeOK, Entries
    <2>2. ASSUME status' = status PROVE FALSE
      BY <2>2
    <2>3. ASSUME NEW d, NEW v, status' = [status EXCEPT ![d] = v], v # "pending" PROVE FALSE
      BY <2>1, <2>3
    <2>4. ASSUME NEW r \in Runners, ReleaseClaim(r) PROVE entry'[claimant[c]] = NoEntry
      <3>1. CASE status[entry[r].cmd] = "in_progress" /\ claimant[entry[r].cmd] = r
        <4>1. status' = [status EXCEPT ![entry[r].cmd] = entry[r].prior] /\ Leave(r)
          BY <2>4, <3>1 DEF ReleaseClaim
        <4>2. c = entry[r].cmd
          BY <2>1, <4>1
        <4> QED
          BY <2>1, <3>1, <4>1, <4>2 DEF Leave
      <3>2. CASE ~(status[entry[r].cmd] = "in_progress" /\ claimant[entry[r].cmd] = r)
        BY <2>2, <2>4, <3>2 DEF ReleaseClaim, rowVars
      <3> QED
        BY <3>1, <3>2
    <2>5. ASSUME NEW r \in Runners, Claim(r) PROVE FALSE
      <3>1. PICK d \in Commands : status' = [status EXCEPT ![d] = "in_progress"]
        BY <2>5 DEF Claim
      <3> QED
        BY <2>3, <3>1
    <2>6. ASSUME NEW r \in Runners, MarkCompleted(r) PROVE FALSE
      BY <2>3, <2>6 DEF MarkCompleted
    <2>7. ASSUME NEW r \in Runners, MarkFailed(r) PROVE FALSE
      BY <2>3, <2>7 DEF MarkFailed
    <2>8. ASSUME NEW r \in Runners,
                 \/ Probe(r) \/ HealDrop(r) \/ RunCommand(r) \/ StatementReturns(r) \/ Verify(r)
                 \/ NotStarted(r) \/ MarkFails(r) \/ Abandon(r) \/ ConnectionLost(r)
          PROVE  FALSE
      BY <2>2, <2>8 DEF Probe, HealDrop, RunCommand, Execute, StatementReturns, Verify, NotStarted,
                        MarkFails, Abandon, ConnectionLost, rowVars
    <2>9. ASSUME NEW d \in Commands, GracePasses(d) PROVE FALSE
      BY <2>2, <2>9 DEF GracePasses
    <2>10. ASSUME NEW t \in Tables, ServerStep(t) PROVE FALSE
      BY <2>2, <2>10 DEF ServerStep, Begin, Succeed, Break, rowVars
    <2> QED
      BY <2>4, <2>5, <2>6, <2>7, <2>8, <2>9, <2>10 DEF Next, RunnerStep
  <1>3. Spec => KeptBuildNotReclaimed
    <2>1. IInv /\ [Next]_vars => [Kept]_vars
      BY <1>1
    <2> QED
      BY <2>1, BamInvariant, PTL DEF Spec, KeptBuildNotReclaimed, Kept
  <1>4. Spec => ReleaseSparesOthers
    <2>1. IInv /\ [Next]_vars => [Spared]_vars
      BY <1>2
    <2> QED
      BY <2>1, BamInvariant, PTL DEF Spec, ReleaseSparesOthers, Spared
  <1> QED
    BY <1>3, <1>4 DEF ClaimsRespected

===============================================================================
