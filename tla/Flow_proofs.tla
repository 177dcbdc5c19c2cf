------------------------------- MODULE Flow_proofs -------------------------------
(* Proofs of the safety properties of Flow, for every graph of jobs, any number   *)
(* of Navigators and every batch size.                                            *)
EXTENDS Flow, FiniteSetTheorems, TLAPS

\* The graph's rows.
Edges == {d \in Jobs \X Jobs : d[2] \in ParentsOf[d[1]]}

\* An operation on one job: its state, and some of its columns.
LEMMA JobFrame ==
    ASSUME TypeOK, NEW j \in Jobs, JobStep(j)
    PROVE  /\ ~Locked(j)
           /\ \E s \in States : state' = [state EXCEPT ![j] = s]
           /\ \A k \in Jobs \ {j} : UNCHANGED <<state[k], blocked[k], pending[k], version[k], done[k]>>
           /\ UNCHANGED <<blocking, deps, nav>>
           /\ version'[j] \in {version[j], version[j] + 1}
           /\ version'[j] > version[j] => state'[j] # "absent"
           /\ done'[j] \in BOOLEAN /\ (done[j] => done'[j])
           /\ state'[j] = "completed" => done'[j]
           /\ state'[j] # "absent" => state[j] # "absent"
           /\ ~done'[j] => blocked'[j] = blocked[j] /\ pending'[j] = pending[j]
           /\ blocked'[j] \in BOOLEAN /\ pending'[j] \in Nat
           /\ state'[j] = "active" => state[j] = "queued" /\ ~blocked[j]
<1> USE DEF TypeOK, SetState, States
<1>1. CASE Fetch(j) \/ Cancel(j) \/ Resume(j) \/ Retry(j) \/ RestoreJob(j) \/ DeleteJob(j) \/ Sweep(j)
      BY <1>1 DEF Fetch, Cancel, Resume, Retry, RestoreJob, DeleteJob, Sweep, Keep
<1>2. CASE Complete(j)
      BY <1>2 DEF Complete
<1>3. CASE CompleteQueued(j)
      BY <1>3 DEF CompleteQueued
<1>4. CASE Fail(j) \/ FailQueued(j)
      BY <1>4 DEF Fail, FailQueued, Reinsert
<1> QED BY <1>1, <1>2, <1>3, <1>4 DEF JobStep

\* TypeOK follows for such a step.
LEMMA JobTypeOK ==
    ASSUME TypeOK, NEW j \in Jobs, JobStep(j)
    PROVE  TypeOK'
<1>1. CASE Fetch(j) \/ Cancel(j) \/ Resume(j) \/ Retry(j) \/ RestoreJob(j) \/ DeleteJob(j) \/ Sweep(j)
      BY <1>1 DEF TypeOK, States, SetState, Fetch, Cancel, Resume, Retry, RestoreJob, DeleteJob, Sweep, Keep
<1>2. CASE Complete(j) \/ CompleteQueued(j)
      <2>1. done' \in [Jobs -> BOOLEAN] /\ blocked' \in [Jobs -> BOOLEAN]
            BY <1>2 DEF TypeOK, Complete, CompleteQueued
      <2>2. state' \in [Jobs -> States] /\ pending' \in [Jobs -> Nat]
            BY <1>2 DEF TypeOK, States, SetState, Complete, CompleteQueued
      <2> QED BY <1>2, <2>1, <2>2 DEF TypeOK, Complete, CompleteQueued
<1>3. CASE Fail(j) \/ FailQueued(j)
      BY <1>3 DEF TypeOK, States, SetState, Fail, FailQueued, Reinsert
<1> QED BY <1>1, <1>2, <1>3 DEF JobStep

\* A resolve's fields.
LEMMA ResolveTypes ==
    /\ Idle \in Resolves
    /\ TypeOK => \A n \in Navigators : nav[n].parents \subseteq Jobs /\ nav[n].pairs \subseteq Jobs \X Jobs
BY DEF Idle, Resolves, TypeOK

\* What a batch takes off a child is a number, and what is left is one too.
LEMMA DecrementType ==
    ASSUME TypeOK, NEW n \in Navigators, NEW c \in Jobs
    PROVE  /\ IsFiniteSet({d \in nav[n].pairs : d[1] = c})
           /\ Decrement(n, c) \in Nat
           /\ Lowered(n, c) \in Nat
<1>1. IsFiniteSet(Jobs \X Jobs)
      BY FlowAssumption, FS_Product
<1>2. {d \in nav[n].pairs : d[1] = c} \in SUBSET (Jobs \X Jobs)
      BY ResolveTypes
<1>3. IsFiniteSet({d \in nav[n].pairs : d[1] = c})
      BY <1>1, <1>2, FS_Subset
<1>4. Decrement(n, c) \in Nat
      BY <1>3, FS_CardinalityType DEF Decrement
<1>5. pending[c] \in Nat
      BY DEF TypeOK
<1> QED BY <1>3, <1>4, <1>5 DEF Lowered

\* Every reachable state of a flow is well typed.
THEOREM TypeCorrect == Spec => []TypeOK
<1>1. Init => TypeOK
      BY ResolveTypes DEF Init, TypeOK, States
<1>2. ASSUME TypeOK, [Next]_vars
      PROVE  TypeOK'
      <2>1. CASE SendFlow
            <3>1. \A j \in Jobs : ParentsOf[j] \in SUBSET Jobs
                  BY FlowAssumption
            <3>2. \A j \in Jobs : Cardinality(ParentsOf[j]) \in Nat
                  BY <3>1, FlowAssumption, FS_Subset, FS_CardinalityType
            <3> QED BY <1>2, <2>1, <3>2 DEF SendFlow, TypeOK, States
      <2>2. CASE \E j \in Jobs : JobStep(j)
            BY <1>2, <2>2, JobTypeOK
      <2>3. CASE CleanupDependencies
            BY <1>2, <2>3 DEF CleanupDependencies, rowVars, TypeOK
      <2>4. ASSUME NEW n \in Navigators, ResolveStart(n)
            PROVE  TypeOK'
            <3>1. PICK P \in SUBSET ResolvableParents :
                    nav' = [nav EXCEPT ![n] = [phase |-> "resolving", parents |-> P, saw |-> version,
                                               pairs |-> {d \in deps : d[2] \in P}]]
                  BY <2>4 DEF ResolveStart
            <3>2. P \subseteq Jobs
                  BY DEF ResolvableParents
            <3>3. [phase |-> "resolving", parents |-> P, saw |-> version, pairs |-> {d \in deps : d[2] \in P}]
                        \in Resolves
                  BY <1>2, <3>2 DEF TypeOK, Resolves
            <3> QED BY <1>2, <2>4, <3>1, <3>3 DEF ResolveStart, rowVars, TypeOK
      <2>5. ASSUME NEW n \in Navigators, ResolveEnd(n)
            PROVE  TypeOK'
            <3>1. \A c \in Jobs : Lowered(n, c) \in Nat
                  BY <1>2, DecrementType
            <3>2. pending' \in [Jobs -> Nat]
                  BY <1>2, <2>5, <3>1 DEF ResolveEnd, TypeOK
            <3>3. blocked' \in [Jobs -> BOOLEAN] /\ blocking' \in [Jobs -> BOOLEAN]
                  <4>1. \A c \in Jobs : (IF Reaches(n, c) THEN Lowered(n, c) > 0 ELSE blocked[c]) \in BOOLEAN
                        <5>1. \A c \in Jobs : blocked[c] \in BOOLEAN
                              BY <1>2 DEF TypeOK
                        <5>2. \A c \in Jobs : (Lowered(n, c) > 0) \in BOOLEAN
                              BY <3>1
                        <5> QED BY <5>1, <5>2, Zenon
                  <4> QED BY <2>5, <4>1, Zenon DEF ResolveEnd
            <3>4. nav' \in [Navigators -> Resolves]
                  BY <1>2, <2>5, ResolveTypes DEF ResolveEnd, TypeOK
            <3> QED BY <1>2, <2>5, <3>2, <3>3, <3>4 DEF ResolveEnd, TypeOK
      <2>6. ASSUME NEW n \in Navigators, ResolveAborts(n)
            PROVE  TypeOK'
            BY <1>2, <2>6, ResolveTypes DEF ResolveAborts, rowVars, TypeOK
      <2>7. CASE UNCHANGED vars
            BY <1>2, <2>7 DEF vars, TypeOK
      <2> QED BY <1>2, <2>1, <2>2, <2>3, <2>4, <2>5, <2>6, <2>7 DEF Next, NavigatorStep
<1> QED BY <1>1, <1>2, PTL DEF Spec

-----------------------------------------------------------------------------
(* What a running resolve may rely on. *)

\* The parents a resolve has locked stay completed and unresolved until it ends, no
\* other resolve has them, and it counts only dependencies on them.
LocksSound ==
    /\ deps \subseteq Edges
    /\ \A n \in Navigators :
        /\ \A p \in nav[n].parents : blocking[p] /\ state[p] = "completed"
        /\ nav[n].pairs \subseteq {d \in Edges : d[2] \in nav[n].parents}
    /\ \A m, n \in Navigators : m # n => nav[m].parents \cap nav[n].parents = {}

\* What the columns of one row say of each other.
RowsSound ==
    \A j \in Jobs :
        /\ state[j] = "completed" => done[j]
        /\ state[j] # "absent" => version[j] > 0
        /\ blocking[j] => version[j] > 0

\* The parents of c whose blocking flag says that no resolver has been there.
Unresolved(c) == {p \in ParentsOf[c] : blocking[p]}

\* A stored child is blocked exactly while it counts a parent, it counts every
\* unresolved parent, and the others have completed.
ChildrenSound ==
    \A c \in Jobs :
        version[c] > 0 /\ ~done[c] =>
            /\ blocked[c] <=> pending[c] > 0
            /\ \A p \in ParentsOf[c] : blocking[p] \/ done[p]

FlowInv == TypeOK /\ LocksSound /\ RowsSound /\ ChildrenSound /\ PendingCoversUnresolved

\* A parent has a finite number of children and the other way round.
LEMMA UnresolvedFinite ==
    ASSUME NEW c \in Jobs
    PROVE  /\ ParentsOf[c] \in SUBSET Jobs
           /\ IsFiniteSet(ParentsOf[c])
           /\ IsFiniteSet(Unresolved(c)) /\ Cardinality(Unresolved(c)) \in Nat
<1>1. ParentsOf[c] \in SUBSET Jobs
      BY FlowAssumption
<1>2. IsFiniteSet(ParentsOf[c])
      BY <1>1, FlowAssumption, FS_Subset
<1>3. Unresolved(c) \in SUBSET ParentsOf[c]
      BY DEF Unresolved
<1> QED BY <1>1, <1>2, <1>3, FS_Subset, FS_CardinalityType

\* The flow's statement stores children that count every parent.
LEMMA SendFlowKeeps ==
    ASSUME FlowInv, SendFlow
    PROVE  LocksSound' /\ RowsSound' /\ ChildrenSound' /\ PendingCoversUnresolved'
<1>1. \A n \in Navigators : nav'[n] = nav[n] /\ nav[n].parents = {}
      <2> SUFFICES ASSUME NEW n \in Navigators, NEW p \in nav[n].parents
                   PROVE  FALSE
            BY DEF SendFlow
      <2>1. p \in Jobs
            BY ResolveTypes DEF FlowInv
      <2> QED BY <2>1 DEF FlowInv, LocksSound, RowsSound, SendFlow, TypeOK
<1>2. LocksSound'
      BY <1>1 DEF SendFlow, LocksSound, FlowInv, Edges
<1>3. RowsSound'
      BY DEF SendFlow, RowsSound, FlowInv, TypeOK
<1>4. ChildrenSound'
      <2> SUFFICES ASSUME NEW c \in Jobs
                   PROVE  /\ blocked'[c] <=> pending'[c] > 0
                          /\ \A p \in ParentsOf[c] : blocking'[p]
            BY DEF ChildrenSound
      <2>1. ParentsOf[c] \in SUBSET Jobs /\ IsFiniteSet(ParentsOf[c])
            BY UnresolvedFinite
      <2>2. ParentsOf[c] = {} <=> Cardinality(ParentsOf[c]) = 0
            BY <2>1, FS_EmptySet
      <2>3. Cardinality(ParentsOf[c]) \in Nat
            BY <2>1, FS_CardinalityType
      <2>4. blocked'[c] <=> pending'[c] > 0
            <3>1. blocked'[c] <=> ParentsOf[c] # {}
                  BY Zenon DEF SendFlow
            <3>2. pending'[c] = Cardinality(ParentsOf[c])
                  BY DEF SendFlow
            <3> QED BY <2>2, <2>3, <3>1, <3>2
      <2>5. \A p \in ParentsOf[c] : blocking'[p]
            BY <2>1 DEF SendFlow, Children
      <2> QED BY <2>4, <2>5
<1>5. PendingCoversUnresolved'
      <2> SUFFICES ASSUME NEW c \in Jobs
                   PROVE  pending'[c] >= Cardinality(Unresolved(c)')
            BY DEF PendingCoversUnresolved, Unresolved
      <2>1. IsFiniteSet(ParentsOf[c]) /\ Unresolved(c)' \in SUBSET ParentsOf[c]
            BY UnresolvedFinite DEF Unresolved
      <2>2. /\ Cardinality(Unresolved(c)') <= Cardinality(ParentsOf[c])
            /\ Cardinality(Unresolved(c)') \in Nat /\ Cardinality(ParentsOf[c]) \in Nat
            BY <2>1, FS_Subset, FS_CardinalityType
      <2>3. pending'[c] = Cardinality(ParentsOf[c])
            BY DEF SendFlow
      <2> QED BY <2>2, <2>3
<1> QED BY <1>2, <1>3, <1>4, <1>5

\* An operation on one row leaves locked rows alone.
LEMMA JobKeeps ==
    ASSUME FlowInv, NEW j \in Jobs, JobStep(j)
    PROVE  LocksSound' /\ RowsSound' /\ ChildrenSound' /\ PendingCoversUnresolved'
<1>1. /\ ~Locked(j)
      /\ \A k \in Jobs \ {j} : UNCHANGED <<state[k], blocked[k], pending[k], version[k], done[k]>>
      /\ UNCHANGED <<blocking, deps, nav>>
      /\ version'[j] \in {version[j], version[j] + 1}
      /\ done[j] => done'[j]
      /\ state'[j] = "completed" => done'[j]
      /\ state'[j] # "absent" => state[j] # "absent"
      /\ ~done'[j] => blocked'[j] = blocked[j] /\ pending'[j] = pending[j]
      BY JobFrame DEF FlowInv
<1>2. \A k \in Jobs : version[k] \in Nat
      BY DEF FlowInv, TypeOK
<1>3. LocksSound'
      <2>1. \A n \in Navigators : \A p \in nav[n].parents : p \in Jobs \ {j}
            BY <1>1, ResolveTypes DEF Locked, FlowInv
      <2> QED BY <1>1, <2>1 DEF LocksSound, FlowInv
<1>4. RowsSound'
      BY <1>1, <1>2 DEF RowsSound, FlowInv
<1>5. \A k \in Jobs : done[k] => done'[k]
      BY <1>1
<1>6. version'[j] > 0 => version[j] > 0 \/ state[j] # "absent"
      <2>1. CASE Fail(j) \/ FailQueued(j)
            BY <2>1 DEF Fail, FailQueued
      <2>2. CASE ~(Fail(j) \/ FailQueued(j))
            BY <2>2 DEF JobStep, Fetch, Complete, CompleteQueued, Cancel, Resume, Retry, RestoreJob, DeleteJob,
                        Sweep, Keep
      <2> QED BY <2>1, <2>2
<1>7. \A c \in Jobs : version'[c] > 0 => version[c] > 0
      BY <1>1, <1>2, <1>6 DEF RowsSound, FlowInv
<1>8. \A c \in Jobs : ~done'[c] => ~done[c] /\ blocked'[c] = blocked[c] /\ pending'[c] = pending[c]
      BY <1>1
<1>9. ChildrenSound'
      <2>1. \A c \in Jobs : ParentsOf[c] \subseteq Jobs
            BY UnresolvedFinite
      <2> QED BY <1>1, <1>5, <1>7, <1>8, <2>1 DEF ChildrenSound, FlowInv
<1>10. PendingCoversUnresolved'
      BY <1>1, <1>8 DEF PendingCoversUnresolved, FlowInv
<1> QED BY <1>3, <1>4, <1>9, <1>10

\* A new resolve locks parents that nobody has locked.
LEMMA ResolveStartKeeps ==
    ASSUME FlowInv, NEW n \in Navigators, ResolveStart(n)
    PROVE  LocksSound' /\ RowsSound' /\ ChildrenSound' /\ PendingCoversUnresolved'
<1>1. PICK P \in SUBSET ResolvableParents :
        nav' = [nav EXCEPT ![n] = [phase |-> "resolving", parents |-> P, saw |-> version,
                                   pairs |-> {d \in deps : d[2] \in P}]]
      BY DEF ResolveStart
<1>2. /\ nav'[n].parents = P /\ nav'[n].pairs = {d \in deps : d[2] \in P}
      /\ \A m \in Navigators \ {n} : nav'[m] = nav[m]
      BY <1>1 DEF FlowInv, TypeOK
<1>3. UNCHANGED <<rowVars, deps, done>>
      BY DEF ResolveStart
<1>4. \A p \in P : p \in Jobs /\ state[p] = "completed" /\ blocking[p] /\ \A m \in Navigators : p \notin nav[m].parents
      BY DEF ResolvableParents, Locked
<1>5. LocksSound'
      BY <1>2, <1>3, <1>4 DEF LocksSound, FlowInv, rowVars
<1> QED BY <1>3, <1>5 DEF rowVars, RowsSound, ChildrenSound, PendingCoversUnresolved, FlowInv

\* A resolve that rolls back leaves its locks.
LEMMA ResolveAbortsKeeps ==
    ASSUME FlowInv, NEW n \in Navigators, ResolveAborts(n)
    PROVE  LocksSound' /\ RowsSound' /\ ChildrenSound' /\ PendingCoversUnresolved'
<1>1. /\ nav'[n].parents = {} /\ nav'[n].pairs = {}
      /\ \A m \in Navigators \ {n} : nav'[m] = nav[m]
      /\ UNCHANGED <<rowVars, deps, done>>
      BY DEF ResolveAborts, FlowInv, TypeOK, Idle
<1>2. LocksSound'
      BY <1>1 DEF LocksSound, FlowInv, rowVars
<1> QED BY <1>1, <1>2 DEF rowVars, RowsSound, ChildrenSound, PendingCoversUnresolved, FlowInv

\* A resolve takes off a child no more than the unresolved parents it has locked.
LEMMA DecrementBound ==
    ASSUME FlowInv, NEW n \in Navigators, NEW c \in Jobs
    PROVE  /\ IsFiniteSet(Unresolved(c) \ nav[n].parents)
           /\ Decrement(n, c) + Cardinality(Unresolved(c) \ nav[n].parents) <= Cardinality(Unresolved(c))
<1> DEFINE P == nav[n].parents
           D == {d \in nav[n].pairs : d[1] = c}
           T == Unresolved(c) \cap P
           f == [d \in D |-> d[2]]
<1>1. IsFiniteSet(Unresolved(c)) /\ Cardinality(Unresolved(c)) \in Nat
      BY UnresolvedFinite
<1>2. /\ IsFiniteSet(T) /\ Cardinality(T) \in Nat
      /\ IsFiniteSet(Unresolved(c) \ P)
      /\ Cardinality(Unresolved(c) \ P) = Cardinality(Unresolved(c)) - Cardinality(T)
      BY <1>1, FS_Intersection, FS_Difference, FS_CardinalityType
<1>3. f \in Injection(D, T)
      <2>1. \A d \in D : d \in Jobs \X Jobs /\ d[1] = c /\ d[2] \in P /\ d[2] \in ParentsOf[c] /\ blocking[d[2]]
            BY DEF FlowInv, LocksSound, Edges
      <2>2. \A d \in D : d[2] \in T
            BY <2>1 DEF Unresolved
      <2>3. \A d, e \in D : d[2] = e[2] => d = e
            BY <2>1
      <2> QED BY <2>2, <2>3 DEF Injection, IsInjective
<1>4. Cardinality(D) <= Cardinality(T)
      BY <1>2, <1>3, FS_Injection
<1>5. Decrement(n, c) \in Nat /\ Decrement(n, c) = Cardinality(D)
      BY DecrementType DEF Decrement, FlowInv
<1> QED BY <1>1, <1>2, <1>4, <1>5

\* The end of a resolve: the children it reaches are lowered, and no parent is left
\* blocking that was counted off.
LEMMA ResolveEndKeeps ==
    ASSUME FlowInv, NEW n \in Navigators, ResolveEnd(n)
    PROVE  LocksSound' /\ RowsSound' /\ ChildrenSound' /\ PendingCoversUnresolved'
<1> DEFINE P == nav[n].parents
<1>1. /\ nav'[n].parents = {} /\ nav'[n].pairs = {}
      /\ \A m \in Navigators \ {n} : nav'[m] = nav[m]
      /\ UNCHANGED <<state, version, deps, done>>
      BY DEF ResolveEnd, FlowInv, TypeOK, Idle
<1>2. \A p \in Jobs : blocking'[p] <=> blocking[p] /\ p \notin P
      BY Zenon DEF ResolveEnd
<1>3. LocksSound'
      <2>1. \A m \in Navigators \ {n} : \A p \in nav[m].parents : p \in Jobs /\ p \notin P
            BY ResolveTypes DEF FlowInv, LocksSound
      <2> QED BY <1>1, <1>2, <2>1 DEF LocksSound, FlowInv
<1>4. RowsSound'
      BY <1>1, <1>2 DEF RowsSound, FlowInv
<1>5. \A p \in P : p \in Jobs /\ done[p]
      BY ResolveTypes DEF FlowInv, LocksSound, RowsSound
<1>6. ASSUME NEW c \in Jobs
      PROVE  \/ Lowered(n, c) \in Nat /\ pending'[c] = Lowered(n, c) /\ (blocked'[c] <=> Lowered(n, c) > 0)
             \/ pending'[c] = pending[c] /\ blocked'[c] = blocked[c]
      <2>1. Lowered(n, c) \in Nat
            BY DecrementType DEF FlowInv
      <2>2. CASE Reaches(n, c)
            BY <2>1, <2>2, Zenon DEF ResolveEnd
      <2>3. CASE ~Reaches(n, c)
            BY <2>3, Zenon DEF ResolveEnd
      <2> QED BY <2>2, <2>3
<1>7. ChildrenSound'
      <2> SUFFICES ASSUME NEW c \in Jobs, version[c] > 0, ~done[c]
                   PROVE  /\ blocked'[c] <=> pending'[c] > 0
                          /\ \A p \in ParentsOf[c] : blocking'[p] \/ done[p]
            BY <1>1 DEF ChildrenSound
      <2>1. /\ blocked[c] <=> pending[c] > 0
            /\ \A p \in ParentsOf[c] : blocking[p] \/ done[p]
            BY DEF FlowInv, ChildrenSound
      <2>2. ParentsOf[c] \subseteq Jobs
            BY UnresolvedFinite
      <2>3. \A p \in ParentsOf[c] : blocking'[p] \/ done[p]
            BY <1>2, <1>5, <2>1, <2>2
      <2>4. blocked'[c] <=> pending'[c] > 0
            BY <1>6, <2>1
      <2> QED BY <2>3, <2>4
<1>8. PendingCoversUnresolved'
      <2> SUFFICES ASSUME NEW c \in Jobs, ~done[c]
                   PROVE  pending'[c] >= Cardinality(Unresolved(c)')
            BY <1>1 DEF PendingCoversUnresolved, Unresolved
      <2>1. pending[c] >= Cardinality(Unresolved(c)) /\ pending[c] \in Nat
            BY DEF FlowInv, PendingCoversUnresolved, Unresolved, TypeOK
      <2>2. Unresolved(c)' = Unresolved(c) \ P
            <3>1. ParentsOf[c] \subseteq Jobs
                  BY UnresolvedFinite
            <3> QED BY <1>2, <3>1 DEF Unresolved
      <2>3. /\ Decrement(n, c) + Cardinality(Unresolved(c) \ P) <= Cardinality(Unresolved(c))
            /\ IsFiniteSet(Unresolved(c) \ P)
            BY DecrementBound
      <2>4. /\ Decrement(n, c) \in Nat /\ Cardinality(Unresolved(c) \ P) \in Nat
            /\ Cardinality(Unresolved(c)) \in Nat
            BY <2>3, DecrementType, UnresolvedFinite, FS_CardinalityType DEF FlowInv
      <2>5. CASE pending'[c] = Lowered(n, c)
            BY <2>1, <2>2, <2>3, <2>4, <2>5 DEF Lowered
      <2>6. CASE pending'[c] = pending[c]
            BY <2>1, <2>2, <2>3, <2>4, <2>6
      <2> QED BY <1>6, <2>5, <2>6
<1> QED BY <1>3, <1>4, <1>7, <1>8

\* The inductive invariant of a flow.
THEOREM FlowInvariant == Spec => []FlowInv
<1>1. Init => FlowInv
      <2> SUFFICES ASSUME Init PROVE FlowInv
            OBVIOUS
      <2>1. TypeOK
            BY ResolveTypes DEF Init, TypeOK, States
      <2>2. LocksSound /\ RowsSound
            BY DEF Init, LocksSound, RowsSound, Idle
      <2>3. ChildrenSound
            BY DEF Init, ChildrenSound
      <2>4. PendingCoversUnresolved
            <3> SUFFICES ASSUME NEW c \in Jobs
                         PROVE  pending[c] >= Cardinality(Unresolved(c))
                  BY DEF PendingCoversUnresolved, Unresolved
            <3>1. ParentsOf[c] \subseteq Jobs
                  BY UnresolvedFinite
            <3>2. Unresolved(c) = {}
                  BY <3>1 DEF Init, Unresolved
            <3> QED BY <3>2, FS_EmptySet DEF Init
      <2> QED BY <2>1, <2>2, <2>3, <2>4 DEF FlowInv
<1>2. TypeOK' /\ FlowInv /\ [Next]_vars => FlowInv'
      <2> SUFFICES ASSUME TypeOK', FlowInv, [Next]_vars
                   PROVE  LocksSound' /\ RowsSound' /\ ChildrenSound' /\ PendingCoversUnresolved'
            BY DEF FlowInv
      <2>1. CASE CleanupDependencies
            BY <2>1 DEF CleanupDependencies, rowVars, FlowInv, LocksSound, RowsSound, ChildrenSound,
                        PendingCoversUnresolved
      <2>2. CASE UNCHANGED vars
            BY <2>2 DEF vars, FlowInv, LocksSound, RowsSound, ChildrenSound, PendingCoversUnresolved
      <2> QED BY <2>1, <2>2, SendFlowKeeps, JobKeeps, ResolveStartKeeps, ResolveEndKeeps, ResolveAbortsKeeps
              DEF Next, NavigatorStep
<1> QED BY <1>1, <1>2, TypeCorrect, PTL DEF Spec

\* pending_dependencies never undercounts, however many resolvers run at once.
THEOREM PendingTheorem == Spec => []PendingCoversUnresolved
BY FlowInvariant, PTL DEF FlowInv

\* No worker claims a child before every parent has completed: the claim needs an
\* unblocked row, and an unblocked row counts no unresolved parent.
THEOREM NoEarlyStartTheorem == Spec => NoEarlyStart
<1> DEFINE Step == \A c \in Jobs : state[c] = "queued" /\ state'[c] = "active" /\ ~done[c]
                        => \A p \in ParentsOf[c] : done[p]
<1>1. FlowInv /\ [Next]_vars => Step
      <2> SUFFICES ASSUME FlowInv, [Next]_vars, NEW c \in Jobs, state[c] = "queued", state'[c] = "active",
                          ~done[c], NEW p \in ParentsOf[c]
                   PROVE  done[p]
            OBVIOUS
      <2>1. ~blocked[c]
            <3>1. CASE \E j \in Jobs : JobStep(j)
                  <4>1. PICK j \in Jobs : JobStep(j)
                        BY <3>1
                  <4>2. /\ \A k \in Jobs \ {j} : state'[k] = state[k]
                        /\ state'[j] = "active" => ~blocked[j]
                        BY <4>1, JobFrame DEF FlowInv
                  <4> QED BY <4>2
            <3>2. CASE ~(\E j \in Jobs : JobStep(j))
                  <4>1. \/ state' = state
                        \/ SendFlow
                        BY <3>2 DEF Next, CleanupDependencies, NavigatorStep, ResolveStart, ResolveEnd, ResolveAborts,
                                    rowVars, vars
                  <4> QED BY <4>1 DEF SendFlow
            <3> QED BY <3>1, <3>2
      <2>2. version[c] > 0
            BY DEF FlowInv, RowsSound
      <2>3. pending[c] \in Nat /\ ~(pending[c] > 0)
            BY <2>1, <2>2 DEF FlowInv, ChildrenSound, TypeOK
      <2>4. pending[c] >= Cardinality(Unresolved(c))
            BY DEF FlowInv, PendingCoversUnresolved, Unresolved
      <2>5. Unresolved(c) = {}
            BY <2>3, <2>4, UnresolvedFinite, FS_EmptySet
      <2> QED BY <2>2, <2>5 DEF FlowInv, ChildrenSound, Unresolved
<1>2. FlowInv /\ [Next]_vars => [Step]_vars
      BY <1>1
<1> QED BY <1>2, FlowInvariant, PTL DEF Spec, NoEarlyStart
================================================================================
