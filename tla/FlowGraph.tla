------------------------------- MODULE FlowGraph -------------------------------
(***************************************************************************)
(* validateFlowJobs(): which flows flow() accepts.                         *)
(*                                                                         *)
(* A topological sort counts the jobs it can order; when it cannot order   *)
(* them all, findDependencyCycle() walks the graph depth first for the     *)
(* cycle the error names.  Jobs are numbered in the order they are passed, *)
(* the order the code's maps iterate in, and dependsOn may repeat a job.   *)
(***************************************************************************)
EXTENDS Integers, FiniteSets, Sequences, SequencesExt

CONSTANTS
    Flows       \* [unique: no ref is used twice, dependsOn: what each job depends on]

VARIABLES
    flow,       \* the flow passed
    step,       \* "check", "sort", "find", "accepted" or "refused"
    degree,     \* inDegree
    ready,      \* the queue of the sort
    sorted,     \* jobs the sort visited
    path,       \* the jobs findDependencyCycle() is visiting
    todo,       \* the children each of them has left to visit
    roots,      \* the jobs left to start from
    closed,     \* the jobs it is done with
    cycle       \* the cycle it found

sortVars == <<degree, ready, sorted>>
findVars == <<path, todo, roots, closed, cycle>>
vars == <<flow, step, sortVars, findVars>>

Count == Len(flow.dependsOn)
Refs == 1..Count
Times(r, d) == Cardinality({i \in DOMAIN flow.dependsOn[r] : flow.dependsOn[r][i] = d})
DependsOn(r, d) == Times(r, d) > 0

InOrder(S) == SetToSortSeq(S, LAMBDA a, b : a < b)

\* edges: the jobs that depend on d.
Edges(d) == InOrder({r \in Refs : DependsOn(r, d)})

-----------------------------------------------------------------------------
(* The sort. *)

WellFormed ==
    /\ Count >= 2 /\ flow.unique
    /\ \E r \in Refs : flow.dependsOn[r] # <<>>
    /\ \A r \in Refs : \A i \in DOMAIN flow.dependsOn[r] :
            flow.dependsOn[r][i] # r /\ flow.dependsOn[r][i] \in Refs

Check ==
    /\ step = "check"
    /\ IF WellFormed
       THEN /\ step' = "sort"
            /\ degree' = [r \in Refs |-> Len(flow.dependsOn[r])]
            /\ ready' = InOrder({r \in Refs : flow.dependsOn[r] = <<>>})
            /\ UNCHANGED sorted
       ELSE step' = "refused" /\ UNCHANGED sortVars
    /\ UNCHANGED <<flow, findVars>>

\* An edge for each mention, and as many decrements.
LoweredOnce(d) == [r \in Refs |-> IF DependsOn(r, d) THEN degree[r] - 1 ELSE degree[r]]

Lowered(d) == [r \in Refs |-> degree[r] - Times(r, d)]

Visit ==
    /\ step = "sort" /\ ready # <<>>
    /\ LET d == Head(ready) IN
       /\ degree' = Lowered(d)
       /\ ready' = Tail(ready) \o InOrder({r \in Refs : DependsOn(r, d) /\ degree'[r] = 0})
    /\ sorted' = sorted + 1
    /\ UNCHANGED <<flow, step, findVars>>

SortEnds ==
    /\ step = "sort" /\ ready = <<>>
    /\ IF sorted = Count THEN step' = "accepted" /\ UNCHANGED roots
       ELSE step' = "find" /\ roots' = InOrder(Refs)
    /\ UNCHANGED <<flow, sortVars, path, todo, closed, cycle>>

-----------------------------------------------------------------------------
(* findDependencyCycle(). *)

\* visit() of a job that is being visited, is done with, or is new.
VisitRef(r, rest) ==
    IF r \in ToSet(path)
    THEN /\ cycle' = Append(SubSeq(path, CHOOSE i \in DOMAIN path : path[i] = r, Len(path)), r)
         /\ step' = "refused"
         /\ UNCHANGED <<path, todo, closed>>
    ELSE /\ IF r \in closed THEN todo' = rest /\ UNCHANGED path
            ELSE path' = Append(path, r) /\ todo' = Append(rest, Edges(r))
         /\ UNCHANGED <<step, closed, cycle>>

VisitRoot ==
    /\ step = "find" /\ path = <<>> /\ roots # <<>>
    /\ VisitRef(Head(roots), <<>>)
    /\ roots' = Tail(roots)
    /\ UNCHANGED <<flow, sortVars>>

VisitChild ==
    /\ step = "find" /\ path # <<>> /\ Last(todo) # <<>>
    /\ VisitRef(Head(Last(todo)), Append(Front(todo), Tail(Last(todo))))
    /\ UNCHANGED <<flow, sortVars, roots>>

VisitReturns ==
    /\ step = "find" /\ path # <<>> /\ Last(todo) = <<>>
    /\ path' = Front(path) /\ todo' = Front(todo)
    /\ closed' = closed \cup {Last(path)}
    /\ UNCHANGED <<flow, step, sortVars, roots, cycle>>

Init ==
    /\ flow \in Flows
    /\ step = "check"
    /\ degree = [r \in Refs |-> 0] /\ ready = <<>> /\ sorted = 0
    /\ path = <<>> /\ todo = <<>> /\ roots = <<>> /\ closed = {} /\ cycle = <<>>

Next == Check \/ Visit \/ SortEnds \/ VisitRoot \/ VisitChild \/ VisitReturns

Spec == Init /\ [][Next]_vars

-----------------------------------------------------------------------------

Acyclic ==
    \E rank \in [Refs -> Refs] : \A r, d \in Refs : DependsOn(r, d) => rank[d] < rank[r]

IsCycle(c) ==
    /\ Len(c) > 1 /\ c[1] = Last(c)
    /\ \A i \in 1..(Len(c) - 1) : DependsOn(c[i + 1], c[i])

\* flow() accepts exactly the flows in which every job can start after the jobs
\* it depends on, and names a cycle of the flow when it refuses one for that: a
\* cycle accepted would be jobs that block each other for ever, and a search
\* that ends without one would fail on its result (validateFlowJobs(),
\* findDependencyCycle()).
FlowsSortable ==
    /\ step = "accepted" => WellFormed /\ Acyclic
    /\ step = "refused" => IF cycle = <<>> THEN ~WellFormed ELSE IsCycle(cycle) /\ ~Acyclic
    /\ step = "find" => path # <<>> \/ roots # <<>>

=============================================================================
