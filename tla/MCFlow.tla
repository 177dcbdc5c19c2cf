--------------------------------- MODULE MCFlow ---------------------------------
(* For TLC: small flows, how they run (Flow) and which are accepted (FlowGraph).   *)
(* `part' says which of the two a behaviour is about; the other stands still.      *)
EXTENDS Flow, TLC

CONSTANTS a, b, c, Flows

VARIABLES part, flow, step, degree, ready, sorted, path, todo, roots, closed, cycle

G == INSTANCE FlowGraph

\* c waits for a and b.
Joined == a :> {} @@ b :> {} @@ c :> {a, b}

Lists(S, n) == UNION {[1..k -> S] : k \in 0..n}

\* Three jobs with up to two dependsOn entries each, one of them unknown and some
\* repeated, and the flows that are too short or use a ref twice.
SmallFlows ==
    [unique : {TRUE}, dependsOn : [1..3 -> Lists(1..4, 2)]]
    \cup [unique : BOOLEAN, dependsOn : UNION {[1..k -> Lists({1}, 1)] : k \in 1..2}]

NoFlow == [unique |-> TRUE, dependsOn |-> <<>>]

graphVars == <<flow, step, degree, ready, sorted, path, todo, roots, closed, cycle>>
allVars == <<part, vars, graphVars>>

GraphRests ==
    /\ flow = NoFlow /\ step = "refused" /\ degree = <<>> /\ ready = <<>> /\ sorted = 0
    /\ path = <<>> /\ todo = <<>> /\ roots = <<>> /\ closed = {} /\ cycle = <<>>

AllInit ==
    /\ Init
    /\ \/ part = "run" /\ GraphRests
       \/ part = "check" /\ G!Init

RunStep == part = "run" /\ Next /\ UNCHANGED <<part, graphVars>>

CheckStep == part = "check" /\ G!Next /\ UNCHANGED <<part, vars>>

AllNext == RunStep \/ CheckStep

AllSpec == AllInit /\ [][AllNext]_allVars /\ Fairness

\* FlowGraph's FlowsSortable: flow() accepts exactly the flows in which every job can
\* start after the jobs it depends on, and names a real cycle when it refuses one.
FlowsSortable == G!FlowsSortable
================================================================================
