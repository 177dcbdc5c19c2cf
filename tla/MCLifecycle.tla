------------------------------ MODULE MCLifecycle ------------------------------
(* For TLC: three calls of start() and stop(), in any order (Lifecycle), and the   *)
(* schema that installs, migrations and rollbacks make (Schema).  `part' says      *)
(* which of the two a behaviour is about; the other stands still.                  *)
EXTENDS Lifecycle

CONSTANTS
    Starts, Backends, Partitions, Policies, Floor, MaxRollbacks, MaxFaults, MaxCreates

VARIABLES
    part, noPartitioning, at, objects, fn, policy, valid, invalid, bam, statements, faults,
    rollbacks, creates, unstrict, broken

S == INSTANCE Schema WITH version <- at

schemaParts == <<noPartitioning, at, objects, fn, policy, valid, invalid, bam, statements, faults,
                 rollbacks, creates, unstrict, broken>>
allVars == <<part, vars, schemaParts>>

SchemaRests ==
    /\ noPartitioning = FALSE /\ at = 0 /\ objects = {} /\ fn = 0
    /\ policy = [t \in S!Tables |-> "none"]
    /\ valid = [t \in S!Tables |-> {}] /\ invalid = [t \in S!Tables |-> {}]
    /\ bam = <<>> /\ statements = <<>>
    /\ faults = 0 /\ rollbacks = 0 /\ creates = 0
    /\ unstrict = {} /\ broken = {}

AllInit ==
    /\ Init
    /\ \/ part = "calls" /\ SchemaRests
       \/ part = "schema" /\ version = 0 /\ S!Init

CallStep == part = "calls" /\ Next /\ UNCHANGED <<part, schemaParts>>

SchemaStep == part = "schema" /\ S!Next /\ UNCHANGED <<part, vars>>

AllNext == CallStep \/ SchemaStep

AllSpec == AllInit /\ [][AllNext]_allVars /\ Fairness

\* Schema's SchemaSound: at every version, however it was reached, the schema is that
\* version's, no statement of a migration is refused and the drift report is right.
SchemaSound == S!SchemaSound
================================================================================
