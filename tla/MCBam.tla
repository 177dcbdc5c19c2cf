--------------------------------- MODULE MCBam ---------------------------------
(* For TLC: a migration that builds b1 then retires d1 on one table and builds b2  *)
(* on another (Bam), and what an instance says of the dead rows in two job tables  *)
(* (Vacuum).  `part' says which of the two a behaviour is about; the other stands  *)
(* still.                                                                          *)
EXTENDS Bam, TLC

CONSTANTS
    b1, d1, b2, t1, t2,
    JobTables, Shared, Unreadable, Budget, MaxDead, MaxHolders, MaxStops

VARIABLES
    part, table, holders, unreadable, up, stops, evidence, sources, warnedXmin, warnedOff,
    told, reading

V == INSTANCE Vacuum WITH Tables <- JobTables

Placed == b1 :> t1 @@ d1 :> t1 @@ b2 :> t2
Ordered == b1 :> 1 @@ d1 :> 2 @@ b2 :> 3

DeadRows == [job_common |-> 2, jq |-> 1]
SourceSets == {{"others"}, {"backends", "others"}}

vacuumVars == <<table, holders, unreadable, up, stops, evidence, sources, warnedXmin,
                warnedOff, told, reading>>
allVars == <<part, vars, vacuumVars>>

\* The migration is long over.
BamRests ==
    /\ status = [c \in Commands |-> "completed"]
    /\ claimant = [c \in Commands |-> NoRunner] /\ fresh = [c \in Commands |-> FALSE]
    /\ index = [c \in Commands |-> IF c \in Builds THEN "valid" ELSE "absent"]
    /\ queue = [t \in Tables |-> <<>>]
    /\ phase = [r \in Runners |-> "idle"] /\ entry = [r \in Runners |-> NoEntry]
    /\ result = [r \in Runners |-> "none"] /\ faults = 0 /\ outrun = FALSE

VacuumRests ==
    /\ table = [t \in JobTables |-> V!NewTable]
    /\ holders = <<>> /\ unreadable = {} /\ up = TRUE /\ stops = 0
    /\ evidence = [t \in JobTables |-> V!NoEvidence]
    /\ sources = V!Sources /\ warnedXmin = FALSE /\ warnedOff = FALSE
    /\ reading = V!NotReading /\ told = FALSE

AllInit ==
    \/ part = "bam" /\ Init /\ VacuumRests
    \/ part = "vacuum" /\ V!Init /\ BamRests

BamPart == part = "bam" /\ Next /\ UNCHANGED <<part, vacuumVars>>

VacuumPart == part = "vacuum" /\ V!Next /\ UNCHANGED <<part, vars>>

AllNext == BamPart \/ VacuumPart

AllSpec == AllInit /\ [][AllNext]_allVars /\ Fairness /\ V!Fairness

\* Vacuum's HoldersReported: a transaction blamed for dead rows was open when a vacuum
\* failed to reclaim them, and rows that a visible holder keeps for good are reported.
HoldersReported == V!HoldersReported
================================================================================
