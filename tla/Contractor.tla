------------------------------ MODULE Contractor ------------------------------
(***************************************************************************)
(* The contractor of contractor.ts: processes of one release that find the *)
(* schema missing, behind or current when they start, all at once.  What   *)
(* each reads, it reads outside the transaction that creates or migrates,  *)
(* which takes the advisory lock and so is one step.                       *)
(*                                                                         *)
(* `applied' is a ghost.                                                   *)
(***************************************************************************)
EXTENDS Integers

CONSTANTS
    Procs,          \* the processes that start
    SchemaVersion,  \* the version the release wants
    Versions,       \* the versions the schema may be found at; 0 is not installed
    Migrates        \* the processes configured with migrate: true

ASSUME ContractorAssumption ==
    /\ SchemaVersion \in Nat \ {0} /\ Versions \subseteq 0 .. SchemaVersion
    /\ Migrates \subseteq Procs

VARIABLES
    version,    \* the row of the version table; 0 if there is none
    contract,   \* each process's progress: idle, probe, read, create, migrate, done, failed
    found,      \* the version it read
    applied     \* ghost: how often the commands of each version were applied

schemaVars == <<version, contract, found, applied>>

Steps == 1 .. SchemaVersion

ContractorInit ==
    /\ version \in Versions
    /\ contract = [p \in Procs |-> "idle"] /\ found = [p \in Procs |-> 0]
    /\ applied = [v \in Steps |-> IF v <= version THEN 1 ELSE 0]

ContractorTypeOK ==
    /\ version \in 0 .. SchemaVersion
    /\ contract \in [Procs -> {"idle", "probe", "read", "create", "migrate", "done", "failed"}]
    /\ found \in [Procs -> 0 .. SchemaVersion]
    /\ applied \in [Steps -> Nat]

To(p, pc) == contract' = [contract EXCEPT ![p] = pc]

\* start() or check() is called.
ContractorStart(p) ==
    /\ contract[p] \in {"idle", "done", "failed"} /\ To(p, "probe")
    /\ UNCHANGED <<version, found, applied>>

\* isInstalled(): with migrate: false a missing schema is an error.
IsInstalled(p) ==
    /\ contract[p] = "probe"
    /\ To(p, IF version > 0 THEN "read" ELSE IF p \in Migrates THEN "create" ELSE "failed")
    /\ UNCHANGED <<version, found, applied>>

\* schemaVersion(): behind is a migration, or an error.
ReadVersion(p) ==
    /\ contract[p] = "read" /\ found' = [found EXCEPT ![p] = version]
    /\ To(p, IF version = SchemaVersion THEN "done" ELSE IF p \in Migrates THEN "migrate" ELSE "failed")
    /\ UNCHANGED <<version, applied>>

\* create(): the loser's "already exists" is no error.
Create(p) ==
    /\ contract[p] = "create" /\ To(p, "done")
    /\ version' = SchemaVersion
    /\ applied' = IF version = 0 THEN [v \in Steps |-> applied[v] + 1] ELSE applied
    /\ UNCHANGED found

\* Mutant: a migration that does not ask whether it has been done.
MigrateAgain(p) ==
    /\ contract[p] = "migrate" /\ To(p, "done")
    /\ version' = SchemaVersion
    /\ applied' = [v \in Steps |-> applied[v] + (IF v > found[p] THEN 1 ELSE 0)]
    /\ UNCHANGED found

\* migrate(): every step from the version read, unless assertMigration divides by zero
\* under the lock, which is no error either.
Migrate(p) ==
    /\ contract[p] = "migrate" /\ To(p, "done")
    /\ version' = SchemaVersion
    /\ applied' = [v \in Steps |-> applied[v] +
                        (IF v > found[p] /\ version # SchemaVersion THEN 1 ELSE 0)]
    /\ UNCHANGED found

\* Any other error of a statement, which changes nothing.
ContractorFails(p) ==
    /\ contract[p] \in {"probe", "read", "create", "migrate"} /\ To(p, "failed")
    /\ UNCHANGED <<version, found, applied>>

ContractorStep(p) == IsInstalled(p) \/ ReadVersion(p) \/ Create(p) \/ Migrate(p)

-----------------------------------------------------------------------------
(* Properties *)

\* However many processes install or migrate at once, the commands of each version up to
\* the schema's are applied once, and those past it never.
AppliedOnce == \A v \in Steps : applied[v] = (IF v <= version THEN 1 ELSE 0)

===============================================================================
