--------------------------------- MODULE Lease ---------------------------------
(***************************************************************************)
(* What the jobs table promises the workers, without rows, attempts or     *)
(* statements: a job is open, leased or closed, a lease has at most one    *)
(* holder, it is granted only on an open job, and a worker that finishes   *)
(* ends its own lease or nothing.                                          *)
(*                                                                         *)
(* A worker does not learn that its lease was withdrawn: it goes on        *)
(* believing.  It is `blind' when the job was put back to its start        *)
(* (restore(), or the id sent again) while it believed: then, and only     *)
(* then, its finish may end the lease of another.                          *)
(***************************************************************************)
CONSTANTS Jobs, Workers, NoJob

VARIABLES
    cell,       \* what the table says of each job
    holders,    \* the workers whose lease on the job is live
    believes,   \* the job each worker believes it has
    blind       \* the workers whose finish cannot tell its lease from a later one

leaseVars == <<cell, holders, believes, blind>>

LeaseInit ==
    /\ cell = [j \in Jobs |-> "none"]
    /\ holders = [j \in Jobs |-> {}]
    /\ believes = [w \in Workers |-> NoJob]
    /\ blind = {}

Believers(j) == {w \in Workers : believes[w] = j}

\* The job takes a state in which nobody holds it.
Put(j, c) ==
    /\ cell' = [cell EXCEPT ![j] = c]
    /\ holders' = [holders EXCEPT ![j] = {}]

\* The id is used, and whoever still believes in its former job is blind.
Offer(j) ==
    /\ cell[j] = "none"
    /\ Put(j, "open")
    /\ blind' = blind \cup Believers(j)
    /\ UNCHANGED believes

Grant(w, j) ==
    /\ cell[j] = "open"
    /\ believes[w] = NoJob
    /\ cell' = [cell EXCEPT ![j] = "leased"]
    /\ holders' = [holders EXCEPT ![j] = {w}]
    /\ believes' = [believes EXCEPT ![w] = j]
    /\ UNCHANGED blind

\* The worker believes in its job no longer, or still waits for its handler.
LetGo(w) ==
    \/ believes' = [believes EXCEPT ![w] = NoJob] /\ blind' = blind \ {w}
    \/ UNCHANGED <<believes, blind>>

\* The holder's finish takes; any other one leaves the table alone.
Finish(w) ==
    /\ believes[w] # NoJob
    /\ \/ /\ w \in holders[believes[w]] \/ (w \in blind /\ cell[believes[w]] = "leased")
          /\ Put(believes[w], "open") \/ Put(believes[w], "closed")
       \/ /\ w \notin holders[believes[w]]
          /\ UNCHANGED <<cell, holders>>
    /\ LetGo(w)

\* The worker is gone and its lease stays in the table.
Vanish(w) ==
    /\ believes[w] # NoJob
    /\ holders' = [holders EXCEPT ![believes[w]] = @ \ {w}]
    /\ believes' = [believes EXCEPT ![w] = NoJob]
    /\ blind' = blind \ {w}
    /\ UNCHANGED cell

\* The worker hands the job back by its id.
HandBack(w) ==
    /\ believes[w] # NoJob
    /\ Put(believes[w], IF cell[believes[w]] = "none" THEN "none" ELSE "open")
    /\ believes' = [believes EXCEPT ![w] = NoJob]
    /\ blind' = (blind \cup Believers(believes[w])) \ {w}

\* The supervisor or an operator takes the job out of its state, and never
\* leases it.
Withdraw(j) ==
    /\ cell[j] # "none"
    /\ \E c \in {"none", "open", "closed"} : Put(j, c)
    /\ UNCHANGED <<believes, blind>>

\* An operator restores the job to its start.
Reset(j) ==
    /\ cell[j] # "none"
    /\ Put(j, "open")
    /\ blind' = blind \cup Believers(j)
    /\ UNCHANGED believes

LeaseNext ==
    \/ \E j \in Jobs : Offer(j) \/ Withdraw(j) \/ Reset(j)
    \/ \E w \in Workers : Finish(w) \/ Vanish(w) \/ HandBack(w)
    \/ \E w \in Workers, j \in Jobs : Grant(w, j)

LeaseSpec == LeaseInit /\ [][LeaseNext]_leaseVars
================================================================================
