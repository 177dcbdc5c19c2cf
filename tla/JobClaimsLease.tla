---------------------------- MODULE JobClaimsLease -----------------------------
(***************************************************************************)
(* JobClaims implements Lease: the row's state is the cell, the live claim *)
(* the lease, and a claim from before a renumbering of attempts blind.     *)
(***************************************************************************)
EXTENDS JobClaims

CellOf(r) ==
    CASE r.state = "absent" -> "none"
      [] r.state \in Queued -> "open"
      [] r.state = "active" -> "leased"
      [] OTHER -> "closed"

L == INSTANCE Lease WITH
        cell <- [j \in Jobs |-> CellOf(row[j])],
        holders <- [j \in Jobs |-> {w \in Workers : Live(w) /\ held[w] = j}],
        believes <- held,
        blind <- {w \in Workers : phase[w] \in Holding /\ ~Numbered(w)}

\* Fetch, fence and settle together implement a lease (plans.ts fetchNextJob,
\* attemptFence): every step of the claims is a step of Lease or none.
ImplementsLease == L!LeaseSpec
================================================================================
