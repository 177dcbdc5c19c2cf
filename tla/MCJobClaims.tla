------------------------------ MODULE MCJobClaims ------------------------------
(* Small instances of JobClaims for TLC. *)
EXTENDS JobClaimsLease, TLC

CONSTANTS g1, j1, j2

OneGroup == [j \in Jobs |-> g1]
OneOfEach == j1 :> g1 @@ j2 :> NoGroup

\* With one group the jobs are interchangeable too.
AllSymmetric == Permutations(Workers) \cup Permutations(Jobs)
================================================================================
