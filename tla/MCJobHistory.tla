---------------------------- MODULE MCJobHistory ----------------------------
(* Instances of JobHistory for TLC. *)
EXTENDS JobHistory, TLC

CONSTANTS j1, j2, u1, u2, r1, r2

\* Two principals: the second one finds nothing under the first one's job.
MCOwner == [j \in Jobs |-> u1]

Symm == Permutations(Reqs) \cup Permutations(Jobs)
=============================================================================
