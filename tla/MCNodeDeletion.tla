---------------------------- MODULE MCNodeDeletion ----------------------------
(* Small instances of NodeDeletion for TLC. *)
EXTENDS NodeDeletion, TLC

CONSTANTS n1, n2, d1, d2

MCNodes == {n1, n2}
MCOneDeployment == {d1}
MCDeployments == {d1, d2}
MCOneJob == {1}
MCJobs == 1..2

(* For the runs without a temporal property.                               *)
MCSymmetry == Permutations(MCNodes) \cup Permutations(MCDeployments)
===============================================================================
