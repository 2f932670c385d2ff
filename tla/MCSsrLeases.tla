------------------------------ MODULE MCSsrLeases ------------------------------
(* Small instances of SsrLeases for TLC. *)
EXTENDS SsrLeases

CONSTANTS d1, d2, n1, n2

MCDeployments == {d1, d2}
MCNodes == {n1, n2}
MCGenerations == 1..2

(* Nothing tells deployments or nodes apart, and no property is temporal.  *)
MCSymmetry == Permutations(MCDeployments) \cup Permutations(MCNodes)
===============================================================================
