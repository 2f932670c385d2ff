----------------------------- MODULE MCBuildSlots -----------------------------
(* Small instances of BuildSlots for TLC. *)
EXTENDS BuildSlots

CONSTANTS n1, n2

MCOneNode == {n1}
MCTwoNodes == {n1, n2}
MCTwoDeployments == 1..2
MCThreeDeployments == 1..3
===============================================================================
