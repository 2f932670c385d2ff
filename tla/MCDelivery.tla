------------------------------ MODULE MCDelivery ------------------------------
(* Small instances of Delivery for TLC. *)
EXTENDS Delivery

CONSTANTS n1, r1

MCNodes == {n1}
MCRequests == {r1}
MCNoRequests == {}
MCTwoDeployments == 1..2
MCThreeDeployments == 1..3
===============================================================================
