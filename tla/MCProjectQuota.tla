---------------------------- MODULE MCProjectQuota ----------------------------
(* Small instances of ProjectQuota for TLC. *)
EXTENDS ProjectQuota, TLC

CONSTANTS t1, t2, p1, p2, r1, r2

MCTeams == {t1, t2}
MCProjects == {p1, p2}
MCRequests == {r1, r2}
MCOneRequest == {r1}
MCLimit == [t \in MCTeams |-> 1]

(* Teams have the same limit; no property is temporal but of one step.     *)
MCSymmetry == Permutations(MCTeams) \cup Permutations(MCProjects) \cup Permutations(MCRequests)
===============================================================================
