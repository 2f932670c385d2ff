-------------------------- MODULE MCStorageMigration --------------------------
(* A small instance of StorageMigration for TLC. *)
EXTENDS StorageMigration, TLC

CONSTANTS b1, b2, k1, k2, v1, v2, r1

MCBackends == {b1, b2}
MCKeys == {k1, k2}
MCContents == {v1, v2}
MCRequests == {r1}

MCSymmetry == Permutations(MCKeys) \cup Permutations(MCContents)
===============================================================================
