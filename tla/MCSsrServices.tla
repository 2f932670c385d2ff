----------------------------- MODULE MCSsrServices -----------------------------
(* Small instances of SsrServices for TLC. *)
EXTENDS SsrServices

CONSTANTS q1, q2, k1, k2

MCOneRequest == {q1}
MCRequests == {q1, q2}
MCLocks == {k1, k2}
MCLeases == 1..2
===============================================================================
