--------------------------- MODULE MCWorkerManager ---------------------------
(* Small instances of WorkerManager for TLC. *)
EXTENDS WorkerManager, TLC

CONSTANTS m1, m2, r1, r2, r3, p1, p2, p3

MCManagers  == {m1, m2}
OneManager  == {m1}
MCRequests2 == {r1, r2}
MCRequests3 == {r1, r2, r3}
MCSidecar   == {r1}
MCProcs2    == {p1, p2}
MCProcs3    == {p1, p2, p3}

\* The plain managers, the processes and the requests of one process kind are
\* interchangeable (used for safety runs only).
Symmetric2 == Permutations(MCManagers) \cup Permutations(MCProcs2)
Symmetric3 == Permutations(MCManagers) \cup Permutations(MCProcs3)
=============================================================================
