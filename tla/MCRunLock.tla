----------------------------- MODULE MCRunLock -----------------------------
(* RunLock on three processes and two run ids.                             *)
EXTENDS RunLock, TLC
CONSTANTS p1, p2, p3, r1, r2
MCProc == {p1, p2, p3}
MCRunId == {r1, r2}
=============================================================================
