----------------------------- MODULE ItemMutex -----------------------------
(***************************************************************************)
(* What the lock file of one work item promises, as long as --force-lock   *)
(* is kept for the locks of dead processes: the item has at most one       *)
(* holder, only the holder gives it up, and a holder that dies leaves it   *)
(* stuck until a human intervenes.                                         *)
(*                                                                         *)
(* RunLock implements this module (RunLock!Mutex); PollSweep and           *)
(* ResumeOverlap are built on it, one instance per work item.              *)
(***************************************************************************)
CONSTANTS Proc,   \* orchestrator processes that share one runs directory
          Free,   \* no lock file
          Stuck   \* a lock file nobody alive is going to remove

VARIABLE holder

TypeOK == holder \in Proc \cup {Free, Stuck}

Init == holder = Free

Acquire(p) == holder = Free /\ holder' = p

Release(p) == holder = p /\ holder' = Free

\* The holder dies, or its write of the lock's content fails after the file
\* was created: the file outlives it.
Orphan(p) == holder = p /\ holder' = Stuck

\* Somebody forces the lock that nobody alive holds.
Break == holder = Stuck /\ holder' = Free

Next == (\E p \in Proc : Acquire(p) \/ Release(p) \/ Orphan(p)) \/ Break

Spec == Init /\ [][Next]_holder
=============================================================================
