------------------------------ MODULE RunLock ------------------------------
(***************************************************************************)
(* ticketbot/engine/locks.py: the lock file of ONE work item, seen by the  *)
(* orchestrator processes that contend for it.  Every file-system call of  *)
(* acquire() and release() is a step of its own, so that other processes,  *)
(* a crash or a failing call can come between any two of them.             *)
(*                                                                         *)
(* A lock file is [by, run]: the process that created the inode and the    *)
(* run id read back from its JSON, NoRun while the content is missing (the *)
(* file is created empty and written afterwards).                          *)
(***************************************************************************)
CONSTANTS Proc,    \* orchestrator processes; a pid is not reused
          RunId,   \* run ids; a resumed run reuses the id it was saved under
          NoRun,   \* "no run id": nothing owned, or an empty lock file
          NoFile   \* the lock file does not exist

ASSUME LockConstants ==
  /\ NoRun \notin RunId
  /\ NoFile \notin [by : Proc, run : RunId \cup {NoRun}]
  /\ {"free", "stuck"} \cap Proc = {}

VARIABLES
  pc,          \* [Proc -> Point]: where each process is
  rid,         \* [Proc -> RunId \cup {NoRun}]: the run id passed to acquire()
  owned,       \* [Proc -> RunId \cup {NoRun}]: self._owned_run_id
  file,        \* the lock file
  info,        \* [Proc -> Content]: what a refused acquire() has read
  verdict,     \* what the LockHeld of the last step said, "none" if it raised none
  broken,      \* history: a lock was taken from a process that relied on it
  abandoned,   \* history: the file's creator has written and then failed to remove it
  blind,       \* history: refused processes whose read of the holder failed
  met          \* history: who has been at work ever since p was refused

vars == <<pc, rid, owned, file, info, verdict, broken, abandoned, blind, met>>

Point ==
  {"idle", "unlink", "create", "read", "judge", "write", "held", "release", "dead"}
AtWork == {"held", "release"}
Verdict == {"none", "live", "old", "dead"}
LockFile == [by : Proc, run : RunId \cup {NoRun}]
Content == [by : Proc, run : RunId] \cup {NoFile}

TypeOK ==
  /\ pc \in [Proc -> Point]
  /\ rid \in [Proc -> RunId \cup {NoRun}]
  /\ owned \in [Proc -> RunId \cup {NoRun}]
  /\ file \in LockFile \cup {NoFile}
  /\ info \in [Proc -> Content]
  /\ verdict \in Verdict
  /\ broken \in BOOLEAN
  /\ abandoned \in BOOLEAN
  /\ blind \in SUBSET Proc
  /\ met \in [Proc -> SUBSET Proc]

Init ==
  /\ pc = [p \in Proc |-> "idle"]
  /\ rid = [p \in Proc |-> NoRun]
  /\ owned = [p \in Proc |-> NoRun]
  /\ file = NoFile
  /\ info = [p \in Proc |-> NoFile]
  /\ verdict = "none"
  /\ broken = FALSE
  /\ abandoned = FALSE
  /\ blind = {}
  /\ met = [p \in Proc |-> {}]

\* p moves on.  Who leaves its work is no longer somebody others have met there.
Move(p, point) ==
  /\ pc' = [pc EXCEPT ![p] = point]
  /\ met' = [q \in Proc |-> CASE q = p /\ point # "judge" -> {}
                              [] point \in AtWork         -> met[q]
                              [] OTHER                    -> met[q] \ {p}]

Goto(p, point) == Move(p, point) /\ verdict' = "none" /\ blind' = blind \ {p}

\* acquire() has raised or release() has returned: nothing is left of the call.
Forget(p) ==
  /\ rid' = [rid EXCEPT ![p] = NoRun]
  /\ owned' = [owned EXCEPT ![p] = NoRun]
  /\ info' = [info EXCEPT ![p] = NoFile]

Leave(p) == Goto(p, "idle") /\ Forget(p)

\* From the creation of the file to its removal the process believes the item
\* is its own; between "write" and "release" the pipeline runs.
Holds(p) == pc[p] \in AtWork \cup {"write"}

-----------------------------------------------------------------------------
(* acquire()                                                               *)

Call(p, r) ==
  /\ pc[p] = "idle"
  /\ rid' = [rid EXCEPT ![p] = r]
  /\ \E point \in {"create", "unlink"} : Goto(p, point)
  /\ UNCHANGED <<owned, file, info, broken, abandoned>>

\* --force-lock: an existing lock is removed, whoever holds it; a missing one is
\* not an error.
Unlink(p) ==
  /\ pc[p] = "unlink"
  /\ broken' = (broken \/ (file # NoFile /\ Holds(file.by)))
  /\ file' = NoFile
  /\ abandoned' = FALSE
  /\ Goto(p, "create")
  /\ UNCHANGED <<rid, owned, info>>

\* Mutant: a lock whose process is dead is taken over.
CreateOverDead(p) ==
  /\ pc[p] = "create"
  /\ file # NoFile => pc[file.by] = "dead"
  /\ file' = [by |-> p, run |-> NoRun]
  /\ Goto(p, "write")
  /\ UNCHANGED <<rid, owned, info, broken, abandoned>>

\* os.open(O_CREAT | O_EXCL) succeeds: the file exists, with no content yet.
Create(p) ==
  /\ pc[p] = "create"
  /\ file = NoFile
  /\ file' = [by |-> p, run |-> NoRun]
  /\ Goto(p, "write")
  /\ UNCHANGED <<rid, owned, info, broken, abandoned>>

\* Removing or creating the file raises anything but that it is missing or exists.
AcquireFails(p) ==
  /\ pc[p] \in {"unlink", "create"}
  /\ Leave(p)
  /\ UNCHANGED <<file, broken, abandoned>>

\* os.open says that the file exists.
Refused(p) ==
  /\ pc[p] = "create"
  /\ file # NoFile
  /\ pc' = [pc EXCEPT ![p] = "read"]
  /\ met' = [met EXCEPT ![p] = {q \in Proc : pc[q] \in AtWork}]
  /\ verdict' = "none"
  /\ UNCHANGED <<rid, owned, file, info, broken, abandoned, blind>>

\* _read: the content of whatever has the name by now.  A file that is gone, not
\* written yet or unreadable gives {}, here NoFile.
ReadHolder(p) ==
  /\ pc[p] = "read"
  /\ info' = [info EXCEPT ![p] = IF file # NoFile /\ file.run # NoRun THEN file ELSE NoFile]
  /\ Goto(p, "judge")
  /\ UNCHANGED <<rid, owned, file, broken, abandoned>>

ReadHolderFails(p) ==
  /\ pc[p] = "read"
  /\ info' = [info EXCEPT ![p] = NoFile]
  /\ Move(p, "judge")
  /\ verdict' = "none"
  /\ blind' = blind \cup {p}
  /\ UNCHANGED <<rid, owned, file, broken, abandoned>>

\* Mutant: age alone makes a holder dead.
VerdictByAge(holder, old) ==
  IF holder = NoFile \/ old \/ pc[holder.by] = "dead" THEN "dead" ELSE "live"

\* The pid of {} is -1 and its age is the whole epoch: stale on both counts.
VerdictOn(holder, old) ==
  CASE holder = NoFile           -> "dead"
    [] pc[holder.by] = "dead"    -> "dead"
    [] OTHER                     -> IF old THEN "old" ELSE "live"

LockHeld(p, says) ==
  /\ verdict' = says
  /\ Move(p, "idle")
  /\ Forget(p)
  /\ blind' = blind \ {p}

\* _pid_alive, and LockHeld is raised; a run may have been going on for longer
\* than stale_after_s.
Judge(p) ==
  /\ pc[p] = "judge"
  /\ \E old \in BOOLEAN : LockHeld(p, VerdictOn(info[p], old))
  /\ UNCHANGED <<file, broken, abandoned>>

\* A probe the operating system refuses counts as a dead process.
ProbeFails(p) ==
  /\ pc[p] = "judge"
  /\ LockHeld(p, "dead")
  /\ UNCHANGED <<file, broken, abandoned>>

\* The content goes to the inode this process created; when a forced acquire
\* has unlinked that inode meanwhile, the file now in its place is untouched.
Write(p) ==
  /\ pc[p] = "write"
  /\ file' = IF file # NoFile /\ file.by = p THEN [file EXCEPT !.run = rid[p]] ELSE file
  /\ owned' = [owned EXCEPT ![p] = rid[p]]
  /\ Goto(p, "held")
  /\ UNCHANGED <<rid, info, broken, abandoned>>

\* os.write or os.close raises, or Ctrl-C arrives before or behind them: acquire()
\* fails after the file was created, and release() does nothing about it.
WriteFails(p) ==
  /\ pc[p] = "write"
  /\ Leave(p)
  /\ \/ UNCHANGED <<file, abandoned>>
     \/ /\ file # NoFile /\ file.by = p
        /\ file' = [file EXCEPT !.run = rid[p]]
        /\ abandoned' = TRUE
  /\ UNCHANGED broken

-----------------------------------------------------------------------------
(* release()                                                               *)

\* The pipeline is over.  The content is read; only a matching run id goes on
\* to the unlink, every other case forgets the lock.
ReadOwner(p) ==
  /\ pc[p] = "held"
  /\ IF file # NoFile /\ file.run = owned[p]
       THEN Goto(p, "release") /\ UNCHANGED <<owned, rid, info>>
       ELSE Leave(p)
  /\ UNCHANGED <<file, broken, abandoned>>

\* Mutant: an unlink that fails is tried again, for ever.
RemoveRetries(p) ==
  /\ pc[p] = "release"
  /\ Goto(p, "held")
  /\ UNCHANGED <<rid, owned, file, info, broken, abandoned>>

\* path.unlink(missing_ok=True): by name, whatever the name refers to by now.
Remove(p) ==
  /\ pc[p] = "release"
  /\ file' = NoFile
  /\ abandoned' = FALSE
  /\ Leave(p)
  /\ UNCHANGED broken

\* _read turns an OSError into {}, which has no run id, and an OSError of the
\* unlink is swallowed: the file stays and is forgotten.
ReleaseFails(p) ==
  /\ pc[p] \in AtWork
  /\ abandoned' = (abandoned \/ (file # NoFile /\ file.by = p))
  /\ Leave(p)
  /\ UNCHANGED <<file, broken>>

-----------------------------------------------------------------------------
\* The process is killed wherever it is; the file stays.
Crash(p) ==
  /\ pc[p] # "dead"
  /\ Goto(p, "dead")
  /\ Forget(p)
  /\ UNCHANGED <<file, broken, abandoned>>

Step(p) ==
  \/ Unlink(p) \/ Create(p) \/ Refused(p) \/ ReadHolder(p) \/ Judge(p)
  \/ Write(p) \/ ReadOwner(p) \/ Remove(p)

\* The failures of a call.
Fault(p) ==
  \/ AcquireFails(p) \/ ReadHolderFails(p) \/ ProbeFails(p) \/ WriteFails(p)
  \/ ReleaseFails(p)

Next ==
  \E p \in Proc :
    \/ \E r \in RunId : Call(p, r)
    \/ Step(p)
    \/ Fault(p)
    \/ Crash(p)

Spec == Init /\ [][Next]_vars

\* A live process goes on executing its own calls: the pipeline between them
\* is bounded by the budget and by the step timeouts.
FairSpec == Spec /\ \A p \in Proc : WF_vars(Step(p))

-----------------------------------------------------------------------------
(* Properties                                                              *)

\* locks.py:1-3: two orchestrator processes never both act on one work item,
\* unless --force-lock took the lock from one that was still at work.  Forcing
\* the lock of a dead process is harmless, however many force it at once.
MutualExclusion == broken \/ \A p, q \in Proc : Holds(p) /\ Holds(q) => p = q

\* The file a holder relies on is there, is its own, and says so as soon as it
\* says anything: without it release() would leave the item locked for ever, or
\* remove the lock of another.
HolderIsRecorded ==
  broken \/ \A p \in Proc :
    Holds(p) => /\ file # NoFile
                /\ file.by = p
                /\ file.run = owned[p]
                /\ pc[p] # "write" => owned[p] = rid[p] /\ rid[p] # NoRun

\* A lock file that outlives the hold of its creator is the trace of a crash, of
\* a failed write or of a release() that could not read or remove it: the
\* release() of a process whose calls succeed removes its file, also when live
\* locks have been forced.
LeftoverOnlyByFault ==
  file # NoFile /\ ~Holds(file.by) =>
    pc[file.by] = "dead" \/ file.run = NoRun \/ abandoned

\* LockHeld never calls a holder dead that is at work from the failing os.open to
\* the verdict, although the file is read and the pid probed in calls of their
\* own (locks.py:156-162): unless one of these fails or a live lock was forced.
\* The lock it speaks of is a dead process's, not written yet, or gone by now.
HolderNotCalledDead ==
  [][\A p \in Proc :
       Judge(p) /\ verdict' = "dead" => met[p] = {} \/ p \in blind \/ broken]_vars

\* Every lock file is eventually removed, unless its creator died, failed to
\* write it, or could not read or remove it in its release().
LockComesFree ==
  \A p \in Proc :
    (file # NoFile /\ file.by = p) ~>
      (\/ file = NoFile \/ file.by # p
       \/ pc[p] = "dead" \/ (pc[p] # "write" /\ file.run = NoRun) \/ abandoned)

\* Until a live lock is broken, the file implements the mutex of ItemMutex.
Free == "free"
Stuck == "stuck"
HolderOf ==
  IF file = NoFile THEN Free ELSE IF Holds(file.by) THEN file.by ELSE Stuck
Mutex == INSTANCE ItemMutex WITH holder <- HolderOf
MutexSpec == Mutex!Init /\ [][broken' \/ Mutex!Next]_HolderOf
=============================================================================
