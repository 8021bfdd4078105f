--------------------------- MODULE ResumeOverlap ---------------------------
(***************************************************************************)
(* Several processes resume one run (orchestrator.py:533-550).  Each loads *)
(* run.json, fetches the work item, and only then asks for the item's      *)
(* lock; what it loaded is the Run object it executes and saves whole.     *)
(*                                                                         *)
(* The loop over the steps is PipelineRun's, reduced to what is read from  *)
(* and written to run.json; of optional steps and gates nothing is left.   *)
(* The lock is ItemMutex, which RunLock implements, until --force-lock     *)
(* takes it from a live process.                                           *)
(***************************************************************************)
EXTENDS Naturals

CONSTANTS
  Proc,       \* processes that resume the run
  Free, Stuck,
  StepCount,
  MaxFaults   \* bound: crashes, failing releases, and steps that fail

Step == 1..StepCount

ASSUME OverlapConstants ==
  /\ StepCount \in Nat \ {0}
  /\ MaxFaults \in Nat
  /\ Free \notin Proc /\ Stuck \notin Proc /\ Free # Stuck

VARIABLES
  pc,      \* pc[p]
  cur,     \* cur[p], the step p's loop is at
  mem,     \* mem[p], the statuses of the steps in p's Run object
  disk,    \* the statuses in run.json
  holder,  \* the item's lock
  ran,     \* how often each step was executed: never, once, more than once
  stale,   \* stale[p], run.json was saved by another since p loaded it
  broken,  \* history: the lock was taken from a process inside the loop
  faults

vars == <<pc, cur, mem, disk, holder, ran, stale, broken, faults>>

Lock == INSTANCE ItemMutex

Status == {"pending", "ok", "failed"}
Point == {"idle", "loaded", "create", "loop", "work", "release"}

TypeOK ==
  /\ pc \in [Proc -> Point]
  /\ cur \in [Proc -> 1..(StepCount + 1)]
  /\ mem \in [Proc -> [Step -> Status]]
  /\ disk \in [Step -> Status]
  /\ Lock!TypeOK
  /\ ran \in [Step -> 0..2]
  /\ stale \in [Proc -> BOOLEAN]
  /\ broken \in BOOLEAN
  /\ faults \in 0..MaxFaults

\* A run that stopped before its first step was recorded.
Init ==
  /\ pc = [p \in Proc |-> "idle"]
  /\ cur = [p \in Proc |-> 1]
  /\ disk = [s \in Step |-> "pending"]
  /\ mem = [p \in Proc |-> disk]
  /\ Lock!Init
  /\ ran = [s \in Step |-> 0]
  /\ stale = [p \in Proc |-> FALSE]
  /\ broken = FALSE
  /\ faults = 0

Goto(p, point) == pc' = [pc EXCEPT ![p] = point]

\* RunStore.save: the whole record is replaced by p's.
Save(p) ==
  /\ disk' = mem'[p]
  /\ stale' = [q \in Proc |-> stale[q] \/ (q # p /\ disk' # disk)]

-----------------------------------------------------------------------------

\* store.load(run_id)
Load(p) ==
  /\ pc[p] = "idle"
  /\ mem' = [mem EXCEPT ![p] = disk]
  /\ stale' = [stale EXCEPT ![p] = FALSE]
  /\ Goto(p, "loaded")
  /\ UNCHANGED <<cur, disk, holder, ran, broken, faults>>

\* source.fetch() or acquire() raises, LockHeld or an OSError: exit.
GiveUp(p) ==
  /\ pc[p] \in {"loaded", "create"}
  /\ Goto(p, "idle")
  /\ UNCHANGED <<cur, mem, disk, holder, ran, stale, broken, faults>>

\* lock.acquire() with --force-lock removes the file, whoever holds it.
Unlink(p) ==
  /\ pc[p] = "loaded"
  /\ broken' = (broken \/ holder \in Proc)
  /\ holder' = Free
  /\ Goto(p, "create")
  /\ UNCHANGED <<cur, mem, disk, ran, stale, faults>>

\* Mutant: the file is opened without O_EXCL.
AcquireOpens(p) ==
  /\ pc[p] \in {"loaded", "create"}
  /\ holder' = p
  /\ cur' = [cur EXCEPT ![p] = 1]
  /\ Goto(p, "loop")
  /\ UNCHANGED <<mem, disk, ran, stale, broken, faults>>

\* lock.acquire() creates the file; after an Unlink it may be another's by now.
Acquire(p) ==
  /\ pc[p] \in {"loaded", "create"}
  /\ Lock!Acquire(p)
  /\ cur' = [cur EXCEPT ![p] = 1]
  /\ Goto(p, "loop")
  /\ UNCHANGED <<mem, disk, ran, stale, broken, faults>>

AtStep(p) == pc[p] = "loop" /\ cur[p] <= StepCount

Skip(p) ==
  /\ AtStep(p) /\ mem[p][cur[p]] = "ok"
  /\ cur' = [cur EXCEPT ![p] = @ + 1]
  /\ UNCHANGED <<pc, mem, disk, holder, ran, stale, broken, faults>>

\* Mutant: what is recorded is not looked at.
ExecuteAll(p) ==
  /\ AtStep(p)
  /\ ran' = [ran EXCEPT ![cur[p]] = IF @ = 2 THEN 2 ELSE @ + 1]
  /\ Goto(p, "work")
  /\ UNCHANGED <<cur, mem, disk, holder, stale, broken, faults>>

\* The executor runs; a commit is made.
Execute(p) ==
  /\ AtStep(p) /\ mem[p][cur[p]] # "ok"
  /\ ran' = [ran EXCEPT ![cur[p]] = IF @ = 2 THEN 2 ELSE @ + 1]
  /\ Goto(p, "work")
  /\ UNCHANGED <<cur, mem, disk, holder, stale, broken, faults>>

Record(p) ==
  /\ pc[p] = "work"
  /\ mem' = [mem EXCEPT ![p][cur[p]] = "ok"]
  /\ Save(p)
  /\ cur' = [cur EXCEPT ![p] = @ + 1]
  /\ Goto(p, "loop")
  /\ UNCHANGED <<holder, ran, broken, faults>>

RecordFailure(p) ==
  /\ pc[p] = "work" /\ faults < MaxFaults
  /\ mem' = [mem EXCEPT ![p][cur[p]] = "failed"]
  /\ Save(p)
  /\ faults' = faults + 1
  /\ Goto(p, "release")
  /\ UNCHANGED <<cur, holder, ran, broken>>

\* The closing save.
Finish(p) ==
  /\ pc[p] = "loop" /\ cur[p] = StepCount + 1
  /\ UNCHANGED mem
  /\ Save(p)
  /\ Goto(p, "release")
  /\ UNCHANGED <<cur, holder, ran, broken, faults>>

\* Mutant: the lock is not released.
ReleaseForgets(p) ==
  /\ pc[p] = "release"
  /\ Goto(p, "idle")
  /\ UNCHANGED <<cur, mem, disk, holder, ran, stale, broken, faults>>

\* release() removes a file that names the run, and every resume of the run
\* writes that name: after a forced lock also the file of another, unless that
\* one is not written yet.
Release(p) ==
  /\ pc[p] = "release"
  /\ holder' = Free \/ (holder # p /\ UNCHANGED holder)
  /\ Goto(p, "idle")
  /\ UNCHANGED <<cur, mem, disk, ran, stale, broken, faults>>

\* A file nobody will remove: p's, unless it was taken from p.
Abandon(p) == holder' = IF holder = p THEN Stuck ELSE holder

\* release() swallows what its read and its unlink raise.
ReleaseFails(p) ==
  /\ pc[p] = "release" /\ faults < MaxFaults
  /\ Abandon(p)
  /\ faults' = faults + 1
  /\ Goto(p, "idle")
  /\ UNCHANGED <<cur, mem, disk, ran, stale, broken>>

\* The lock file outlives the process that dies, or whose acquire() could not
\* write it.
Crash(p) ==
  /\ pc[p] \in {"loop", "work", "release"} /\ faults < MaxFaults
  /\ Abandon(p)
  /\ faults' = faults + 1
  /\ Goto(p, "idle")
  /\ UNCHANGED <<cur, mem, disk, ran, stale, broken>>

Run(p) == Skip(p) \/ Execute(p) \/ Record(p) \/ RecordFailure(p) \/ Finish(p) \/ Release(p)

Next == \E p \in Proc : Load(p) \/ GiveUp(p) \/ Unlink(p) \/ Acquire(p) \/ Run(p)
                     \/ ReleaseFails(p) \/ Crash(p)

Spec == Init /\ [][Next]_vars

\* Processes are scheduled, and somebody resumes the run until it gets through:
\* a process does not find the lock held every time, and one that finds it stuck
\* is told to force it.
Done == \A s \in Step : disk[s] = "ok"
FairSpec ==
  /\ Spec
  /\ \A p \in Proc : WF_vars(Run(p)) /\ WF_vars(~Done /\ Load(p))
                      /\ SF_vars(Acquire(p))
                      /\ SF_vars(holder = Stuck /\ Unlink(p))

-----------------------------------------------------------------------------
(* Properties                                                              *)

Executes(p) == pc[p] = "loop" /\ pc'[p] = "work"

\* README.md:529-533: resume skips every step already ok -- unless the lock of a
\* resume at work was forced.
SkipsRecorded ==
  [][\A p \in Proc : Executes(p) => disk[cur[p]] # "ok" \/ broken]_vars

\* The steps run.json records, as whoever reads it is promised (RunPromise).
Recorded == {s \in Step : disk[s] = "ok"}
Promise == INSTANCE RunPromise WITH Optional <- {}, done <- Recorded, verdict <- "open"

\* Only with a Run object loaded before somebody else saved run.json does a
\* process execute a recorded step again, or leave a record that is not the last
\* one and its next step: all the others together keep the promise of one run.
PromiseKeptUnlessStale ==
  [][/\ \A p \in Proc : Executes(p) /\ ~stale[p] => disk[cur[p]] # "ok"
     /\ Recorded' # Recorded => \/ \E s \in Step : Promise!Complete(s)
                               \/ \E p \in Proc : stale[p] /\ pc'[p] # pc[p]]_vars

\* Whatever overlaps or is forced, and however stale the one that saves is:
\* run.json claims no step nobody executed, and none without all those before
\* it.  And only the holder of the lock is inside the loop and writes it, until
\* the lock of one that is there is forced.
RecordIsTrue ==
  /\ \A s \in Recorded : ran[s] > 0 /\ 1..s \subseteq Recorded
  /\ broken \/ \A p \in Proc : pc[p] \in {"loop", "work", "release"} => holder = p

\* Until then the resumes take the lock as ItemMutex allows.
TakesTurns == Lock!Init /\ [][broken' \/ Lock!Next]_holder

\* A step recorded by one process and lost to another's save is recorded again:
\* the run is complete again and again, as long as it is resumed.
CompleteAgain == []<>Done
=============================================================================
