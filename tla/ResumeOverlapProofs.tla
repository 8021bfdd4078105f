------------------------ MODULE ResumeOverlapProofs ------------------------
(***************************************************************************)
(* Theorems of ResumeOverlap for any number of processes, steps, crashes   *)
(* and failures.                                                           *)
(***************************************************************************)
EXTENDS ResumeOverlap, TLAPS

\* A step is executed where the loop is at one that p does not know recorded.
TypeInv ==
  /\ TypeOK
  /\ \A p \in Proc : pc[p] = "work" => cur[p] \in Step /\ mem[p][cur[p]] # "ok"

LEMMA TypeInvInductive == TypeInv /\ [Next]_vars => TypeInv'
<1> SUFFICES ASSUME TypeInv, [Next]_vars PROVE TypeInv'
  OBVIOUS
<1> USE OverlapConstants DEF TypeInv, TypeOK, Point, Status, Step, Goto, Lock!TypeOK
<1>1. ASSUME NEW p \in Proc, Load(p) PROVE TypeInv'
  BY <1>1 DEF Load
<1>2. ASSUME NEW p \in Proc, GiveUp(p) PROVE TypeInv'
  BY <1>2 DEF GiveUp
<1>3. ASSUME NEW p \in Proc, Acquire(p) PROVE TypeInv'
  BY <1>3 DEF Acquire, Lock!Acquire
<1>4. ASSUME NEW p \in Proc, Skip(p) PROVE TypeInv'
  BY <1>4 DEF Skip, AtStep
<1>5. ASSUME NEW p \in Proc, Execute(p) PROVE TypeInv'
  <2>1. cur[p] \in Step /\ mem[p][cur[p]] # "ok" /\ UNCHANGED <<cur, mem, disk, holder, stale, broken, faults>>
    BY <1>5 DEF Execute, AtStep
  <2>2. pc' \in [Proc -> Point]
    BY <1>5 DEF Execute
  <2>3. ran[cur[p]] \in 0..2 /\ (IF ran[cur[p]] = 2 THEN 2 ELSE ran[cur[p]] + 1) \in 0..2
    BY <2>1
  <2>4. ran' \in [Step -> 0..2]
    BY <1>5, <2>1, <2>3 DEF Execute
  <2>5. \A q \in Proc : pc'[q] = "work" => q = p \/ pc[q] = "work"
    BY <1>5 DEF Execute
  <2> QED BY <2>1, <2>2, <2>4, <2>5
<1>6. ASSUME NEW p \in Proc, Record(p) PROVE TypeInv'
  <2>1. mem' \in [Proc -> [Step -> Status]]
    BY <1>6 DEF Record
  <2>2. disk' \in [Step -> Status] /\ stale' \in [Proc -> BOOLEAN]
    BY <1>6, <2>1 DEF Record, Save
  <2> QED BY <1>6, <2>1, <2>2 DEF Record
<1>7. ASSUME NEW p \in Proc, RecordFailure(p) PROVE TypeInv'
  <2>1. mem' \in [Proc -> [Step -> Status]]
    BY <1>7 DEF RecordFailure
  <2>2. disk' \in [Step -> Status] /\ stale' \in [Proc -> BOOLEAN]
    BY <1>7, <2>1 DEF RecordFailure, Save
  <2> QED BY <1>7, <2>1, <2>2 DEF RecordFailure
<1>8. ASSUME NEW p \in Proc, Finish(p) PROVE TypeInv'
  BY <1>8 DEF Finish, Save
<1>9. ASSUME NEW p \in Proc, Release(p) PROVE TypeInv'
  BY <1>9 DEF Release
<1>10. ASSUME NEW p \in Proc, Crash(p) \/ ReleaseFails(p) PROVE TypeInv'
  <2>1. holder' \in Proc \cup {Free, Stuck} /\ faults' \in 0..MaxFaults
    BY <1>10 DEF Crash, ReleaseFails, Abandon
  <2>2. pc' = [pc EXCEPT ![p] = "idle"] /\ UNCHANGED <<cur, mem, disk, ran, stale, broken>>
    BY <1>10 DEF Crash, ReleaseFails
  <2> QED BY <2>1, <2>2
<1>11. ASSUME NEW p \in Proc, Unlink(p) PROVE TypeInv'
  BY <1>11 DEF Unlink
<1>12. CASE UNCHANGED vars
  BY <1>12 DEF vars
<1> QED
  BY <1>1, <1>2, <1>3, <1>4, <1>5, <1>6, <1>7, <1>8, <1>9, <1>10, <1>11, <1>12 DEF Next, Run

LEMMA TypeInvariant == Spec => []TypeInv
<1>1. Init => TypeInv
  <2> SUFFICES ASSUME Init PROVE TypeInv
    OBVIOUS
  <2>1. disk \in [Step -> Status] /\ ran \in [Step -> 0..2]
    BY DEF Init, Status
  <2>2. mem \in [Proc -> [Step -> Status]]
    BY <2>1 DEF Init
  <2>3. cur \in [Proc -> 1..(StepCount + 1)] /\ faults \in 0..MaxFaults
    BY OverlapConstants DEF Init
  <2> QED BY <2>1, <2>2, <2>3 DEF Init, TypeInv, TypeOK, Point, Lock!Init, Lock!TypeOK
<1> QED BY <1>1, TypeInvInductive, PTL DEF Spec

\* Type correctness of the overlapping resumes.
THEOREM OverlapTypeCorrect == Spec => []TypeOK
BY TypeInvariant, PTL DEF TypeInv

-----------------------------------------------------------------------------

\* Until a live lock is forced, the processes inside the loop are one, the
\* lock's holder.
HolderInv == broken \/ \A p \in Proc : pc[p] \in {"loop", "work", "release"} => holder = p

\* What run.json and any Run object record as ok was executed.
TruthInv ==
  /\ \A s \in Step : disk[s] = "ok" => ran[s] > 0
  /\ \A p \in Proc, s \in Step : mem[p][s] = "ok" => ran[s] > 0
  /\ \A p \in Proc : pc[p] = "work" => ran[cur[p]] > 0

\* A Run object that is not stale is what run.json says.
FreshInv == \A p \in Proc : pc[p] # "idle" /\ ~stale[p] => mem[p] = disk

OverlapInv == TypeInv /\ HolderInv /\ TruthInv /\ FreshInv

LEMMA OverlapInductive == OverlapInv /\ [Next]_vars => OverlapInv'
<1> SUFFICES ASSUME OverlapInv, [Next]_vars PROVE HolderInv' /\ TruthInv' /\ FreshInv'
  BY TypeInvInductive DEF OverlapInv
<1> USE OverlapConstants DEF OverlapInv, TypeInv, TypeOK, Status, Goto, HolderInv, TruthInv, FreshInv
<1>1. ASSUME NEW p \in Proc, Load(p) PROVE HolderInv' /\ TruthInv' /\ FreshInv'
  BY <1>1 DEF Load
<1>2. ASSUME NEW p \in Proc, GiveUp(p) PROVE HolderInv' /\ TruthInv' /\ FreshInv'
  BY <1>2 DEF GiveUp
<1>3. ASSUME NEW p \in Proc, Acquire(p) PROVE HolderInv' /\ TruthInv' /\ FreshInv'
  BY <1>3 DEF Acquire, Lock!Acquire
<1>4. ASSUME NEW p \in Proc, Skip(p) PROVE HolderInv' /\ TruthInv' /\ FreshInv'
  BY <1>4 DEF Skip, AtStep
<1>5. ASSUME NEW p \in Proc, Execute(p) PROVE HolderInv' /\ TruthInv' /\ FreshInv'
  <2>1. cur[p] \in Step
    BY <1>5 DEF Execute, AtStep, Step
  <2>2. UNCHANGED <<cur, mem, disk, holder, stale>>
    BY <1>5 DEF Execute
  <2>22. broken' = broken
    BY <1>5 DEF Execute
  <2>3. \A q \in Proc : pc'[q] = IF q = p THEN "work" ELSE pc[q]
    BY <1>5 DEF Execute
  <2>4. ran'[cur[p]] > 0 /\ \A s \in Step : ran[s] > 0 => ran'[s] > 0
    BY <1>5, <2>1 DEF Execute
  <2>5. pc[p] = "loop"
    BY <1>5 DEF Execute, AtStep
  <2>6. HolderInv'
    BY <2>2, <2>22, <2>3, <2>5
  <2>7. TruthInv'
    BY <2>2, <2>3, <2>4
  <2>8. FreshInv'
    BY <2>2, <2>3, <2>5
  <2> QED BY <2>6, <2>7, <2>8
<1>6. ASSUME NEW p \in Proc, Record(p) PROVE HolderInv' /\ TruthInv' /\ FreshInv'
  BY <1>6 DEF Record, Save
<1>7. ASSUME NEW p \in Proc, RecordFailure(p) PROVE HolderInv' /\ TruthInv' /\ FreshInv'
  BY <1>7 DEF RecordFailure, Save
<1>8. ASSUME NEW p \in Proc, Finish(p) PROVE HolderInv' /\ TruthInv' /\ FreshInv'
  BY <1>8 DEF Finish, Save
<1>9. ASSUME NEW p \in Proc, Release(p) PROVE HolderInv' /\ TruthInv' /\ FreshInv'
  BY <1>9 DEF Release
<1>10. ASSUME NEW p \in Proc, Crash(p) \/ ReleaseFails(p) PROVE HolderInv' /\ TruthInv' /\ FreshInv'
  BY <1>10 DEF Crash, ReleaseFails, Abandon
<1>11. ASSUME NEW p \in Proc, Unlink(p) PROVE HolderInv' /\ TruthInv' /\ FreshInv'
  BY <1>11 DEF Unlink
<1>12. CASE UNCHANGED vars
  BY <1>12 DEF vars
<1> QED
  BY <1>1, <1>2, <1>3, <1>4, <1>5, <1>6, <1>7, <1>8, <1>9, <1>10, <1>11, <1>12 DEF Next, Run

LEMMA OverlapInvariant == Spec => []OverlapInv
<1>1. Init => HolderInv /\ TruthInv /\ FreshInv
  BY DEF Init, HolderInv, TruthInv, FreshInv
<1> QED BY <1>1, OverlapInductive, TypeInvariant, PTL DEF Spec, OverlapInv

\* No copy of the record, on disk or in a process, has a step without those
\* before it; and the loop has come only past steps its copy has.
PrefixInv ==
  /\ \A s, t \in Step : t < s /\ disk[s] = "ok" => disk[t] = "ok"
  /\ \A p \in Proc : \A s, t \in Step : t < s /\ mem[p][s] = "ok" => mem[p][t] = "ok"
CursorInv ==
  \A p \in Proc : pc[p] \in {"loop", "work"} =>
    \A s \in Step : s < cur[p] => mem[p][s] = "ok"

LEMMA PrefixInductive ==
  OverlapInv /\ PrefixInv /\ CursorInv /\ [Next]_vars => PrefixInv' /\ CursorInv'
<1> SUFFICES ASSUME OverlapInv, PrefixInv, CursorInv, [Next]_vars
             PROVE  PrefixInv' /\ CursorInv'
  OBVIOUS
<1> USE OverlapConstants DEF OverlapInv, TypeInv, TypeOK, Status, Goto, PrefixInv, CursorInv, Step
<1>1. ASSUME NEW p \in Proc, Load(p) PROVE PrefixInv' /\ CursorInv'
  <2>1. disk' = disk /\ cur' = cur
    BY <1>1 DEF Load
  <2>2. \A q \in Proc : \A s \in Step : mem'[q][s] = IF q = p THEN disk[s] ELSE mem[q][s]
    BY <1>1 DEF Load
  <2>3. \A q \in Proc : pc'[q] \in {"loop", "work"} => q # p /\ pc[q] = pc'[q]
    BY <1>1 DEF Load
  <2>4. ASSUME NEW q \in Proc, NEW s \in Step, NEW t \in Step, t < s, mem'[q][s] = "ok"
        PROVE  mem'[q][t] = "ok"
    <3>1. (mem[q][s] = "ok" => mem[q][t] = "ok") /\ (disk[s] = "ok" => disk[t] = "ok")
      BY <2>4
    <3>2. /\ mem'[q][s] = IF q = p THEN disk[s] ELSE mem[q][s]
          /\ mem'[q][t] = IF q = p THEN disk[t] ELSE mem[q][t]
      BY <2>2
    <3> QED BY <2>4, <3>1, <3>2, Zenon
  <2>5. ASSUME NEW q \in Proc, pc'[q] \in {"loop", "work"}, NEW s \in Step, s < cur'[q]
        PROVE  mem'[q][s] = "ok"
    <3>1. q # p /\ pc[q] \in {"loop", "work"} /\ s < cur[q]
      BY <2>1, <2>3, <2>5
    <3>2. mem[q][s] = "ok"
      BY <3>1
    <3> QED BY <2>2, <3>1, <3>2
  <2> QED BY <2>1, <2>4, <2>5
<1>2. ASSUME NEW p \in Proc, GiveUp(p) \/ Unlink(p) PROVE PrefixInv' /\ CursorInv'
  <2>1. UNCHANGED <<cur, mem, disk>>
    BY <1>2 DEF GiveUp, Unlink
  <2>2. \A q \in Proc : pc'[q] \in {"loop", "work"} => pc[q] = pc'[q]
    BY <1>2 DEF GiveUp, Unlink
  <2>3. PrefixInv'
    BY <2>1
  <2>4. CursorInv'
    BY <2>1, <2>2
  <2> QED BY <2>3, <2>4
<1>3. ASSUME NEW p \in Proc, Acquire(p) PROVE PrefixInv' /\ CursorInv'
  BY <1>3 DEF Acquire
<1>4. ASSUME NEW p \in Proc, Skip(p) PROVE PrefixInv' /\ CursorInv'
  BY <1>4 DEF Skip, AtStep
<1>5. ASSUME NEW p \in Proc, Execute(p) PROVE PrefixInv' /\ CursorInv'
  BY <1>5 DEF Execute, AtStep
<1>6. ASSUME NEW p \in Proc, Record(p) PROVE PrefixInv' /\ CursorInv'
  <2>1. \A q \in Proc, s \in Step :
          mem'[q][s] = IF q = p /\ s = cur[p] THEN "ok" ELSE mem[q][s]
    BY <1>6 DEF Record
  <2>2. disk' = mem'[p] /\ pc[p] = "work" /\ \A q \in Proc : q # p => pc'[q] = pc[q]
    BY <1>6 DEF Record, Save
  <2>3. cur'[p] = cur[p] + 1 /\ \A q \in Proc : q # p => cur'[q] = cur[q]
    BY <1>6 DEF Record
  <2>4. cur[p] \in Step /\ \A t \in Step : t < cur[p] => mem[p][t] = "ok"
    BY <2>2
  <2>5. ASSUME NEW q \in Proc, NEW s \in Step, NEW t \in Step, t < s, mem'[q][s] = "ok"
        PROVE  mem'[q][t] = "ok"
    <3>1. mem[q][s] = "ok" => mem[q][t] = "ok"
      BY <2>5
    <3>2. CASE q = p /\ s = cur[p]
      BY <2>1, <2>4, <2>5, <3>2
    <3>3. CASE q # p \/ s # cur[p]
      BY <2>1, <2>5, <3>1, <3>3
    <3> QED BY <3>2, <3>3
  <2>6. ASSUME NEW q \in Proc, pc'[q] \in {"loop", "work"}, NEW s \in Step, s < cur'[q]
        PROVE  mem'[q][s] = "ok"
    <3>1. CASE q = p
      <4>1. s = cur[p] \/ s < cur[p]
        BY <2>3, <2>4, <2>6, <3>1
      <4> QED BY <2>1, <2>4, <3>1, <4>1
    <3>2. CASE q # p
      <4>1. pc[q] \in {"loop", "work"} /\ s < cur[q]
        BY <2>2, <2>3, <2>6, <3>2
      <4>2. mem[q][s] = "ok"
        BY <4>1
      <4> QED BY <2>1, <3>2, <4>2
    <3> QED BY <3>1, <3>2
  <2> QED BY <2>2, <2>5, <2>6
<1>7. ASSUME NEW p \in Proc, RecordFailure(p) PROVE PrefixInv' /\ CursorInv'
  <2>1. \A q \in Proc, s \in Step :
          mem'[q][s] = IF q = p /\ s = cur[p] THEN "failed" ELSE mem[q][s]
    BY <1>7 DEF RecordFailure
  <2>2. disk' = mem'[p] /\ pc[p] = "work" /\ pc'[p] = "release" /\ cur' = cur
          /\ \A q \in Proc : q # p => pc'[q] = pc[q]
    BY <1>7 DEF RecordFailure, Save
  <2>3. cur[p] \in Step /\ mem[p][cur[p]] # "ok"
    BY <2>2
  <2>4. \A s \in Step : cur[p] < s => mem[p][s] # "ok"
    BY <2>3
  <2>5. ASSUME NEW q \in Proc, NEW s \in Step, NEW t \in Step, t < s, mem'[q][s] = "ok"
        PROVE  mem'[q][t] = "ok"
    <3>1. mem[q][s] = "ok" => mem[q][t] = "ok"
      BY <2>5
    <3>2. mem[q][s] = "ok" /\ ~(q = p /\ s = cur[p])
      BY <2>1, <2>5
    <3>3. ~(q = p /\ t = cur[p])
      BY <2>3, <2>4, <2>5, <3>2
    <3> QED BY <2>1, <3>1, <3>2, <3>3
  <2>6. ASSUME NEW q \in Proc, pc'[q] \in {"loop", "work"}, NEW s \in Step, s < cur'[q]
        PROVE  mem'[q][s] = "ok"
    <3>1. q # p /\ pc[q] \in {"loop", "work"} /\ s < cur[q]
      BY <2>2, <2>6
    <3> QED BY <2>1, <3>1
  <2> QED BY <2>2, <2>5, <2>6
<1>8. ASSUME NEW p \in Proc, Finish(p) PROVE PrefixInv' /\ CursorInv'
  BY <1>8 DEF Finish, Save
<1>9. ASSUME NEW p \in Proc, Release(p) \/ ReleaseFails(p) \/ Crash(p) PROVE PrefixInv' /\ CursorInv'
  <2>1. UNCHANGED <<cur, mem, disk>> /\ \A q \in Proc : pc'[q] = IF q = p THEN "idle" ELSE pc[q]
    BY <1>9 DEF Release, ReleaseFails, Crash
  <2>2. PrefixInv'
    BY <2>1
  <2>3. \A q \in Proc : pc'[q] \in {"loop", "work"} => pc[q] = pc'[q]
    BY <2>1
  <2>4. CursorInv'
    BY <2>1, <2>3
  <2> QED BY <2>2, <2>4
<1>10. CASE UNCHANGED vars
  BY <1>10 DEF vars
<1> QED
  BY <1>1, <1>2, <1>3, <1>4, <1>5, <1>6, <1>7, <1>8, <1>9, <1>10 DEF Next, Run

LEMMA PrefixInvariant == Spec => [](OverlapInv /\ PrefixInv /\ CursorInv)
<1>1. Init => PrefixInv /\ CursorInv
  BY DEF Init, PrefixInv, CursorInv
<1> QED BY <1>1, OverlapInvariant, PrefixInductive, PTL DEF Spec

\* run.json tells the truth about what was executed and records an initial part
\* of the pipeline, whatever locks are forced and however stale the copies are;
\* and it has one writer until the lock of a process at work is forced.
THEOREM OverlapRecordIsTrue == Spec => []RecordIsTrue
<1>1. OverlapInv /\ PrefixInv => RecordIsTrue
  <2> SUFFICES ASSUME OverlapInv, PrefixInv, NEW s \in Recorded
               PROVE  ran[s] > 0 /\ 1..s \subseteq Recorded
    BY DEF OverlapInv, HolderInv, RecordIsTrue
  <2>1. ASSUME NEW t \in 1..s PROVE t \in Recorded
    BY OverlapConstants DEF Recorded, PrefixInv, Step
  <2> QED BY <2>1 DEF Recorded, OverlapInv, TruthInv
<1> QED BY <1>1, PrefixInvariant, PTL

\* Until the lock of a process at work is forced, the resumes take the item's lock
\* as ItemMutex allows: what RunLock is proved to implement is all they need.
THEOREM ResumesTakeTurns == Spec => TakesTurns
<1>1. Init => Lock!Init
  BY DEF Init
<1>2. OverlapInv /\ [Next]_vars => [broken' \/ Lock!Next]_holder
  <2> SUFFICES ASSUME OverlapInv, [Next]_vars, ~broken' PROVE Lock!Next \/ UNCHANGED holder
    OBVIOUS
  <2> USE DEF Lock!Next
  <2>1. ASSUME NEW p \in Proc, Unlink(p) PROVE Lock!Next \/ UNCHANGED holder
    BY <2>1 DEF Unlink, OverlapInv, TypeInv, TypeOK, Lock!TypeOK, Lock!Break
  <2>2. ASSUME NEW p \in Proc, Release(p) \/ ReleaseFails(p) \/ Crash(p)
        PROVE  Lock!Next \/ UNCHANGED holder
    <3>1. holder = p
      BY <2>2 DEF Release, ReleaseFails, Crash, OverlapInv, HolderInv
    <3> QED BY <2>2, <3>1 DEF Release, ReleaseFails, Crash, Abandon, Lock!Release, Lock!Orphan
  <2>3. ASSUME NEW p \in Proc, Acquire(p) PROVE Lock!Next \/ UNCHANGED holder
    BY <2>3 DEF Acquire
  <2> QED
    BY <2>1, <2>2, <2>3
    DEF Next, Run, vars, Load, GiveUp, Skip, Execute, Record, RecordFailure, Finish
<1> QED BY <1>1, <1>2, OverlapInvariant, PTL DEF Spec, TakesTurns

\* Only a process that loaded run.json before another one saved it executes a
\* recorded step again (orchestrator.py:534), or saves a Run object that does not
\* know of it (core/run.py:219); every other save completes the next step, or
\* none: the fresh resumes of a run implement its promise together.
THEOREM FreshResumesKeepPromise == Spec => PromiseKeptUnlessStale
<1> DEFINE Again == \A p \in Proc : Executes(p) /\ ~stale[p] => disk[cur[p]] # "ok"
           Kept == Recorded' # Recorded => \/ \E s \in Step : Promise!Complete(s)
                                           \/ \E p \in Proc : stale[p] /\ pc'[p] # pc[p]
<1>1. ASSUME OverlapInv, [Next]_vars PROVE Again
  <2> SUFFICES ASSUME NEW p \in Proc, Executes(p), ~stale[p]
               PROVE  disk[cur[p]] # "ok"
    OBVIOUS
  <2>1. Execute(p)
    BY <1>1 DEF Executes, OverlapInv, TypeInv, TypeOK, Next, Run, vars, Goto, Load, GiveUp, Unlink,
      Acquire, Skip, Execute, Record, RecordFailure, Finish, Release,
      ReleaseFails, Crash
  <2>2. mem[p] = disk
    BY <1>1 DEF Executes, OverlapInv, FreshInv
  <2> QED BY <2>1, <2>2 DEF Execute
<1>2. ASSUME OverlapInv, PrefixInv, CursorInv, [Next]_vars PROVE Kept
  <2> SUFFICES ASSUME Recorded' # Recorded, \A p \in Proc : stale[p] => pc'[p] = pc[p]
               PROVE  \E s \in Step : Promise!Complete(s)
    OBVIOUS
  <2>1. disk' # disk
    BY DEF Recorded
  <2>2. PICK p \in Proc : Record(p) \/ RecordFailure(p) \/ Finish(p)
    BY <1>2, <2>1 DEF Next, Run, vars, Load, GiveUp, Unlink, Acquire, Skip, Execute,
       Release, ReleaseFails, Crash
  <2>3. /\ pc \in [Proc -> Point] /\ mem \in [Proc -> [Step -> Status]] /\ disk \in [Step -> Status]
        /\ pc[p] \in {"loop", "work"} /\ pc'[p] # pc[p] /\ disk' = mem'[p]
    BY <1>2, <2>2 DEF OverlapInv, TypeInv, TypeOK, Record, RecordFailure, Finish, Goto, Save
  <2>4. mem[p] = disk
    BY <1>2, <2>3 DEF OverlapInv, FreshInv, TypeInv, TypeOK
  <2> DEFINE s == cur[p]
  <2>5. CASE Record(p)
    <3>1. s \in Step /\ disk[s] # "ok" /\ \A t \in Step : t < s => disk[t] = "ok"
      BY <1>2, <2>4, <2>5 DEF OverlapInv, TypeInv, CursorInv, Record
    <3>2. \A t \in Step : disk'[t] = IF t = s THEN "ok" ELSE disk[t]
      BY <2>3, <2>4, <2>5, <3>1 DEF Record
    <3>3. Recorded' = Recorded \cup {s} /\ s \notin Recorded
      BY <3>1, <3>2 DEF Recorded
    <3>4. \A t \in 1..(s - 1) : t \in Recorded
      BY OverlapConstants, <3>1 DEF Recorded, Step
    <3> QED BY <3>1, <3>3, <3>4 DEF Promise!Complete, Promise!Step, Step
  <2>6. CASE RecordFailure(p)
    <3>1. s \in Step /\ disk[s] # "ok"
      BY <1>2, <2>4, <2>6 DEF OverlapInv, TypeInv, RecordFailure
    <3>2. \A t \in Step : disk'[t] = IF t = s THEN "failed" ELSE disk[t]
      BY <2>3, <2>4, <2>6, <3>1 DEF RecordFailure
    <3> QED BY <3>1, <3>2 DEF Recorded
  <2>7. CASE Finish(p)
    BY <2>1, <2>3, <2>4, <2>7 DEF Finish
  <2> QED BY <2>2, <2>5, <2>6, <2>7
<1>3. OverlapInv /\ PrefixInv /\ CursorInv /\ [Next]_vars => [Again /\ Kept]_vars
  BY <1>1, <1>2
<1> QED BY <1>3, PrefixInvariant, PTL DEF Spec, PromiseKeptUnlessStale
=============================================================================
