--------------------------- MODULE RunLockProofs ---------------------------
(***************************************************************************)
(* Theorems of RunLock for every set of processes and run ids.  What holds *)
(* whatever is forced comes first; mutual exclusion and the refinement of  *)
(* ItemMutex last until the lock of a live process is broken.              *)
(***************************************************************************)
EXTENDS RunLock, TLAPS

\* The content of the file follows its creator: empty until written, then the
\* id its creator owns.
ContentInv ==
  file # NoFile =>
    /\ pc[file.by] \in AtWork => file.run = owned[file.by]
    /\ pc[file.by] \notin AtWork \cup {"dead"} => file.run = NoRun \/ abandoned

\* A process in its critical section owns the id it was called with; before and
\* after it owns nothing.
OwnerInv ==
  \A p \in Proc :
    /\ pc[p] \in AtWork => owned[p] = rid[p] /\ rid[p] # NoRun
    /\ pc[p] \notin AtWork => owned[p] = NoRun

CallInv == \A p \in Proc : pc[p] \in {"unlink", "create", "write"} => rid[p] # NoRun

\* Abandoned is said of the file in place, whose creator relies on it no more.
AbandonedInv == abandoned => file # NoFile /\ ~Holds(file.by)

\* Whom a refused process has met is still at work.
MetInv == \A p \in Proc : \A q \in met[p] : pc[q] \in AtWork

CommonInv == TypeOK /\ ContentInv /\ OwnerInv /\ CallInv /\ AbandonedInv /\ MetInv

\* As long as no live lock was broken, whoever holds the item created the file,
\* and who was refused has read the name of the holder it met.
HoldersOwn == \A p \in Proc : Holds(p) => file # NoFile /\ file.by = p
ReadInv ==
  \A p \in Proc : \A q \in met[p] :
    pc[p] = "judge" /\ p \notin blind => info[p] # NoFile /\ info[p].by = q
ExclusionInv == CommonInv /\ (broken \/ (HoldersOwn /\ ReadInv))

LEMMA FileFields ==
  ASSUME file \in LockFile
  PROVE  /\ file # NoFile
         /\ file.by \in Proc
         /\ file.run \in RunId \cup {NoRun}
BY LockConstants DEF LockFile

LEMMA NewFile ==
  ASSUME NEW p \in Proc
  PROVE  [by |-> p, run |-> NoRun] \in LockFile /\ [by |-> p, run |-> NoRun] # NoFile
BY LockConstants DEF LockFile

LEMMA WrittenFile ==
  ASSUME file \in LockFile, NEW r \in RunId \cup {NoRun}
  PROVE  /\ [file EXCEPT !.run = r] \in LockFile
         /\ [file EXCEPT !.run = r].by = file.by
         /\ [file EXCEPT !.run = r].run = r
         /\ [file EXCEPT !.run = r] # NoFile
BY LockConstants DEF LockFile

LEMMA ContentType ==
  ASSUME TypeOK, file # NoFile, file.run # NoRun
  PROVE  file \in Content
BY DEF TypeOK, LockFile, Content

\* Type correctness: the type invariant of the lock protocol.
THEOREM TypeCorrect == Spec => []TypeOK
<1>1. Init => TypeOK
  BY DEF Init, TypeOK, Point, Verdict, Content
<1>2. TypeOK /\ [Next]_vars => TypeOK'
  <2> SUFFICES ASSUME TypeOK, [Next]_vars PROVE TypeOK'
    OBVIOUS
  <2>0. NoFile \in Content
    BY DEF Content
  <2> USE DEF TypeOK, Point, Verdict, AtWork, Move, Goto, Leave, Forget
  <2>1. CASE UNCHANGED vars
    BY <2>1 DEF vars
  <2>2. ASSUME NEW p \in Proc, NEW r \in RunId, Call(p, r) PROVE TypeOK'
    BY <2>2 DEF Call
  <2>3. ASSUME NEW p \in Proc, Unlink(p) PROVE TypeOK'
    BY <2>3, <2>0 DEF Unlink
  <2>4. ASSUME NEW p \in Proc, Create(p) PROVE TypeOK'
    BY <2>4, NewFile DEF Create
  <2>5. ASSUME NEW p \in Proc, AcquireFails(p) PROVE TypeOK'
    BY <2>5, <2>0 DEF AcquireFails
  <2>6. ASSUME NEW p \in Proc, Refused(p) PROVE TypeOK'
    BY <2>6, <2>0 DEF Refused
  <2>7. ASSUME NEW p \in Proc, ReadHolder(p) PROVE TypeOK'
    BY <2>7, <2>0, ContentType DEF ReadHolder
  <2>8. ASSUME NEW p \in Proc, ReadHolderFails(p) PROVE TypeOK'
    BY <2>8, <2>0 DEF ReadHolderFails
  <2>9. ASSUME NEW p \in Proc, Judge(p) PROVE TypeOK'
    <3>1. \A old \in BOOLEAN : VerdictOn(info[p], old) \in Verdict
      BY DEF VerdictOn
    <3>2. verdict' \in Verdict
      BY <3>1, <2>9 DEF Judge, LockHeld
    <3> QED BY <2>9, <2>0, <3>2 DEF Judge, LockHeld
  <2>10. ASSUME NEW p \in Proc, ProbeFails(p) PROVE TypeOK'
    BY <2>10, <2>0 DEF ProbeFails, LockHeld
  <2>11. ASSUME NEW p \in Proc, Write(p) PROVE TypeOK'
    <3>1. file # NoFile => [file EXCEPT !.run = rid[p]] \in LockFile
      BY DEF LockFile
    <3> QED BY <2>11, <3>1 DEF Write
  <2>12. ASSUME NEW p \in Proc, WriteFails(p) PROVE TypeOK'
    <3>1. file' \in LockFile \cup {NoFile} /\ abandoned' \in BOOLEAN
      <4>1. CASE UNCHANGED <<file, abandoned>>
        BY <4>1
      <4>2. CASE /\ file # NoFile
                 /\ file' = [file EXCEPT !.run = rid[p]]
                 /\ abandoned' = TRUE
        <5>1. file \in LockFile /\ rid[p] \in RunId \cup {NoRun}
          BY <4>2
        <5> QED BY <4>2, <5>1, WrittenFile
      <4> QED BY <2>12, <4>1, <4>2 DEF WriteFails
    <3> QED BY <2>12, <2>0, <3>1 DEF WriteFails
  <2>13. ASSUME NEW p \in Proc, ReadOwner(p) PROVE TypeOK'
    BY <2>13, <2>0 DEF ReadOwner
  <2>14. ASSUME NEW p \in Proc, ReleaseFails(p) PROVE TypeOK'
    BY <2>14, <2>0 DEF ReleaseFails
  <2>15. ASSUME NEW p \in Proc, Remove(p) PROVE TypeOK'
    BY <2>15, <2>0 DEF Remove
  <2>16. ASSUME NEW p \in Proc, Crash(p) PROVE TypeOK'
    BY <2>16, <2>0 DEF Crash
  <2> QED
    BY <2>1, <2>2, <2>3, <2>4, <2>5, <2>6, <2>7, <2>8, <2>9, <2>10, <2>11, <2>12, <2>13, <2>14, <2>15, <2>16
       DEF Next, Step, Fault
<1> QED BY <1>1, <1>2, PTL DEF Spec

LEMMA CommonInductive == CommonInv /\ [Next]_vars /\ TypeOK' => CommonInv'
<1> DEFINE Rest == ContentInv /\ OwnerInv /\ CallInv /\ AbandonedInv /\ MetInv
<1> SUFFICES ASSUME CommonInv, [Next]_vars, TypeOK' PROVE Rest'
  BY DEF CommonInv
<1> USE DEF CommonInv, TypeOK, Move, Goto, Leave, Forget, Point, AtWork, Holds
<1>1. CASE UNCHANGED vars
  BY <1>1 DEF vars, ContentInv, OwnerInv, CallInv, AbandonedInv, MetInv
<1>2. ASSUME NEW p \in Proc, NEW r \in RunId, Call(p, r) PROVE Rest'
  BY <1>2, FileFields, LockConstants DEF Call, ContentInv, OwnerInv, CallInv, AbandonedInv, MetInv
<1>3. ASSUME NEW p \in Proc, Unlink(p) PROVE Rest'
  BY <1>3, LockConstants DEF Unlink, ContentInv, OwnerInv, CallInv, AbandonedInv, MetInv
<1>4. ASSUME NEW p \in Proc, Create(p) PROVE Rest'
  BY <1>4, NewFile DEF Create, ContentInv, OwnerInv, CallInv, AbandonedInv, MetInv
<1>5. ASSUME NEW p \in Proc, AcquireFails(p) PROVE Rest'
  BY <1>5, FileFields DEF AcquireFails, ContentInv, OwnerInv, CallInv, AbandonedInv, MetInv
<1>6. ASSUME NEW p \in Proc, Refused(p) PROVE Rest'
  BY <1>6, FileFields DEF Refused, ContentInv, OwnerInv, CallInv, AbandonedInv, MetInv
<1>7. ASSUME NEW p \in Proc, ReadHolder(p) PROVE Rest'
  BY <1>7, FileFields DEF ReadHolder, ContentInv, OwnerInv, CallInv, AbandonedInv, MetInv
<1>8. ASSUME NEW p \in Proc, ReadHolderFails(p) PROVE Rest'
  BY <1>8, FileFields DEF ReadHolderFails, ContentInv, OwnerInv, CallInv, AbandonedInv, MetInv
<1>9. ASSUME NEW p \in Proc, Judge(p) PROVE Rest'
  BY <1>9, FileFields DEF Judge, LockHeld, ContentInv, OwnerInv, CallInv, AbandonedInv, MetInv
<1>10. ASSUME NEW p \in Proc, ProbeFails(p) PROVE Rest'
  BY <1>10, FileFields DEF ProbeFails, LockHeld, ContentInv, OwnerInv, CallInv, AbandonedInv, MetInv
<1>11. ASSUME NEW p \in Proc, Write(p) PROVE Rest'
  <2>1. OwnerInv' /\ CallInv' /\ MetInv'
    BY <1>11 DEF Write, OwnerInv, CallInv, MetInv
  <2>2. CASE file # NoFile /\ file.by = p
    <3>1. file' = [file EXCEPT !.run = rid[p]]
      BY <1>11, <2>2 DEF Write
    <3>2. file'.by = p /\ file'.run = rid[p]
      BY <3>1, <2>2, FileFields DEF LockFile
    <3> QED BY <1>11, <2>1, <2>2, <3>2 DEF Write, ContentInv, AbandonedInv
  <2>3. CASE ~(file # NoFile /\ file.by = p)
    <3>1. file' = file
      BY <1>11, <2>3 DEF Write
    <3> QED BY <1>11, <2>1, <2>3, <3>1, FileFields DEF Write, ContentInv, AbandonedInv
  <2> QED BY <2>2, <2>3
<1>12. ASSUME NEW p \in Proc, WriteFails(p) PROVE Rest'
  <2>1. OwnerInv' /\ CallInv' /\ MetInv'
    BY <1>12 DEF WriteFails, OwnerInv, CallInv, MetInv
  <2>2. CASE UNCHANGED <<file, abandoned>>
    BY <1>12, <2>1, <2>2, FileFields DEF WriteFails, ContentInv, AbandonedInv
  <2>3. CASE /\ file # NoFile /\ file.by = p
             /\ file' = [file EXCEPT !.run = rid[p]]
             /\ abandoned' = TRUE
    <3>1. file' # NoFile /\ file'.by = p
      BY <2>3, WrittenFile
    <3> QED BY <1>12, <2>1, <2>3, <3>1 DEF WriteFails, ContentInv, AbandonedInv
  <2> QED BY <1>12, <2>2, <2>3 DEF WriteFails
<1>13. ASSUME NEW p \in Proc, ReadOwner(p) PROVE Rest'
  BY <1>13, FileFields DEF ReadOwner, ContentInv, OwnerInv, CallInv, AbandonedInv, MetInv
<1>14. ASSUME NEW p \in Proc, ReleaseFails(p) PROVE Rest'
  <2>1. OwnerInv' /\ CallInv' /\ MetInv'
    BY <1>14 DEF ReleaseFails, OwnerInv, CallInv, MetInv
  <2>2. CASE file # NoFile /\ file.by = p
    BY <1>14, <2>1, <2>2 DEF ReleaseFails, ContentInv, AbandonedInv
  <2>3. CASE file # NoFile /\ file.by # p
    BY <1>14, <2>1, <2>3, FileFields DEF ReleaseFails, ContentInv, AbandonedInv
  <2>4. CASE file = NoFile
    BY <1>14, <2>1, <2>4 DEF ReleaseFails, ContentInv, AbandonedInv
  <2> QED BY <2>1, <2>2, <2>3, <2>4
<1>15. ASSUME NEW p \in Proc, Remove(p) PROVE Rest'
  BY <1>15, FileFields DEF Remove, ContentInv, OwnerInv, CallInv, AbandonedInv, MetInv
<1>16. ASSUME NEW p \in Proc, Crash(p) PROVE Rest'
  BY <1>16, FileFields DEF Crash, ContentInv, OwnerInv, CallInv, AbandonedInv, MetInv
<1> QED
  BY <1>1, <1>2, <1>3, <1>4, <1>5, <1>6, <1>7, <1>8, <1>9, <1>10, <1>11, <1>12, <1>13, <1>14, <1>15, <1>16
     DEF Next, Step, Fault

LEMMA CommonInvariant == Spec => []CommonInv
<1>1. Init => CommonInv
  BY DEF Init, CommonInv, TypeOK, Point, Verdict, Content, AtWork, ContentInv, OwnerInv, CallInv,
         AbandonedInv, MetInv, Holds
<1> QED BY <1>1, CommonInductive, TypeCorrect, PTL DEF Spec

\* A lock file left behind is the trace of a crash, of a failed write or of a
\* release() whose read or unlink failed, whatever was forced.
THEOREM Leftovers == Spec => []LeftoverOnlyByFault
<1>1. CommonInv => LeftoverOnlyByFault
  BY FileFields DEF CommonInv, ContentInv, TypeOK, LeftoverOnlyByFault, Holds, Point, AtWork
<1> QED BY <1>1, CommonInvariant, PTL

-----------------------------------------------------------------------------
(* Until a live lock is broken                                             *)

\* What is broken stays broken.
LEMMA BreakingLasts == [Next]_vars /\ broken => broken'
BY DEF Next, vars, Call, Step, Fault, Unlink, Create, AcquireFails, Refused, ReadHolder, ReadHolderFails, Judge, ProbeFails, Write, WriteFails, ReadOwner, ReleaseFails, Remove, Crash

LEMMA ExclusionInductive == ExclusionInv /\ [Next]_vars /\ CommonInv' => ExclusionInv'
<1> SUFFICES ASSUME CommonInv, HoldersOwn, ReadInv, [Next]_vars, CommonInv', ~broken'
             PROVE  HoldersOwn' /\ ReadInv'
  BY BreakingLasts DEF ExclusionInv
<1> USE DEF HoldersOwn, ReadInv, CommonInv, TypeOK, Move, Goto, Leave, Forget, Holds, AtWork
<1>1. CASE UNCHANGED vars
  BY <1>1 DEF vars
<1>2. ASSUME NEW p \in Proc, NEW r \in RunId, Call(p, r) PROVE HoldersOwn' /\ ReadInv'
  BY <1>2 DEF Call
<1>3. ASSUME NEW p \in Proc, Unlink(p) PROVE HoldersOwn' /\ ReadInv'
  <2>1. \A q \in Proc : ~Holds(q)
    BY <1>3 DEF Unlink
  <2> QED BY <1>3, <2>1 DEF Unlink
<1>4. ASSUME NEW p \in Proc, Create(p) PROVE HoldersOwn' /\ ReadInv'
  <2>1. file' # NoFile /\ file'.by = p
    BY <1>4, NewFile DEF Create
  <2>2. \A q \in Proc : q # p => pc[q] \notin AtWork \cup {"write"}
    BY <1>4 DEF Create
  <2> QED BY <1>4, <2>1, <2>2 DEF Create
<1>5. ASSUME NEW p \in Proc, AcquireFails(p) PROVE HoldersOwn' /\ ReadInv'
  BY <1>5 DEF AcquireFails
<1>6. ASSUME NEW p \in Proc, Refused(p) PROVE HoldersOwn' /\ ReadInv'
  BY <1>6 DEF Refused
<1>7. ASSUME NEW p \in Proc, ReadHolder(p) PROVE HoldersOwn' /\ ReadInv'
  <2>1. HoldersOwn'
    BY <1>7 DEF ReadHolder
  <2>2. ASSUME NEW q \in met'[p] PROVE info'[p] # NoFile /\ info'[p].by = q
    <3>1. q \in Proc /\ pc[q] \in AtWork
      BY <1>7, <2>2 DEF ReadHolder, MetInv
    <3>2. file # NoFile /\ file.by = q /\ file.run # NoRun
      BY <3>1, FileFields DEF ContentInv, OwnerInv
    <3> QED BY <1>7, <3>2 DEF ReadHolder
  <2>3. ReadInv'
    BY <1>7, <2>2 DEF ReadHolder
  <2> QED BY <2>1, <2>3
<1>8. ASSUME NEW p \in Proc, ReadHolderFails(p) PROVE HoldersOwn' /\ ReadInv'
  BY <1>8 DEF ReadHolderFails
<1>9. ASSUME NEW p \in Proc, Judge(p) PROVE HoldersOwn' /\ ReadInv'
  BY <1>9 DEF Judge, LockHeld
<1>10. ASSUME NEW p \in Proc, ProbeFails(p) PROVE HoldersOwn' /\ ReadInv'
  BY <1>10 DEF ProbeFails, LockHeld
<1>11. ASSUME NEW p \in Proc, Write(p) PROVE HoldersOwn' /\ ReadInv'
  <2>1. file # NoFile /\ file.by = p /\ file' = [file EXCEPT !.run = rid[p]]
    BY <1>11 DEF Write
  <2>2. file' # NoFile /\ file'.by = p
    BY <2>1, LockConstants, FileFields DEF LockFile
  <2> QED BY <1>11, <2>1, <2>2 DEF Write
<1>12. ASSUME NEW p \in Proc, WriteFails(p) PROVE HoldersOwn' /\ ReadInv'
  BY <1>12, WrittenFile DEF WriteFails
<1>13. ASSUME NEW p \in Proc, ReadOwner(p) PROVE HoldersOwn' /\ ReadInv'
  BY <1>13 DEF ReadOwner
<1>14. ASSUME NEW p \in Proc, ReleaseFails(p) PROVE HoldersOwn' /\ ReadInv'
  BY <1>14 DEF ReleaseFails
<1>15. ASSUME NEW p \in Proc, Remove(p) PROVE HoldersOwn' /\ ReadInv'
  BY <1>15 DEF Remove
<1>16. ASSUME NEW p \in Proc, Crash(p) PROVE HoldersOwn' /\ ReadInv'
  BY <1>16 DEF Crash
<1> QED
  BY <1>1, <1>2, <1>3, <1>4, <1>5, <1>6, <1>7, <1>8, <1>9, <1>10, <1>11, <1>12, <1>13, <1>14, <1>15, <1>16
     DEF Next, Step, Fault

LEMMA ExclusionInvariant == Spec => []ExclusionInv
<1>1. Init => ExclusionInv
  BY DEF Init, ExclusionInv, HoldersOwn, ReadInv, CommonInv, TypeOK, Point, Verdict, Content, AtWork,
         ContentInv, OwnerInv, CallInv, AbandonedInv, MetInv, Holds
<1> QED BY <1>1, ExclusionInductive, CommonInvariant, PTL DEF Spec

\* Two orchestrator processes never act on one work item at once, for any
\* number of processes and runs, unless --force-lock broke a live lock.
THEOREM Exclusion == Spec => []MutualExclusion
<1>1. ExclusionInv => MutualExclusion
  BY DEF ExclusionInv, HoldersOwn, MutualExclusion
<1> QED BY <1>1, ExclusionInvariant, PTL

\* Unless a live lock was broken, the holder's file is in place, is its own and
\* carries the id release() looks for.
THEOREM RecordedHolder == Spec => []HolderIsRecorded
<1>1. ExclusionInv => HolderIsRecorded
  BY DEF ExclusionInv, HoldersOwn, HolderIsRecorded, Holds, AtWork, CommonInv, ContentInv, OwnerInv,
         AbandonedInv, TypeOK
<1> QED BY <1>1, ExclusionInvariant, PTL

\* LockHeld never calls a holder dead that was at work all along, although other
\* processes move between the refusal, the read and the probe: the read names the
\* holder that was met, and that one lives.
THEOREM VerdictSound == Spec => HolderNotCalledDead
<1>1. ExclusionInv /\ [Next]_vars =>
        [\A p \in Proc :
           Judge(p) /\ verdict' = "dead" => met[p] = {} \/ p \in blind \/ broken]_vars
  <2> SUFFICES ASSUME CommonInv, HoldersOwn, ReadInv,
                      NEW p \in Proc, Judge(p), verdict' = "dead",
                      NEW q \in met[p], p \notin blind
               PROVE  FALSE
    BY DEF ExclusionInv
  <2>1. info[p] # NoFile /\ info[p].by = q
    BY DEF ReadInv, Judge
  <2>2. q \in Proc /\ pc[q] \in AtWork
    BY DEF CommonInv, TypeOK, MetInv
  <2>3. PICK old \in BOOLEAN : verdict' = VerdictOn(info[p], old)
    BY DEF Judge, LockHeld
  <2>4. VerdictOn(info[p], old) # "dead"
    BY <2>1, <2>2 DEF VerdictOn, AtWork
  <2> QED BY <2>3, <2>4
<1> QED BY <1>1, ExclusionInvariant, PTL DEF Spec, HolderNotCalledDead

\* Until a live lock is broken the protocol implements ItemMutex: every step of a
\* process is a step of the mutex or leaves its holder as it is.
THEOREM ImplementsMutex == Spec => MutexSpec
<1> USE DEF HolderOf, Free, Stuck
<1>1. Init => Mutex!Init
  BY DEF Init, Mutex!Init
<1>2. ExclusionInv /\ [Next]_vars => [broken' \/ Mutex!Next]_HolderOf
  <2> SUFFICES ASSUME CommonInv, HoldersOwn, [Next]_vars, ~broken' PROVE [Mutex!Next]_HolderOf
    BY BreakingLasts DEF ExclusionInv
  <2> USE DEF HoldersOwn, CommonInv, TypeOK, Move, Goto, Leave, Forget, Holds, Point, AtWork
  <2>1. CASE UNCHANGED vars
    BY <2>1 DEF vars
  <2>2. ASSUME NEW p \in Proc, NEW r \in RunId, Call(p, r) PROVE UNCHANGED HolderOf
    BY <2>2, FileFields DEF Call
  <2>3. ASSUME NEW p \in Proc, Unlink(p) PROVE Mutex!Break \/ UNCHANGED HolderOf
    BY <2>3, LockConstants, FileFields DEF Unlink, Mutex!Break
  <2>4. ASSUME NEW p \in Proc, Create(p) PROVE Mutex!Acquire(p)
    BY <2>4, NewFile DEF Create, Mutex!Acquire
  <2>5. ASSUME NEW p \in Proc, AcquireFails(p) PROVE UNCHANGED HolderOf
    BY <2>5, FileFields DEF AcquireFails
  <2>6. ASSUME NEW p \in Proc, Refused(p) PROVE UNCHANGED HolderOf
    BY <2>6, FileFields DEF Refused
  <2>7. ASSUME NEW p \in Proc, ReadHolder(p) PROVE UNCHANGED HolderOf
    BY <2>7, FileFields DEF ReadHolder
  <2>8. ASSUME NEW p \in Proc, ReadHolderFails(p) PROVE UNCHANGED HolderOf
    BY <2>8, FileFields DEF ReadHolderFails
  <2>9. ASSUME NEW p \in Proc, Judge(p) PROVE UNCHANGED HolderOf
    BY <2>9, FileFields DEF Judge, LockHeld
  <2>10. ASSUME NEW p \in Proc, ProbeFails(p) PROVE UNCHANGED HolderOf
    BY <2>10, FileFields DEF ProbeFails, LockHeld
  <2>11. ASSUME NEW p \in Proc, Write(p) PROVE UNCHANGED HolderOf
    <3>1. file # NoFile /\ file.by = p /\ file' = [file EXCEPT !.run = rid[p]]
      BY <2>11 DEF Write
    <3>2. file' # NoFile /\ file'.by = p
      BY <3>1, LockConstants, FileFields, <2>11 DEF LockFile
    <3> QED BY <2>11, <3>1, <3>2 DEF Write
  <2>12. ASSUME NEW p \in Proc, WriteFails(p) PROVE Mutex!Orphan(p)
    <3>1. file # NoFile /\ file.by = p /\ pc'[p] = "idle"
      BY <2>12 DEF WriteFails
    <3>2. file' # NoFile /\ file'.by = p
      <4>1. file \in LockFile /\ rid[p] \in RunId \cup {NoRun}
        BY <3>1
      <4> QED BY <2>12, <3>1, <4>1, WrittenFile DEF WriteFails
    <3> QED BY <3>1, <3>2, <2>12, FileFields DEF Mutex!Orphan, WriteFails
  <2>13. ASSUME NEW p \in Proc, ReadOwner(p) PROVE UNCHANGED HolderOf
    BY <2>13, FileFields DEF ReadOwner, ContentInv, OwnerInv
  <2>14. ASSUME NEW p \in Proc, ReleaseFails(p) PROVE Mutex!Orphan(p)
    BY <2>14, FileFields DEF ReleaseFails, Mutex!Orphan
  <2>15. ASSUME NEW p \in Proc, Remove(p) PROVE Mutex!Release(p)
    BY <2>15, FileFields DEF Remove, Mutex!Release
  <2>16. ASSUME NEW p \in Proc, Crash(p) PROVE Mutex!Orphan(p) \/ UNCHANGED HolderOf
    BY <2>16, FileFields DEF Crash, Mutex!Orphan
  <2> QED
    BY <2>1, <2>2, <2>3, <2>4, <2>5, <2>6, <2>7, <2>8, <2>9, <2>10, <2>11, <2>12, <2>13, <2>14, <2>15, <2>16
       DEF Next, Step, Fault, Mutex!Next
<1> QED
  BY <1>1, <1>2, ExclusionInvariant, PTL DEF Spec, MutexSpec, Mutex!Spec
=============================================================================
