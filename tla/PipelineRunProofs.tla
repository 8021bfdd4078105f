------------------------- MODULE PipelineRunProofs -------------------------
(***************************************************************************)
(* Theorems of PipelineRun for every pipeline (any number of steps, any    *)
(* choice of optional, conditional, gated, fan-out and committing steps,   *)
(* any configuration of the gates) and any number of crashes, interrupts   *)
(* and resumes.                                                            *)
(***************************************************************************)
EXTENDS PipelineRun, FiniteSetTheorems, TLAPS

\* Inside a step the cursor is at a step of the pipeline.
TypeInv == TypeOK /\ (pc \in InStep => cur \in Step)

LEMMA Bounds ==
  StepCount \in Nat /\ StepCount >= 1 /\ MaxRounds \in Nat /\ MaxSections \in Nat /\ MaxFaults \in Nat
BY PipelineConstants

LEMMA Statuses ==
  /\ {"received", "blocked", "failed", "done"} \subseteq RunStatus
  /\ StepStatus = {"pending", "ok", "skipped", "blocked", "failed"}
  /\ \A s \in Step : Phase[s] # "keep" => Phase[s] \in RunStatus
BY PipelineConstants DEF RunStatus, RunPhases, StepStatus

LEMMA TypeInvInductive == TypeInv /\ [Next]_vars => TypeInv'
<1> SUFFICES ASSUME TypeInv, [Next]_vars PROVE TypeInv'
  OBVIOUS
<1> USE Bounds, Statuses
    DEF TypeInv, InStep, TypeOK, LoopTypes, RecordTypes, OutsideTypes, Point, MaxDefers, Step, rest
<1>1. CASE Start
  BY <1>1 DEF Start, At, memory, Save, Go, loop, gitKept, files
<1>2. CASE ClaimLost
  BY <1>2 DEF ClaimLost, At, Save, Go, loop, ticket, gitKept, files
<1>3. CASE StartRaises
  BY <1>3 DEF StartRaises, At, Go, loop, memory, disk, git, gitKept, files
<1>4. CASE Resume
  <2>1. pausing' \in BOOLEAN
    BY <1>4, Zenon DEF Resume
  <2> QED BY <1>4, <2>1 DEF Resume, At, Go, disk, ticket, git, gitKept, files
<1>5. CASE SkipComplete
  BY <1>5 DEF SkipComplete, AtStep, At, IsComplete, NextStep, Go, memory, disk, ticket, git,
    gitKept, files
<1>6. CASE SkipWhen
  BY <1>6 DEF SkipWhen, Due, AtStep, At, IsComplete, Mark, Save, NextStep, Go, ticket, gitKept,
    files
<1>7. CASE AwaitHuman
  BY <1>7 DEF AwaitHuman, Due, AtStep, At, IsComplete, StopAs, Mark, Save, Go, loop, ticket,
    gitKept
<1>8. CASE NoSections
  BY <1>8 DEF NoSections, Due, AtStep, At, IsComplete, StopAs, Mark, Save, Go, loop, ticket,
    gitKept, files
<1>9. CASE Begin
  BY <1>9 DEF Begin, Due, AtStep, At, IsComplete, Go, memory, disk, ticket, git, gitKept, files
<1>10. CASE OverBudget
  BY <1>10 DEF OverBudget, At, ExecutorWrites, StopAs, Mark, Save, Go, loop, ticket, gitKept
<1>11. CASE ExecutorFails
  BY <1>11 DEF ExecutorFails, At, ExecutorWrites, StopAs, Mark, Save, Go, loop, ticket, gitKept
<1>12. CASE OptionalFails
  BY <1>12 DEF OptionalFails, At, ExecutorWrites, Mark, Save, NextStep, Go, ticket, gitKept
<1>13. CASE Execute
  <2>1. asked' \in BOOLEAN
    BY <1>13, Zenon DEF Execute
  <2>2. defers' \in 0..(MaxDefers + 1) /\ sections' \in Nat
    BY <1>13 DEF Execute, PlanWrites, ExecutorWrites
  <2> QED BY <1>13, <2>1, <2>2 DEF Execute, At, Go, memory, disk, ticket, git, gitKept
<1>14. CASE LandingFails
  BY <1>14 DEF LandingFails, At, StopAs, Mark, Save, Go, loop, ticket, gitKept, files
<1>15. CASE Commit
  BY <1>15 DEF Commit, At, Go, loop, memory, disk, ticket, gitKept, files
<1>16. CASE AskBlocks
  BY <1>16 DEF AskBlocks, At, Relays, NextRound, Go, loop, disk, ticket, git, gitKept
<1>17. CASE AskFails
  <2>1. pc' = "final" /\ cur' = cur /\ cur \in Step
    BY <1>17 DEF AskFails, At, Go, loop
  <2>2. mRounds' \in 0..(MaxRounds + 1) /\ dRounds' = mRounds'
    BY <1>17 DEF AskFails, NextRound, Save
  <2>3. mStatus' = "failed" /\ dStatus' = mStatus' /\ dSteps' = mSteps'
        /\ mSteps' = [mSteps EXCEPT ![cur] = "failed"]
    BY <1>17 DEF AskFails, Save, Mark
  <2>4. question' \in BOOLEAN /\ unsaved' = 0 /\ saved' = TRUE
    BY <1>17 DEF AskFails, Save
  <2> QED BY <1>17, <2>1, <2>2, <2>3, <2>4 DEF AskFails, loop, ticket, gitKept
<1>18. CASE AskProceeds
  <2>1. mRounds' \in 0..(MaxRounds + 1)
    BY <1>18 DEF AskProceeds, NextRound
  <2>2. question' \in BOOLEAN
    BY <1>18, Zenon DEF AskProceeds
  <2> QED BY <1>18, <2>1, <2>2 DEF AskProceeds, At, Go, loop, disk, ticket, git, gitKept
<1>19. CASE PostQuestion
  BY <1>19 DEF PostQuestion, At, Go, loop, memory, disk, git, gitKept, files
<1>20. CASE Unassign
  BY <1>20 DEF Unassign, At, Go, loop, memory, disk, git, gitKept, files
<1>21. CASE Block
  BY <1>21 DEF Block, At, StopAs, Mark, Save, Go, loop, ticket, gitKept, files
<1>22. CASE SpawnFixer
  <2>1. dropped' \in BOOLEAN
    BY <1>22, Zenon DEF SpawnFixer
  <2>2. defers' \in 0..(MaxDefers + 1) /\ spawned' \in 0..MaxDefers
    BY <1>22 DEF SpawnFixer
  <2> QED BY <1>22, <2>1, <2>2 DEF SpawnFixer, memory, disk, ticket, files
<1>23. CASE SaveSection
  <2>1. pc' \in {"exec", "post"} /\ sec' \in Nat /\ cur \in Step /\ cur' = cur
    BY <1>23 DEF SaveSection, At, Go
  <2>2. UNCHANGED memory /\ dStatus' = mStatus /\ dSteps' = mSteps /\ dRounds' = mRounds
        /\ saved' = TRUE /\ unsaved' = 0
    BY <1>23 DEF SaveSection, Save, memory
  <2>3. asked' = FALSE /\ defers' = 0
    BY <1>23 DEF SaveSection
  <2>4. asked' \in BOOLEAN
    BY <2>3, Zenon
  <2> QED BY <1>23, <2>1, <2>2, <2>3, <2>4 DEF SaveSection, memory, ticket, gitKept, files
<1>24. CASE Post
  BY <1>24 DEF Post, At, Go, loop, memory, disk, ticket, git, gitKept, files
<1>25. CASE Push
  BY <1>25 DEF Push, At, Go, loop, memory, disk, ticket, git, gitKept, files
<1>26. CASE OpenPr
  BY <1>26 DEF OpenPr, At, Go, loop, memory, disk, ticket, files
<1>27. CASE Report
  BY <1>27 DEF Report, At, Go, loop, memory, disk, git, gitKept, files
<1>28. CASE Handover
  BY <1>28 DEF Handover, At, Go, loop, memory, disk, ticket, git, gitKept, files
<1>29. CASE AwaitReview
  BY <1>29 DEF AwaitReview, At, StopAs, Mark, Save, Go, loop, ticket, gitKept
<1>30. CASE Finish
  BY <1>30 DEF Finish, At, Mark, Save, NextStep, Go, ticket, gitKept, files
<1>31. CASE AllSteps
  BY <1>31 DEF AllSteps, At, Go, loop, disk, ticket, git, gitKept, files
<1>32. CASE Final
  BY <1>32 DEF Final, At, memory, Save, Go, loop, ticket, gitKept, files
<1>33. CASE Die
  BY <1>33 DEF Die, Running, Go, loop, memory, disk, ticket, files
<1>34. CASE Interrupt
  BY <1>34 DEF Interrupt, Running, At, memory, Save, Go, loop, ticket, gitKept, files
<1>35. CASE UNCHANGED vars
  BY <1>35 DEF vars, loop, memory, disk, ticket, git, gitKept, files
<1> QED
  BY <1>1, <1>2, <1>3, <1>4, <1>5, <1>6, <1>7, <1>8, <1>9, <1>10, <1>11, <1>12, <1>13,
    <1>14, <1>15, <1>16, <1>17, <1>18, <1>19, <1>20, <1>21, <1>22, <1>23, <1>24, <1>25, <1>26,
    <1>27, <1>28, <1>29, <1>30, <1>31, <1>32, <1>33, <1>34, <1>35 DEF Next, Work

LEMMA TypeInvInit == Init => TypeInv
<1> SUFFICES ASSUME Init PROVE TypeInv
  OBVIOUS
<1>1. /\ asked \in BOOLEAN /\ saved \in BOOLEAN /\ branch \in BOOLEAN /\ question \in BOOLEAN
      /\ assigned \in BOOLEAN /\ pr \in BOOLEAN /\ dropped \in BOOLEAN /\ pausing \in BOOLEAN
  BY Zenon DEF Init
<1>2. LoopTypes /\ (pc \in InStep => cur \in Step)
  BY <1>1, Bounds DEF Init, LoopTypes, InStep, Point, MaxDefers
<1>3. mSteps \in [Step -> StepStatus] /\ dSteps \in [Step -> StepStatus]
  BY Statuses DEF Init
<1>4. RecordTypes
  BY <1>1, <1>3, Bounds, Statuses DEF Init, RecordTypes
<1>5. OutsideTypes
  BY <1>1, Bounds DEF Init, OutsideTypes
<1> QED BY <1>2, <1>4, <1>5 DEF TypeInv, TypeOK

LEMMA TypeInvariant == Spec => []TypeInv
BY TypeInvInit, TypeInvInductive, PTL DEF Spec

\* Type correctness of a run, of its run.json and of what it does outside.
THEOREM RunTypeCorrect == Spec => []TypeOK
BY TypeInvariant, PTL DEF TypeInv
-----------------------------------------------------------------------------
(* What a step does to the record.  Every action of the model has one of    *)
(* these effects on the cursor, the Run object and run.json.                *)

\* The step at the cursor is being executed, or is about to be.
AtWork == pc \in InStep \/ (pc = "loop" /\ cur \in Step /\ ~IsComplete(mSteps, cur))

Saves == dSteps' = mSteps' /\ dStatus' = mStatus'

Stays ==
  /\ AtWork /\ pc' \in InStep
  /\ UNCHANGED <<cur, mSteps, mStatus>>
  /\ UNCHANGED <<dSteps, dStatus>> \/ Saves

Completes ==
  /\ AtWork /\ pc' = "loop" /\ cur' = cur + 1
  /\ \E x \in {"ok", "skipped"} : mSteps' = [mSteps EXCEPT ![cur] = x]
  /\ mStatus' = mStatus \/ mStatus' \in RunPhases
  /\ Saves

PassesOver ==
  /\ AtWork /\ pc' = "loop" /\ cur' = cur + 1 /\ cur \in Optional
  /\ mSteps' = [mSteps EXCEPT ![cur] = "failed"]
  /\ mStatus' = mStatus
  /\ Saves

Stops ==
  /\ AtWork /\ pc' = "final" /\ cur' = cur
  /\ \E x \in {"blocked", "failed"} : mSteps' = [mSteps EXCEPT ![cur] = x]
  /\ mStatus' \in {"blocked", "failed"}
  /\ Saves

StopsForReview ==
  /\ AtWork /\ pc' = "final" /\ cur' = cur
  /\ mSteps' = [mSteps EXCEPT ![cur] = "ok"]
  /\ mStatus' = "blocked"
  /\ Saves

Skips ==
  /\ pc = "loop" /\ pc' = "loop" /\ cur \in Step /\ IsComplete(mSteps, cur) /\ cur' = cur + 1
  /\ UNCHANGED <<mSteps, mStatus, dSteps, dStatus>>

Leaves ==
  /\ Running /\ pc' = "off"
  /\ UNCHANGED <<cur, mSteps, mStatus>>
  /\ UNCHANGED <<dSteps, dStatus>> \/ Saves

Idles == UNCHANGED <<pc, cur, mSteps, mStatus, dSteps, dStatus>>

LEMMA StepKinds ==
  ASSUME TypeInv, [Next]_vars
  PROVE  \/ Stays \/ Completes \/ PassesOver \/ Stops \/ StopsForReview \/ Skips \/ Leaves
         \/ Idles \/ Start \/ ClaimLost \/ StartRaises \/ Resume \/ AllSteps
<1> USE Bounds DEF TypeInv, TypeOK, LoopTypes, Step, InStep
<1>1. CASE SkipComplete
  BY <1>1 DEF SkipComplete, AtStep, At, IsComplete, NextStep, Go, memory, disk, Skips
<1>2. CASE SkipWhen
  BY <1>2 DEF SkipWhen, Due, AtStep, At, IsComplete, Mark, Save, NextStep, Go, Completes,
    AtWork, Saves
<1>3. CASE AwaitHuman
  BY <1>3 DEF AwaitHuman, Due, AtStep, At, IsComplete, StopAs, Mark, Save, Go, loop, Stops,
    AtWork, Saves
<1>4. CASE NoSections
  BY <1>4 DEF NoSections, Due, AtStep, At, IsComplete, StopAs, Mark, Save, Go, loop, Stops,
    AtWork, Saves
<1>5. CASE Begin
  BY <1>5 DEF Begin, Due, AtStep, At, IsComplete, Go, memory, disk, Stays, AtWork, Saves
<1>6. CASE OverBudget
  BY <1>6 DEF OverBudget, At, StopAs, Mark, Save, Go, loop, Stops, AtWork, Saves
<1>7. CASE ExecutorFails
  BY <1>7 DEF ExecutorFails, At, StopAs, Mark, Save, Go, loop, Stops, AtWork, Saves
<1>8. CASE OptionalFails
  BY <1>8 DEF OptionalFails, At, Mark, Save, NextStep, Go, PassesOver, AtWork, Saves
<1>9. CASE Execute
  BY <1>9 DEF Execute, At, Go, memory, disk, Stays, AtWork, Saves
<1>10. CASE LandingFails
  BY <1>10 DEF LandingFails, At, StopAs, Mark, Save, Go, loop, Stops, AtWork, Saves
<1>11. CASE Commit
  BY <1>11 DEF Commit, At, Go, loop, memory, disk, Stays, AtWork, Saves
<1>12. CASE AskBlocks
  BY <1>12 DEF AskBlocks, At, Go, loop, disk, Stays, AtWork, Saves
<1>13. CASE AskFails
  BY <1>13 DEF AskFails, At, Mark, Save, Go, loop, Stops, AtWork, Saves
<1>14. CASE AskProceeds
  BY <1>14 DEF AskProceeds, At, Go, loop, disk, Stays, AtWork, Saves
<1>15. CASE PostQuestion
  BY <1>15 DEF PostQuestion, At, Go, loop, memory, disk, Stays, AtWork, Saves
<1>16. CASE Unassign
  BY <1>16 DEF Unassign, At, Go, loop, memory, disk, Stays, AtWork, Saves
<1>17. CASE Block
  BY <1>17 DEF Block, At, StopAs, Mark, Save, Go, loop, Stops, AtWork, Saves
<1>18. CASE SpawnFixer
  BY <1>18 DEF SpawnFixer, At, memory, disk, Stays, AtWork, Saves
<1>19. CASE SaveSection
  BY <1>19 DEF SaveSection, At, memory, Save, Go, Stays, AtWork, Saves
<1>20. CASE Post
  BY <1>20 DEF Post, At, Go, loop, memory, disk, Stays, AtWork, Saves
<1>21. CASE Push
  BY <1>21 DEF Push, At, Go, loop, memory, disk, Stays, AtWork, Saves
<1>22. CASE OpenPr
  BY <1>22 DEF OpenPr, At, Go, loop, memory, disk, Stays, AtWork, Saves
<1>23. CASE Report
  BY <1>23 DEF Report, At, Go, loop, memory, disk, Stays, AtWork, Saves
<1>24. CASE Handover
  BY <1>24 DEF Handover, At, Go, loop, memory, disk, Stays, AtWork, Saves
<1>25. CASE AwaitReview
  BY <1>25 DEF AwaitReview, At, StopAs, Mark, Save, Go, loop, StopsForReview, AtWork, Saves
<1>26. CASE Finish
  BY <1>26, PipelineConstants DEF Finish, At, Mark, Save, NextStep, Go, Completes, AtWork, Saves
<1>27. CASE Final
  BY <1>27 DEF Final, At, memory, Save, Go, loop, Leaves, Saves, Running
<1>28. CASE Die
  BY <1>28 DEF Die, Running, Go, loop, memory, disk, Leaves, Saves
<1>29. CASE Interrupt
  BY <1>29 DEF Interrupt, Running, At, memory, Save, Go, loop, Leaves, Saves
<1>30. CASE UNCHANGED vars
  BY <1>30 DEF vars, loop, memory, disk, Idles
<1> QED
  BY <1>1, <1>2, <1>3, <1>4, <1>5, <1>6, <1>7, <1>8, <1>9, <1>10, <1>11, <1>12, <1>13,
    <1>14, <1>15, <1>16, <1>17, <1>18, <1>19, <1>20, <1>21, <1>22, <1>23, <1>24, <1>25, <1>26,
    <1>27, <1>28, <1>29, <1>30 DEF Next, Work

-----------------------------------------------------------------------------
(* The inductive invariant                                                 *)

Settled(steps, s) == IsComplete(steps, s) \/ (s \in Optional /\ steps[s] = "failed")

MandatoryComplete(steps) == \A s \in Step \ Optional : IsComplete(steps, s)

\* Before the claim nothing is recorded.
FreshInv ==
  pc = "new" =>
    /\ cur = 1
    /\ mSteps = [s \in Step |-> "pending"] /\ dSteps = mSteps
    /\ mStatus = "received" /\ dStatus = "received"

\* While a process is alive run.json is the Run object, except that DONE is set
\* in memory first.
SyncInv ==
  Running =>
    /\ dSteps = mSteps
    /\ mStatus = dStatus \/ (pc = "final" /\ mStatus = "done")

\* The loop has settled every step before the cursor, and never executes a
\* complete one.
CursorInv ==
  /\ pc \in InStep \cup {"loop"} => \A s \in Step : s < cur => Settled(mSteps, s)
  /\ pc \in InStep => ~IsComplete(mSteps, cur)

DoneInv ==
  /\ Running /\ mStatus = "done" => MandatoryComplete(mSteps)
  /\ dStatus = "done" => MandatoryComplete(dSteps)

RunInv == TypeInv /\ FreshInv /\ SyncInv /\ CursorInv /\ DoneInv

LEMMA RunInvInductive == RunInv /\ [Next]_vars => RunInv'
<1> SUFFICES ASSUME RunInv, [Next]_vars PROVE FreshInv' /\ SyncInv' /\ CursorInv' /\ DoneInv'
  BY TypeInvInductive DEF RunInv
<1> USE Statuses DEF RunInv, TypeInv, TypeOK, LoopTypes, RecordTypes, FreshInv, SyncInv, CursorInv,
    DoneInv, Running, InStep, Settled, MandatoryComplete, IsComplete
<1>0. StepCount \in Nat /\ Step = 1..StepCount /\ cur \in Nat
  BY Bounds DEF Step
<1>1. CASE Stays
  BY <1>0, <1>1 DEF Stays, AtWork, Saves
<1>2. CASE Completes
  <2>1. cur \in Step /\ ~IsComplete(mSteps, cur) /\ pc' = "loop" /\ cur' = cur + 1
    BY <1>2 DEF Completes, AtWork
  <2>2. /\ IsComplete(mSteps', cur)
        /\ \A s \in Step : s # cur => mSteps'[s] = mSteps[s]
    BY <1>2, <2>1 DEF Completes
  <2>3. mStatus' = mStatus \/ mStatus' # "done"
    BY <1>2 DEF Completes, RunPhases
  <2> QED BY <1>0, <1>2, <2>1, <2>2, <2>3 DEF Completes, AtWork, Saves
<1>3. CASE PassesOver
  <2>1. cur \in Step /\ ~IsComplete(mSteps, cur) /\ pc' = "loop" /\ cur' = cur + 1
    BY <1>3 DEF PassesOver, AtWork
  <2>2. /\ mSteps'[cur] = "failed" /\ cur \in Optional
        /\ \A s \in Step : s # cur => mSteps'[s] = mSteps[s]
    BY <1>3, <2>1 DEF PassesOver
  <2> QED BY <1>0, <1>3, <2>1, <2>2 DEF PassesOver, AtWork, Saves
<1>4. CASE Stops
  BY <1>4 DEF Stops, AtWork, Saves
<1>5. CASE StopsForReview
  BY <1>5 DEF StopsForReview, AtWork, Saves
<1>6. CASE Skips
  BY <1>0, <1>6 DEF Skips
<1>7. CASE Leaves
  BY <1>7 DEF Leaves, Saves
<1>8. CASE Idles
  BY <1>8 DEF Idles
<1>9. CASE Start
  <2>1. pc' = "loop" /\ cur' = 1 /\ UNCHANGED <<mSteps, mStatus>> /\ Saves
    BY <1>9 DEF Start, At, Go, Save, memory, loop, Saves
  <2> QED BY <1>0, <1>9, <2>1 DEF Start, At, Saves
<1>10. CASE ClaimLost
  BY <1>10 DEF ClaimLost, At, Go, Save, loop
<1>11. CASE StartRaises
  BY <1>11 DEF StartRaises, At, Go, memory, disk, loop
<1>12. CASE Resume
  BY <1>0, <1>12 DEF Resume, At, Go, disk
<1>13. CASE AllSteps
  BY <1>0, <1>13 DEF AllSteps, At, Go, disk
<1> QED
  BY StepKinds, <1>1, <1>2, <1>3, <1>4, <1>5, <1>6, <1>7, <1>8, <1>9, <1>10, <1>11, <1>12, <1>13

LEMMA RunInvariant == Spec => []RunInv
<1>1. Init => RunInv
  BY TypeInvInit, Statuses, Bounds DEF Init, RunInv, FreshInv, SyncInv,
    CursorInv, DoneInv, Running, InStep
<1> QED BY <1>1, RunInvInductive, PTL DEF Spec

-----------------------------------------------------------------------------
(* Theorems                                                                *)

\* run.json says "done" only when every mandatory step is recorded complete,
\* whatever was crashed, interrupted or resumed.
THEOREM DoneIsComplete == Spec => []DoneMeansComplete
<1>1. RunInv => DoneMeansComplete
  BY DEF RunInv, DoneInv, MandatoryComplete, DoneMeansComplete
<1> QED BY <1>1, RunInvariant, PTL

\* A role is executed only while its own step is not recorded complete and all
\* steps before it are settled in run.json.
THEOREM RecordedInOrder == Spec => []EarlierRecorded
<1>1. RunInv => EarlierRecorded
  BY Bounds DEF RunInv, TypeInv, TypeOK, LoopTypes, SyncInv, CursorInv, Running, InStep, Settled,
     EarlierRecorded, Step
<1> QED BY <1>1, RunInvariant, PTL

LEMMA CompleteStays ==
  ASSUME RunInv, [Next]_vars, NEW s \in Step, IsComplete(dSteps, s)
  PROVE  dSteps'[s] = dSteps[s]
<1> USE DEF RunInv, TypeInv, TypeOK, RecordTypes, SyncInv, FreshInv, CursorInv, Running, InStep,
    IsComplete
<1>1. CASE Stays
  BY <1>1 DEF Stays, AtWork, Saves
<1>2. CASE Completes
  BY <1>2 DEF Completes, AtWork, Saves
<1>3. CASE PassesOver
  BY <1>3 DEF PassesOver, AtWork, Saves
<1>4. CASE Stops
  BY <1>4 DEF Stops, AtWork, Saves
<1>5. CASE StopsForReview
  BY <1>5 DEF StopsForReview, AtWork, Saves
<1>6. CASE Skips \/ Idles \/ StartRaises \/ Resume \/ AllSteps
  BY <1>6 DEF Skips, Idles, StartRaises, Resume, AllSteps, disk
<1>7. CASE Leaves
  BY <1>7 DEF Leaves, Saves
<1>8. CASE Start \/ ClaimLost
  BY <1>8 DEF Start, ClaimLost, At, Save, memory
<1> QED BY StepKinds, <1>1, <1>2, <1>3, <1>4, <1>5, <1>6, <1>7, <1>8

\* A step recorded complete is never executed or overwritten again.
THEOREM CompleteIsFrozen == Spec => FrozenSteps
<1>1. RunInv /\ [Next]_vars => [\A s \in Step : IsComplete(dSteps, s) => dSteps'[s] = dSteps[s]]_dSteps
  BY CompleteStays
<1> QED BY <1>1, RunInvariant, PTL DEF Spec, FrozenSteps

\* run.json keeps the promise of RunPromise: it is all a reader of run.json can
\* observe of the run loop.
THEOREM RunKeepsPromise == Spec => PromiseKept
<1> DEFINE done == {s \in Step : IsComplete(dSteps, s)}
           verdict == Verdict(dStatus)
<1>1. Init => Promise!Init
  BY DEF Init, Promise!Init, IsComplete, Verdict, RunPhases
<1>2. RunInv /\ RunInv' /\ [Next]_vars => [Promise!Next]_<<done, verdict>>
  <2> SUFFICES ASSUME RunInv, RunInv', [Next]_vars
               PROVE  Promise!Next \/ UNCHANGED <<done, verdict>>
    OBVIOUS
  <2> USE DEF RunInv, TypeInv, TypeOK, LoopTypes, RecordTypes, SyncInv, FreshInv, CursorInv,
      Running, InStep
  <2>0. Step = 1..StepCount /\ Promise!Step = Step /\ StepCount \in Nat
    BY Bounds DEF Step, Promise!Step
  <2>1. CASE Stays \/ Leaves
    <3>1. CASE dSteps' = dSteps /\ dStatus' = dStatus
      BY <3>1
    <3>2. CASE ~(dSteps' = dSteps /\ dStatus' = dStatus)
      <4>1. dSteps' = dSteps /\ dStatus' = "done" /\ pc = "final" /\ mStatus = "done"
        BY <2>1, <3>2 DEF Stays, Leaves, Saves, AtWork
      <4>2. Promise!Step \subseteq done \cup Optional
        BY <2>0, <4>1 DEF DoneInv, MandatoryComplete
      <4>3. done' = done /\ verdict' = "done"
        BY <4>1 DEF Verdict, RunPhases
      <4> QED BY <4>2, <4>3 DEF Promise!Next, Promise!Finish
    <3> QED BY <3>1, <3>2
  <2>2. CASE Completes \/ StopsForReview
    <3>1. cur \in Step /\ ~IsComplete(dSteps, cur) /\ dSteps = mSteps /\ mStatus = dStatus
      BY <2>2 DEF Completes, StopsForReview, AtWork
    <3>2. \A t \in 1..(cur - 1) : t \in Step /\ Settled(dSteps, t)
      BY <2>0, <2>2, <3>1, SMTT(30) DEF Completes, StopsForReview, AtWork
    <3>3. IsComplete(dSteps', cur) /\ \A s \in Step : s # cur => dSteps'[s] = dSteps[s]
      BY <2>2, <3>1 DEF Completes, StopsForReview, Saves, IsComplete
    <3>4. done' = done \cup {cur} /\ cur \notin done
      BY <3>1, <3>3 DEF IsComplete
    <3>5. \A t \in 1..(cur - 1) : t \in done \cup Optional
      BY <3>2 DEF Settled
    <3>6. dStatus' = dStatus \/ dStatus' \in RunPhases \/ dStatus' = "blocked"
      BY <2>2, <3>1 DEF Completes, StopsForReview, Saves
    <3>7. verdict' \in {verdict, "open", "blocked"}
      BY <3>6 DEF Verdict
    <3>8. Promise!Complete(cur)
      BY <2>0, <3>1, <3>4, <3>5, <3>7 DEF Promise!Complete
    <3> QED BY <2>0, <3>1, <3>8 DEF Promise!Next
  <2>3. CASE PassesOver
    <3>1. cur \in Step /\ ~IsComplete(dSteps, cur) /\ dSteps = mSteps /\ mStatus = dStatus
      BY <2>3 DEF PassesOver, AtWork
    <3>2. /\ dSteps' = [dSteps EXCEPT ![cur] = "failed"] /\ dStatus' = dStatus
      BY <2>3, <3>1 DEF PassesOver, Saves
    <3>3. \A s \in Step : IsComplete(dSteps', s) <=> IsComplete(dSteps, s)
      BY <3>1, <3>2 DEF IsComplete
    <3>4. done' = done
      BY <3>3
    <3> QED BY <3>2, <3>4
  <2>4. CASE Stops
    <3>1. cur \in Step /\ ~IsComplete(dSteps, cur) /\ dSteps = mSteps
      BY <2>4 DEF Stops, AtWork
    <3>2. \A s \in Step : IsComplete(dSteps', s) <=> IsComplete(dSteps, s)
      BY <2>4, <3>1 DEF Stops, Saves, IsComplete
    <3>3. done' = done
      BY <3>2
    <3>4. verdict' \in {"blocked", "failed"}
      BY <2>4 DEF Stops, Saves, Verdict, RunPhases
    <3> QED BY <3>3, <3>4 DEF Promise!Next, Promise!Stop
  <2>5. CASE Skips \/ Idles \/ StartRaises \/ Resume \/ AllSteps
    BY <2>5 DEF Skips, Idles, StartRaises, Resume, AllSteps, disk
  <2>6. CASE Start
    BY <2>6 DEF Start, At, Save, memory
  <2>7. CASE ClaimLost
    <3>1. dSteps' = dSteps /\ dStatus' = "failed"
      BY <2>7 DEF ClaimLost, At, Save
    <3>2. done' = done /\ verdict' = "failed"
      BY <3>1 DEF Verdict, RunPhases
    <3> QED BY <3>2 DEF Promise!Next, Promise!Stop
  <2> QED BY StepKinds, <2>1, <2>2, <2>3, <2>4, <2>5, <2>6, <2>7
<1> QED BY <1>1, <1>2, RunInvariant, PTL DEF Spec, PromiseKept, Promise!Spec

\* A posted question is counted in memory before, in run.json after it is
\* posted; a process lost in between leaves one question uncounted.
Capped(rounds) == IF rounds <= MaxRounds THEN rounds ELSE MaxRounds
Posting == {"comment", "unassign", "block"}
AsksInv ==
  /\ pc \in Posting => dRounds < mRounds /\ mRounds <= MaxRounds
  /\ pc # "off" => dRounds <= mRounds
  /\ asks <= Capped(dRounds) + faults + (IF pc \in {"unassign", "block"} THEN 1 ELSE 0)

LEMMA AsksInductive == TypeInv /\ AsksInv /\ [Next]_vars => AsksInv'
<1> SUFFICES ASSUME TypeInv, AsksInv, [Next]_vars PROVE AsksInv'
  OBVIOUS
<1> USE DEF rest
<1> DEFINE Counted == /\ pc \notin Posting /\ pc' \notin Posting
                      /\ UNCHANGED <<asks, mRounds, faults>>
                      /\ dRounds' = dRounds \/ dRounds' = mRounds
                      /\ pc # "off"
<1>0. /\ MaxRounds \in Nat /\ asks \in Nat /\ faults \in Nat
      /\ mRounds \in Nat /\ dRounds \in Nat
  BY Bounds DEF TypeInv, TypeOK, RecordTypes, OutsideTypes
<1>1. Counted => AsksInv'
  BY <1>0 DEF AsksInv, Capped, Posting
<1>2. CASE Start \/ ClaimLost \/ StartRaises
  <2>1. Counted
    BY <1>2 DEF Start, At, memory, Save, Go, ClaimLost, ticket, StartRaises, disk, Posting
  <2> QED BY <1>1, <2>1
<1>3. CASE SkipComplete \/ SkipWhen \/ AwaitHuman \/ NoSections \/ Begin
  <2>1. Counted
    BY <1>3 DEF SkipComplete, AtStep, At, NextStep, Go, memory, disk, ticket, SkipWhen, Due,
      Mark, Save, AwaitHuman, StopAs, NoSections, Begin, Posting
  <2> QED BY <1>1, <2>1
<1>4. CASE OverBudget \/ ExecutorFails \/ OptionalFails \/ Execute \/ LandingFails \/ Commit
  <2>1. Counted
    BY <1>4 DEF OverBudget, At, StopAs, Mark, Save, Go, ticket, ExecutorFails, OptionalFails,
      NextStep, Execute, memory, disk, LandingFails, Commit, Posting
  <2> QED BY <1>1, <2>1
<1>5. CASE SpawnFixer \/ SaveSection \/ Post \/ Push \/ OpenPr \/ Report
  <2>1. Counted
    BY <1>5 DEF SpawnFixer, At, memory, disk, ticket, SaveSection, Save, Go, Post, Push, OpenPr,
      Report, Posting
  <2> QED BY <1>1, <2>1
<1>6. CASE Handover \/ AwaitReview \/ Finish \/ AllSteps \/ Final
  <2>1. Counted
    BY <1>6 DEF Handover, At, Go, memory, disk, ticket, AwaitReview, StopAs, Mark, Save, Finish,
      NextStep, AllSteps, Final, Posting
  <2> QED BY <1>1, <2>1
<1>7. CASE AskBlocks
  BY <1>0, <1>7 DEF AskBlocks, At, Relays, NextRound, Go, disk, ticket, AsksInv, Capped, Posting
<1>8. CASE AskFails
  BY <1>0, <1>8 DEF AskFails, At, Relays, NextRound, Mark, Save, Go, ticket, AsksInv, Capped,
    Posting
<1>9. CASE AskProceeds
  BY <1>0, <1>9 DEF AskProceeds, At, Relays, NextRound, Go, disk, ticket, AsksInv, Capped,
    Posting
<1>10. CASE PostQuestion
  BY <1>0, <1>10 DEF PostQuestion, At, Go, memory, disk, AsksInv, Capped, Posting
<1>11. CASE Unassign
  BY <1>0, <1>11 DEF Unassign, At, Go, memory, disk, AsksInv, Capped, Posting
<1>12. CASE Block
  BY <1>0, <1>12 DEF Block, At, StopAs, Mark, Save, Go, ticket, AsksInv, Capped, Posting
<1>13. CASE Die
  BY <1>0, <1>13 DEF Die, Running, Go, memory, disk, ticket, AsksInv, Capped, Posting
<1>14. CASE Interrupt
  BY <1>0, <1>14 DEF Interrupt, Running, At, memory, Save, Go, ticket, AsksInv, Capped, Posting
<1>15. CASE Resume
  BY <1>0, <1>15 DEF Resume, At, Go, disk, ticket, AsksInv, Capped, Posting
<1>16. CASE UNCHANGED vars
  BY <1>16 DEF vars, memory, disk, ticket, AsksInv, Capped, Posting
<1> QED
  BY <1>1, <1>2, <1>3, <1>4, <1>5, <1>6, <1>7, <1>8, <1>9, <1>10, <1>11, <1>12, <1>13,
    <1>14, <1>15, <1>16 DEF Next, Work

\* The bot puts at most max_clarify_rounds questions on the ticket, and one more
\* for each crash or interrupt, whatever the executors ask.
THEOREM QuestionsBounded == Spec => []AsksBounded
<1>1. Init => AsksInv
  BY Bounds DEF Init, AsksInv, Capped, Posting
<1>2. TypeInv /\ AsksInv => AsksBounded
  <2> SUFFICES ASSUME TypeInv, AsksInv PROVE AsksBounded
    OBVIOUS
  <2>1. MaxRounds \in Nat /\ asks \in Nat /\ faults \in Nat /\ mRounds \in Nat /\ dRounds \in Nat
    BY Bounds DEF TypeInv, TypeOK, RecordTypes, OutsideTypes
  <2> QED BY <2>1 DEF AsksInv, AsksBounded, Capped, Posting
<1> QED BY <1>1, <1>2, AsksInductive, TypeInvariant, PTL DEF Spec

\* A commit's sha is in memory only between the commit and the save that ends
\* the iteration (or the run), and there is one at most.
Unsaved == {"ask", "comment", "unassign", "block", "defer"}
CommitsInv ==
  /\ dropped => SpawnFixers
  /\ orphans <= faults
  /\ unsaved \in {0, 1} /\ (unsaved = 1 => pc \in Unsaved)

LEMMA CommitsInductive == TypeInv /\ CommitsInv /\ [Next]_vars => CommitsInv'
<1> SUFFICES ASSUME TypeInv, CommitsInv, [Next]_vars PROVE CommitsInv'
  OBVIOUS
<1> USE DEF rest, SpawnFixers
<1> DEFINE Keeps == /\ UNCHANGED <<orphans, dropped, faults, setting>>
                    /\ unsaved' = 0 \/ (unsaved' = unsaved /\ (pc \in Unsaved => pc' \in Unsaved))
<1>0. orphans \in Nat /\ faults \in Nat
  BY Bounds DEF TypeInv, TypeOK, OutsideTypes
<1>1. Keeps => CommitsInv'
  BY DEF CommitsInv
<1>2. CASE Start \/ ClaimLost \/ StartRaises \/ Resume
  <2>1. Keeps
    BY <1>2 DEF Start, At, Save, Go, gitKept, ClaimLost, StartRaises, git, Resume, Unsaved
  <2> QED BY <1>1, <2>1
<1>3. CASE SkipComplete \/ SkipWhen \/ AwaitHuman \/ NoSections \/ Begin
  <2>1. Keeps
    BY <1>3 DEF SkipComplete, AtStep, At, NextStep, Go, git, gitKept, SkipWhen, Due, Mark, Save,
      AwaitHuman, StopAs, NoSections, Begin, Unsaved
  <2> QED BY <1>1, <2>1
<1>4. CASE OverBudget \/ ExecutorFails \/ OptionalFails \/ Execute \/ LandingFails
  <2>1. Keeps
    BY <1>4 DEF OverBudget, At, StopAs, Mark, Save, Go, gitKept, ExecutorFails, OptionalFails,
      NextStep, Execute, git, LandingFails, Unsaved
  <2> QED BY <1>1, <2>1
<1>5. CASE AskBlocks \/ AskFails \/ AskProceeds \/ PostQuestion \/ Unassign \/ Block
  <2>1. Keeps
    BY <1>5 DEF AskBlocks, At, Go, git, gitKept, AskFails, Mark, Save, AskProceeds,
      PostQuestion, Unassign, Block, StopAs, Unsaved
  <2> QED BY <1>1, <2>1
<1>6. CASE SaveSection \/ Post \/ Push \/ OpenPr \/ Report \/ Handover
  <2>1. Keeps
    BY <1>6 DEF SaveSection, At, Save, Go, gitKept, Post, git, Push, OpenPr, Report, Handover,
      Unsaved
  <2> QED BY <1>1, <2>1
<1>7. CASE AwaitReview \/ Finish \/ AllSteps \/ Final
  <2>1. Keeps
    BY <1>7 DEF AwaitReview, At, StopAs, Mark, Save, Go, gitKept, Finish, NextStep, AllSteps,
      git, Final, Unsaved
  <2> QED BY <1>1, <2>1
<1>8. CASE Commit
  BY <1>8 DEF Commit, At, Go, gitKept, CommitsInv, Unsaved
<1>9. CASE SpawnFixer
  BY <1>9 DEF SpawnFixer, CommitsInv, At, Unsaved
<1>10. CASE Die
  BY <1>0, <1>10 DEF Die, CommitsInv
<1>11. CASE Interrupt
  BY <1>0, <1>11 DEF Interrupt, Save, gitKept, CommitsInv
<1>12. CASE UNCHANGED vars
  BY <1>1, <1>12 DEF vars, git, gitKept
<1> QED
  BY <1>1, <1>2, <1>3, <1>4, <1>5, <1>6, <1>7, <1>8, <1>9, <1>10, <1>11, <1>12 DEF Next, Work

\* Every commit a step makes is named in run.json when nothing is running, except
\* one for each crash; what is in no record at all is a fixer's commit.
THEOREM CommitsAreRecorded == Spec => []CommitsRecorded
<1>1. Init => CommitsInv
  BY Bounds DEF Init, CommitsInv
<1>2. CommitsInv => CommitsRecorded
  BY DEF CommitsInv, CommitsRecorded, Unsaved
<1> QED BY <1>1, <1>2, CommitsInductive, TypeInvariant, PTL DEF Spec

-----------------------------------------------------------------------------
(* The reporter: final comments, pull requests, gates.                     *)

\* From the push on, the step being executed is a reporter's.
Publishing == {"push", "open_pr", "report", "handover", "review"}
PublishInv == pc \in Publishing => cur \in Reporter

\* The final comment is out and the reporter is not recorded yet.
Owed == pc \in {"handover", "review"} \/ (pc = "finish" /\ cur \in Reporter)
Reported == {s \in Reporter : IsComplete(dSteps, s)}
ReportsInv ==
  PublishInv /\ reports <= Cardinality(Reported) + faults + (IF Owed THEN 1 ELSE 0)

LEMMA ReportedFinite ==
  /\ IsFiniteSet(Reporter) /\ IsFiniteSet(Reported)
  /\ Cardinality(Reporter) \in Nat /\ Cardinality(Reported) \in Nat
  /\ Cardinality(Reported) <= Cardinality(Reporter)
<1>1. IsFiniteSet(1..StepCount)
  BY Bounds, FS_Interval
<1>2. Reporter \subseteq 1..StepCount /\ Reported \subseteq Reporter
  BY PipelineConstants DEF Step, Reported
<1>3. IsFiniteSet(Reporter)
  BY <1>1, <1>2, FS_Subset
<1> QED BY <1>2, <1>3, FS_Subset, FS_CardinalityType

\* No reporter's record is lost, and recording one counts it.
LEMMA ReportedGrows ==
  ASSUME RunInv, [Next]_vars
  PROVE  /\ Cardinality(Reported') \in Nat /\ Cardinality(Reported) \in Nat
         /\ Cardinality(Reported) <= Cardinality(Reported')
         /\ \A s \in Reporter : ~IsComplete(dSteps, s) /\ IsComplete(dSteps', s)
                              => Cardinality(Reported) + 1 <= Cardinality(Reported')
<1>1. Reported' \subseteq Reporter /\ Reported \subseteq Reported'
  BY CompleteStays, PipelineConstants DEF Reported, IsComplete
<1>2. IsFiniteSet(Reported') /\ IsFiniteSet(Reported)
  BY <1>1, ReportedFinite, FS_Subset
<1>3. ASSUME NEW s \in Reporter, ~IsComplete(dSteps, s), IsComplete(dSteps', s)
      PROVE  Cardinality(Reported) + 1 <= Cardinality(Reported')
  <2>1. s \notin Reported /\ Reported \cup {s} \subseteq Reported'
    BY <1>1, <1>3 DEF Reported
  <2>2. Cardinality(Reported \cup {s}) = Cardinality(Reported) + 1
    BY <1>2, <2>1, FS_AddElement
  <2>3. Cardinality(Reported \cup {s}) <= Cardinality(Reported')
    BY <1>2, <2>1, FS_Subset
  <2> QED BY <2>2, <2>3
<1> QED BY <1>1, <1>2, <1>3, FS_Subset, FS_CardinalityType

LEMMA ReportsInductive == RunInv /\ ReportsInv /\ [Next]_vars => ReportsInv'
<1> SUFFICES ASSUME RunInv, ReportsInv, [Next]_vars PROVE ReportsInv'
  OBVIOUS
<1> DEFINE Quiet == /\ ~Owed /\ pc' \notin Publishing \cup {"finish"}
                    /\ reports' = reports /\ faults' = faults
<1>0. /\ reports \in Nat /\ faults \in Nat
      /\ Cardinality(Reported') \in Nat /\ Cardinality(Reported) \in Nat
      /\ Cardinality(Reported) <= Cardinality(Reported')
  BY ReportedGrows DEF RunInv, TypeInv, TypeOK, OutsideTypes
<1>1. Quiet => ReportsInv'
  BY <1>0 DEF ReportsInv, PublishInv, Owed, Publishing
<1> USE DEF rest, At, Go
<1>2. CASE Start \/ ClaimLost \/ StartRaises \/ Resume
  <2>1. Quiet
    BY <1>2 DEF Start, ClaimLost, StartRaises, Resume, ticket, Owed, Publishing
  <2> QED BY <1>1, <2>1
<1>3. CASE SkipComplete \/ SkipWhen \/ AwaitHuman \/ NoSections \/ Begin
  <2>1. Quiet
    BY <1>3 DEF SkipComplete, AtStep, NextStep, ticket, SkipWhen, Due, AwaitHuman, StopAs, NoSections,
       Begin, Owed, Publishing
  <2> QED BY <1>1, <2>1
<1>4. CASE OverBudget \/ ExecutorFails \/ OptionalFails \/ Execute \/ LandingFails \/ Commit
  <2>1. Quiet
    BY <1>4 DEF OverBudget, StopAs, ticket, ExecutorFails, OptionalFails, NextStep, Execute, LandingFails,
       Commit, Owed, Publishing
  <2> QED BY <1>1, <2>1
<1>5. CASE AskBlocks \/ AskFails \/ AskProceeds \/ PostQuestion \/ Unassign \/ Block
  <2>1. Quiet
    BY <1>5 DEF AskBlocks, ticket, AskFails, AskProceeds, PostQuestion, Unassign, Block, StopAs, Owed,
       Publishing
  <2> QED BY <1>1, <2>1
<1>6. CASE SpawnFixer \/ SaveSection \/ AllSteps \/ Final
  <2>1. Quiet
    BY <1>6 DEF SpawnFixer, ticket, SaveSection, AllSteps, Final, Owed, Publishing
  <2> QED BY <1>1, <2>1
<1>7. CASE Post \/ Push \/ OpenPr
  <2>1. /\ ~Owed /\ ~Owed' /\ PublishInv' /\ reports' = reports /\ faults' = faults
    BY <1>7 DEF Post, Push, OpenPr, ticket, loop, ReportsInv, PublishInv, Owed, Publishing
  <2> QED BY <1>0, <2>1 DEF ReportsInv
<1>8. CASE Report
  <2>1. ~Owed /\ Owed' /\ PublishInv' /\ reports' = reports + 1 /\ faults' = faults
    BY <1>8 DEF Report, loop, ReportsInv, PublishInv, Owed, Publishing
  <2> QED BY <1>0, <2>1 DEF ReportsInv
<1>9. CASE Handover
  <2>1. Owed /\ Owed' /\ PublishInv' /\ reports' = reports /\ faults' = faults
    BY <1>9 DEF Handover, ticket, loop, ReportsInv, PublishInv, Owed, Publishing
  <2> QED BY <1>0, <2>1 DEF ReportsInv
<1>10. CASE AwaitReview \/ Finish
  <2>1. /\ ~Owed' /\ PublishInv' /\ reports' = reports /\ faults' = faults
    BY <1>10 DEF AwaitReview, StopAs, Finish, NextStep, ticket, PublishInv, Owed, Publishing
  <2>2. CASE Owed
    <3>1. cur \in Reporter /\ cur \in Step
      BY <2>2, PipelineConstants DEF Owed, ReportsInv, PublishInv, Publishing
    <3>2. ~IsComplete(dSteps, cur) /\ dSteps \in [Step -> StepStatus] /\ dSteps = mSteps
      BY <1>10, Zenon DEF AwaitReview, Finish, RunInv, SyncInv, CursorInv, InStep, Running,
         TypeInv, TypeOK, RecordTypes
    <3>3. dSteps' = [mSteps EXCEPT ![cur] = "ok"]
      BY <1>10 DEF AwaitReview, StopAs, Finish, Mark, Save
    <3>4. IsComplete(dSteps', cur)
      BY <3>1, <3>2, <3>3 DEF IsComplete
    <3>5. Cardinality(Reported) + 1 <= Cardinality(Reported')
      BY <3>1, <3>2, <3>4, ReportedGrows
    <3> QED BY <1>0, <2>1, <2>2, <3>5 DEF ReportsInv
  <2>3. CASE ~Owed
    BY <1>0, <2>1, <2>3 DEF ReportsInv
  <2> QED BY <2>2, <2>3
<1>11. CASE Die \/ Interrupt
  <2>1. ~Owed' /\ PublishInv' /\ reports' = reports /\ faults' = faults + 1
    BY <1>11 DEF Die, Interrupt, ticket, PublishInv, Owed, Publishing
  <2> QED BY <1>0, <2>1 DEF ReportsInv
<1>12. CASE UNCHANGED vars
  BY <1>12 DEF vars, loop, disk, ticket, ReportsInv, PublishInv, Owed, Reported, IsComplete
<1> QED
  BY <1>2, <1>3, <1>4, <1>5, <1>6, <1>7, <1>8, <1>9, <1>10, <1>11, <1>12 DEF Next, Work

LEMMA ReportsInvariant == Spec => [](RunInv /\ ReportsInv)
<1>1. Init => ReportsInv
  <2> SUFFICES ASSUME Init PROVE ReportsInv
    OBVIOUS
  <2>1. reports = 0 /\ faults = 0 /\ pc = "new"
    BY DEF Init
  <2> QED BY <2>1, ReportedFinite DEF ReportsInv, PublishInv, Owed, Publishing
<1> QED BY <1>1, ReportsInductive, RunInvariant, PTL DEF Spec

\* The final comment is posted once for every reporter of the pipeline, and once
\* more for each crash or interrupt before its step is recorded.
THEOREM FinalCommentsBounded == Spec => []ReportsBounded
<1>1. RunInv /\ ReportsInv => ReportsBounded
  <2> SUFFICES ASSUME RunInv, ReportsInv PROVE ReportsBounded
    OBVIOUS
  <2>0. reports \in Nat /\ faults \in Nat
    BY DEF RunInv, TypeInv, TypeOK, OutsideTypes
  <2>1. CASE Owed
    <3>1. cur \in Reporter /\ cur \notin Reported
      BY <2>1, Zenon DEF Owed, ReportsInv, PublishInv, Publishing, Reported, RunInv, SyncInv, CursorInv,
         Running, InStep
    <3>2. Cardinality(Reported \cup {cur}) = Cardinality(Reported) + 1
      BY <3>1, ReportedFinite, FS_AddElement
    <3>3. Cardinality(Reported \cup {cur}) <= Cardinality(Reporter)
      BY <3>1, ReportedFinite, FS_Subset DEF Reported
    <3> QED BY <2>0, <2>1, <3>2, <3>3, ReportedFinite DEF ReportsInv, ReportsBounded
  <2>2. CASE ~Owed
    BY <2>0, <2>2, ReportedFinite DEF ReportsInv, ReportsBounded
  <2> QED BY <2>1, <2>2
<1> QED BY <1>1, ReportsInvariant, PTL

-----------------------------------------------------------------------------
(* The gates for a human.                                                  *)

\* Nothing from a gate on is recorded, the loop does not get past one, and a
\* pull request is the work of a reporter before every gate.
Before(s) == \A g \in Gates : s < g
GateInv ==
  /\ \A g \in Gates : \A s \in g..StepCount : dSteps[s] \in {"pending", "blocked"}
  /\ pc \in InStep => cur \notin Gates
  /\ pr => \E s \in Reporter : Before(s)

\* Only a step that is no gate gets past the gates' place in the loop.
LEMMA WhatIsMarked ==
  ASSUME RunInv, GateInv, [Next]_vars
  PROVE  \/ dSteps' = dSteps
         \/ /\ pc \in InStep \cup {"loop"} /\ cur \in Step /\ ~IsComplete(mSteps, cur) /\ mSteps = dSteps
            /\ \E x \in StepStatus :
                 dSteps' = [dSteps EXCEPT ![cur] = x] /\ (x = "blocked" \/ cur \notin Gates)
<1> USE Statuses DEF RunInv, TypeInv, TypeOK, LoopTypes, RecordTypes, SyncInv, Running, At, Go, Mark, Save
<1>0. StepCount \in Nat /\ Step = 1..StepCount
  BY Bounds DEF Step
<1>1. CASE SkipWhen
  <2>1. dSteps = mSteps /\ cur \in Step /\ ~IsComplete(mSteps, cur)
    BY <1>0, <1>1 DEF SkipWhen, Due, AtStep
  <2>2. dSteps' = [dSteps EXCEPT ![cur] = "skipped"]
    BY <1>1, <2>1 DEF SkipWhen
  <2> QED BY <1>1, <2>1, <2>2 DEF SkipWhen, Due, AtStep, Gates
<1>2. CASE AwaitHuman \/ NoSections
  <2>1. dSteps = mSteps /\ cur \in Step /\ ~IsComplete(mSteps, cur) /\ pc = "loop"
    BY <1>0, <1>2 DEF AwaitHuman, NoSections, Due, AtStep
  <2>2. \E x \in {"blocked", "failed"} :
           dSteps' = [dSteps EXCEPT ![cur] = x] /\ (x = "blocked" \/ cur \notin Gated)
    BY <1>2, <2>1 DEF AwaitHuman, NoSections, StopAs
  <2> QED BY <2>1, <2>2 DEF Gates
<1>3. CASE OverBudget \/ ExecutorFails \/ OptionalFails \/ LandingFails \/ AskFails \/ Block
           \/ AwaitReview \/ Finish
  <2>1. pc \in InStep
    BY <1>3 DEF OverBudget, ExecutorFails, OptionalFails, LandingFails, AskFails, Block, AwaitReview, Finish,
       InStep
  <2>2. dSteps = mSteps /\ cur \in Step /\ cur \notin Gates /\ ~IsComplete(mSteps, cur)
    BY <2>1, Zenon DEF GateInv, CursorInv, InStep
  <2>3. \E x \in StepStatus : dSteps' = [dSteps EXCEPT ![cur] = x]
    BY <1>3, <2>2 DEF OverBudget, ExecutorFails, OptionalFails, LandingFails, AskFails, Block, AwaitReview,
       Finish, StopAs
  <2> QED BY <2>1, <2>2, <2>3
<1>4. CASE SaveSection \/ Final \/ Interrupt \/ Start \/ ClaimLost
  BY <1>4 DEF SaveSection, Final, Interrupt, Start, ClaimLost, memory, FreshInv
<1>5. CASE StartRaises \/ Resume \/ SkipComplete \/ Begin \/ Execute \/ Commit \/ AskBlocks
  BY <1>5 DEF StartRaises, Resume, SkipComplete, Begin, Execute, Commit, AskBlocks, disk
<1>6. CASE AskProceeds \/ PostQuestion \/ Unassign \/ SpawnFixer \/ Post \/ Push \/ OpenPr \/ Report
  BY <1>6 DEF AskProceeds, PostQuestion, Unassign, SpawnFixer, Post, Push, OpenPr, Report, disk
<1>7. CASE Handover \/ AllSteps \/ Die \/ UNCHANGED vars
  BY <1>7 DEF Handover, AllSteps, Die, disk, vars
<1> QED BY <1>1, <1>2, <1>3, <1>4, <1>5, <1>6, <1>7 DEF Next, Work

\* A resume may lift --pause-at; nothing adds a gate.
LEMMA GatesShrink == ASSUME TypeInv, [Next]_vars PROVE Gates' \subseteq Gates
<1>1. setting' = setting /\ (pausing' = pausing \/ pausing' = FALSE)
  BY DEF Next, Work, vars, rest, Start, ClaimLost, StartRaises, Resume, SkipComplete, SkipWhen, AwaitHuman,
     NoSections, Begin, OverBudget, ExecutorFails, OptionalFails, Execute, LandingFails, Commit, AskBlocks,
     AskFails, AskProceeds, PostQuestion, Unassign, Block, SpawnFixer, SaveSection, Post, Push, OpenPr,
     Report, Handover, AwaitReview, Finish, AllSteps, Final, Die, Interrupt
<1> QED BY <1>1 DEF Gates, Gated

LEMMA GateInductive == RunInv /\ PublishInv /\ GateInv /\ [Next]_vars => GateInv'
<1> SUFFICES ASSUME RunInv, PublishInv, GateInv, [Next]_vars PROVE GateInv'
  OBVIOUS
<1>0. /\ StepCount \in Nat /\ Step = 1..StepCount /\ Gates' \subseteq Gates /\ Gates \subseteq Step
      /\ dSteps \in [Step -> StepStatus] /\ cur \in Nat
  <2>1. Gates \subseteq Step
    BY PipelineConstants DEF Gates, Gated, RunInv, TypeInv, TypeOK, OutsideTypes, Setting
  <2> QED BY <2>1, Bounds, GatesShrink DEF Step, RunInv, TypeInv, TypeOK, RecordTypes, LoopTypes
<1>1. pc \in InStep \cup {"loop"} /\ mSteps = dSteps => \A g \in Gates : cur <= g
  <2> SUFFICES ASSUME pc \in InStep \cup {"loop"}, mSteps = dSteps, NEW g \in Gates, g < cur PROVE FALSE
    BY <1>0
  <2>1. Settled(dSteps, g)
    BY <1>0 DEF RunInv, CursorInv
  <2>2. dSteps[g] \in {"pending", "blocked"}
    BY <1>0 DEF GateInv
  <2> QED BY <2>1, <2>2 DEF Settled, IsComplete
<1>2. \A g \in Gates' : \A s \in g..StepCount : dSteps'[s] \in {"pending", "blocked"}
  <2> SUFFICES ASSUME NEW g \in Gates', NEW s \in g..StepCount PROVE dSteps'[s] \in {"pending", "blocked"}
    OBVIOUS
  <2>1. g \in Gates /\ s \in Step /\ dSteps[s] \in {"pending", "blocked"}
    BY <1>0 DEF GateInv
  <2>2. CASE dSteps' = dSteps
    BY <2>1, <2>2
  <2>3. CASE dSteps' # dSteps
    <3>1. PICK x \in StepStatus :
            /\ pc \in InStep \cup {"loop"} /\ cur \in Step /\ mSteps = dSteps
            /\ dSteps' = [dSteps EXCEPT ![cur] = x] /\ (x = "blocked" \/ cur \notin Gates)
      BY <2>3, WhatIsMarked
    <3>2. CASE s = cur
      <4>1. cur = g
        BY <1>0, <1>1, <2>1, <3>1, <3>2
      <4> QED BY <1>0, <2>1, <3>1, <3>2, <4>1
    <3>3. CASE s # cur
      BY <1>0, <2>1, <3>1, <3>3
    <3> QED BY <3>2, <3>3
  <2> QED BY <2>2, <2>3
<1>3. pc' \in InStep => cur' \notin Gates'
  <2>1. CASE Begin
    BY <1>0, <2>1 DEF Begin, Gates
  <2>2. CASE ~Begin
    <3>1. pc' \in InStep => pc \in InStep /\ cur' = cur
      BY <2>2 DEF Next, Work, vars, InStep, At, Go, NextStep, StopAs, loop,
         Start, ClaimLost, StartRaises, Resume, SkipComplete, SkipWhen,
         AwaitHuman, NoSections, OverBudget, ExecutorFails, OptionalFails, Execute, LandingFails, Commit,
         AskBlocks, AskFails, AskProceeds, PostQuestion, Unassign, Block, SpawnFixer, SaveSection, Post,
         Push, OpenPr, Report, Handover, AwaitReview, Finish, AllSteps, Final, Die, Interrupt
    <3> QED BY <1>0, <3>1 DEF GateInv
  <2> QED BY <2>1, <2>2
<1>4. pr' => \E s \in Reporter : Before(s)'
  <2> SUFFICES ASSUME pr' PROVE \E s \in Reporter : Before(s)'
    OBVIOUS
  <2>1. CASE OpenPr
    <3>1. pc = "open_pr"
      BY <2>1 DEF OpenPr, At
    <3>2. cur \in Reporter /\ cur \notin Gates /\ mSteps = dSteps
      BY <3>1 DEF PublishInv, Publishing, GateInv, RunInv, SyncInv, Running, InStep
    <3>3. \A g \in Gates : cur < g
      BY <1>0, <1>1, <3>1, <3>2 DEF InStep
    <3> QED BY <1>0, <3>2, <3>3 DEF Before
  <2>2. CASE ~OpenPr
    <3>1. pr' = pr
      BY <2>2 DEF Next, Work, vars, git, gitKept,
         Start, ClaimLost, StartRaises, Resume, SkipComplete, SkipWhen,
         AwaitHuman, NoSections, Begin, OverBudget, ExecutorFails, OptionalFails, Execute, LandingFails, Commit,
         AskBlocks, AskFails, AskProceeds, PostQuestion, Unassign, Block, SpawnFixer, SaveSection, Post,
         Push, Report, Handover, AwaitReview, Finish, AllSteps, Final, Die, Interrupt
    <3> QED BY <1>0, <3>1 DEF GateInv, Before
  <2> QED BY <2>1, <2>2
<1> QED BY <1>2, <1>3, <1>4 DEF GateInv

\* No step from a gate on is executed, and no pull request opened, for a run
\* nobody approved, through any number of stops and resumes.
THEOREM GatesHold == Spec => []GateHolds
<1>1. Init => GateInv
  <2> SUFFICES ASSUME Init PROVE GateInv
    OBVIOUS
  <2>1. Gates \subseteq Step /\ StepCount \in Nat /\ Step = 1..StepCount
    BY PipelineConstants DEF Init, Gates, Gated, Setting, Step
  <2> QED BY <2>1 DEF Init, GateInv, InStep
<1>2. ReportsInv => PublishInv
  BY DEF ReportsInv
<1>3. RunInv /\ GateInv => GateHolds
  <2> SUFFICES ASSUME RunInv, GateInv, NEW g \in Gates, \A s \in Reporter : g <= s, pr PROVE FALSE
    BY DEF GateInv, GateHolds
  <2>1. PICK s \in Reporter : s < g
    BY DEF GateInv, Before
  <2>2. s \in Nat /\ g \in Nat
    BY PipelineConstants DEF Gates, Gated, Setting, Step, RunInv, TypeInv, TypeOK, OutsideTypes
  <2> QED BY <2>1, <2>2
<1> QED BY <1>1, <1>2, <1>3, GateInductive, ReportsInvariant, PTL DEF Spec
=============================================================================
