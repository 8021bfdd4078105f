---------------------------- MODULE PipelineRun ----------------------------
(***************************************************************************)
(* ticketbot/engine/orchestrator.py: one run of a pipeline, from the claim *)
(* of its work item to the pull request, through any number of stops,      *)
(* crashes and resumes.  Other processes are not in this module (PollSweep *)
(* and ResumeOverlap have them).                                           *)
(*                                                                         *)
(* m... variables are the Run object in memory, d... variables run.json.   *)
(* Between two calls that leave the process (executor, git, ticket, forge, *)
(* run.json) nothing can be observed, so such a stretch is one action.     *)
(***************************************************************************)
EXTENDS Naturals, FiniteSets

CONSTANTS
  StepCount,     \* the pipeline's steps are 1..StepCount
  Optional,      \* steps with optional: true
  Conditional,   \* steps with a when: expression
  FanOut,        \* steps with for_each: plan.sections
  Committing,    \* steps with a commit: message
  Planner,       \* steps of role planner
  Reporter,      \* steps of role reporter
  Phase,         \* [Step -> run status its completion sets, "keep" for none]
  Settings,      \* the configurations a run may have, see Setting
  MaxRounds,     \* gates.max_clarify_rounds
  MaxSections,   \* bound: section files the planner writes
  Outcomes,      \* what executors do besides succeeding: "error", "question",
                 \* "defer", "budget"; and "empty", a plan without sections
  MaxFaults      \* bound: crashes, exceptions and interrupts

Step == 1..StepCount
MaxDefers == 2  \* MAX_DEFERS_SPAWNED_PER_STEP

RunPhases == {"received", "clarifying", "planning", "implementing", "verifying", "pr_open"}
RunStatus == RunPhases \cup {"blocked", "failed", "done"}
StepStatus == {"pending", "ok", "skipped", "blocked", "failed"}

\* What the profile, the pipeline and the command line choose for one run.
Setting ==
  [onQuestion  : {"pause_and_relay", "fail", "ignore"},  \* pipeline.on_question
   onUnclear   : {"comment_and_unassign", "comment_only", "proceed", "fail"},
   spawnFixers : BOOLEAN,       \* pipeline.on_defer = "spawn_fixer"
   humanReview : BOOLEAN,       \* gates.on_pr_ready = "human_review"
   hasForge    : BOOLEAN,       \* open_pr() returns a URL
   gated       : SUBSET Step,   \* steps with gate: human
   pauseAt     : SUBSET Step]   \* the gate: optional_human step --pause-at names

ASSUME PipelineConstants ==
  /\ StepCount \in Nat \ {0}
  /\ {Optional, Conditional, FanOut, Committing, Planner, Reporter} \subseteq SUBSET Step
  /\ Phase \in [Step -> RunPhases \cup {"keep"}]
  /\ Settings \subseteq Setting
  /\ MaxRounds \in Nat /\ MaxSections \in Nat /\ MaxFaults \in Nat
  /\ Outcomes \subseteq {"error", "question", "defer", "budget", "empty"}

VARIABLES
  pc,        \* where the process is; "off" when there is none
  cur,       \* the step the loop is at, StepCount + 1 past the last
  sec,       \* the section being executed
  last,      \* how many sections this step has
  asked,     \* the executor's result holds a QUESTION
  defers,    \* DEFER lines of the result not handled yet
  spawned,   \* fixers spawned by this step
  mStatus, mSteps, mRounds,  \* run.status, run.steps[..].status, clarify_rounds
  dStatus, dSteps, dRounds,  \* the same in run.json
  saved,     \* run.json exists
  branch,    \* run.json records a branch
  sections,  \* section files in the run directory
  question,  \* question.md exists
  assigned,  \* the ticket is assigned to the bot
  asks,      \* QUESTION comments posted on the ticket
  reports,   \* final comments posted on the ticket
  pr,        \* a pull request is open
  unsaved,   \* commits whose sha is in memory only
  orphans,   \* commits on the branch whose sha was lost with a process
  dropped,   \* the branch holds a fixer's commit, whose sha is not kept
  faults,
  setting,   \* the run's configuration
  pausing    \* --pause-at is in force: resume() does not have it

memory == <<mStatus, mSteps, mRounds>>
disk == <<dStatus, dSteps, dRounds, saved, branch>>
loop == <<cur, sec, last, asked, defers, spawned>>
ticket == <<assigned, asks, reports>>
gitKept == <<pr, orphans, dropped>>
git == <<unsaved, gitKept>>
files == <<sections, question>>
rest == <<faults, setting, pausing>>
vars == <<pc, loop, memory, disk, ticket, git, files, rest>>

InStep == {"exec", "land", "ask", "comment", "unassign", "block", "defer", "post", "push",
           "open_pr", "report", "handover", "review", "finish"}
Point == {"new", "off", "loop", "final"} \cup InStep

LoopTypes ==
  /\ pc \in Point
  /\ cur \in 1..(StepCount + 1)
  /\ sec \in Nat /\ last \in Nat
  /\ asked \in BOOLEAN
  /\ defers \in 0..(MaxDefers + 1)
  /\ spawned \in 0..MaxDefers

RecordTypes ==
  /\ mStatus \in RunStatus /\ dStatus \in RunStatus
  /\ mSteps \in [Step -> StepStatus] /\ dSteps \in [Step -> StepStatus]
  /\ mRounds \in 0..(MaxRounds + 1) /\ dRounds \in 0..(MaxRounds + 1)
  /\ saved \in BOOLEAN /\ branch \in BOOLEAN

OutsideTypes ==
  /\ question \in BOOLEAN /\ assigned \in BOOLEAN /\ pr \in BOOLEAN /\ dropped \in BOOLEAN
  /\ sections \in Nat
  /\ asks \in Nat /\ reports \in Nat
  /\ unsaved \in Nat /\ orphans \in Nat
  /\ faults \in 0..MaxFaults
  /\ setting \in Settings /\ pausing \in BOOLEAN

TypeOK == LoopTypes /\ RecordTypes /\ OutsideTypes

Init ==
  /\ pc = "new" /\ cur = 1
  /\ sec = 0 /\ last = 0 /\ asked = FALSE /\ defers = 0 /\ spawned = 0
  /\ mStatus = "received" /\ dStatus = "received"
  /\ mSteps = [s \in Step |-> "pending"] /\ dSteps = [s \in Step |-> "pending"]
  /\ mRounds = 0 /\ dRounds = 0
  /\ saved = FALSE /\ branch = FALSE
  /\ sections = 0 /\ question = FALSE
  /\ assigned = FALSE /\ asks = 0 /\ reports = 0
  /\ pr = FALSE /\ unsaved = 0 /\ orphans = 0 /\ dropped = FALSE
  /\ faults = 0
  /\ setting \in Settings
  /\ pausing = (setting.pauseAt # {})

-----------------------------------------------------------------------------
(* Helpers                                                                 *)

OnQuestion == setting.onQuestion
OnUnclear == setting.onUnclear
SpawnFixers == setting.spawnFixers
HumanReview == setting.humanReview
HasForge == setting.hasForge

\* Gates.on_step_gate: the steps that await a human in this process.
Gated == setting.gated \cup (IF pausing THEN setting.pauseAt ELSE {})

IsComplete(steps, s) == steps[s] \in {"ok", "skipped"}

At(point) == pc = point
Go(point) == pc' = point

\* RunStore.save(): os.replace swaps the whole of run.json for the Run object.
Save ==
  /\ dStatus' = mStatus' /\ dSteps' = mSteps' /\ dRounds' = mRounds'
  /\ saved' = TRUE
  /\ unsaved' = 0

Mark(status) == mSteps' = [mSteps EXCEPT ![cur] = status]

\* The step ends the run: its status and the run's are set and saved.
StopAs(runStatus, stepStatus) ==
  /\ mStatus' = runStatus
  /\ Mark(stepStatus)
  /\ UNCHANGED <<mRounds, branch>>
  /\ Save
  /\ Go("final")

\* The step is over and the loop goes on.
NextStep ==
  /\ cur' = cur + 1
  /\ Go("loop")
  /\ UNCHANGED <<sec, last, asked, defers, spawned>>

-----------------------------------------------------------------------------
(* Entry points                                                            *)

\* _begin_fresh_run: claim, checkout, record the branch, save.
Start ==
  /\ At("new")
  /\ assigned' = TRUE
  /\ UNCHANGED memory
  /\ Save /\ branch' = TRUE
  /\ Go("loop")
  /\ UNCHANGED <<loop, asks, reports, gitKept, files, rest>>

\* Somebody else has the ticket: the run is saved as FAILED, without a branch.
ClaimLost ==
  /\ At("new")
  /\ mStatus' = "failed"
  /\ UNCHANGED <<mSteps, mRounds>>
  /\ Save
  /\ Go("off")
  /\ UNCHANGED <<loop, branch, ticket, gitKept, files, rest>>

\* checkout() raises after the claim went through: nothing was saved, there is
\* no run to resume, and the ticket stays claimed.
StartRaises ==
  /\ At("new")
  /\ assigned' = TRUE
  /\ Go("off")
  /\ UNCHANGED <<loop, memory, disk, asks, reports, git, files, rest>>

\* Mutant: a run that is blocked or failed is refused.
ResumeRefuses ==
  /\ At("off") /\ saved /\ branch /\ dStatus \notin {"blocked", "failed"}
  /\ mStatus' = dStatus /\ mSteps' = dSteps /\ mRounds' = dRounds
  /\ cur' = 1
  /\ pausing' = FALSE
  /\ Go("loop")
  /\ UNCHANGED <<sec, last, asked, defers, spawned, disk, ticket, git, files, faults, setting>>

\* Mutant: the status of the run is reset.
ResumeResets ==
  /\ At("off") /\ saved /\ branch
  /\ mStatus' = "received" /\ mSteps' = dSteps /\ mRounds' = dRounds
  /\ cur' = 1
  /\ pausing' = FALSE
  /\ Go("loop")
  /\ UNCHANGED <<sec, last, asked, defers, spawned, disk, ticket, git, files, faults, setting>>

\* resume(): whatever run.json says is the run; the ticket is not claimed again.
\* A run without a branch is refused, and --pause-at is not an option of it.
Resume ==
  /\ At("off") /\ saved /\ branch
  /\ mStatus' = dStatus /\ mSteps' = dSteps /\ mRounds' = dRounds
  /\ cur' = 1
  /\ pausing' = FALSE
  /\ Go("loop")
  /\ UNCHANGED <<sec, last, asked, defers, spawned, disk, ticket, git, files, faults, setting>>

-----------------------------------------------------------------------------
(* The head of _run_step                                                   *)

AtStep == At("loop") /\ cur <= StepCount

SkipComplete ==
  /\ AtStep /\ IsComplete(mSteps, cur)
  /\ NextStep
  /\ UNCHANGED <<memory, disk, ticket, git, files, rest>>

Due == AtStep /\ ~IsComplete(mSteps, cur)

SkipWhen ==
  /\ Due /\ cur \in Conditional
  /\ Mark("skipped")
  /\ UNCHANGED <<mStatus, mRounds>>
  /\ Save
  /\ NextStep
  /\ UNCHANGED <<branch, ticket, gitKept, files, rest>>

\* Mutant: the gate completes its own step.
AwaitHumanOnce ==
  /\ Due /\ cur \in Gated
  /\ question' = TRUE
  /\ StopAs("blocked", "ok")
  /\ UNCHANGED <<loop, ticket, gitKept, sections, rest>>

\* A gate says nothing about whether a human has already been asked.
AwaitHuman ==
  /\ Due /\ cur \in Gated
  /\ question' = TRUE
  /\ StopAs("blocked", "blocked")
  /\ UNCHANGED <<loop, ticket, gitKept, sections, rest>>

NoSections ==
  /\ Due /\ cur \in FanOut \ Gated /\ sections = 0
  /\ StopAs("failed", "failed")
  /\ UNCHANGED <<loop, ticket, gitKept, files, rest>>

Begin ==
  /\ Due /\ cur \notin Gated
  /\ cur \in FanOut => sections > 0
  /\ sec' = 1
  /\ last' = IF cur \in FanOut THEN sections ELSE 1
  /\ spawned' = 0
  /\ Go("exec")
  /\ UNCHANGED <<cur, asked, defers, memory, disk, ticket, git, files, rest>>

-----------------------------------------------------------------------------
(* One execution of the role                                               *)

\* Section files of an earlier attempt of the planner stay in the directory.
ExecutorWrites ==
  sections' \in (IF cur \in Planner THEN sections..MaxSections ELSE {sections})

\* A planner that succeeds without writing a section is a success all the same.
PlanWrites ==
  ExecutorWrites /\ (cur \in Planner /\ "empty" \notin Outcomes => sections' > 0)

\* The budget refuses the call, or the call has used it up.
OverBudget ==
  /\ At("exec") /\ "budget" \in Outcomes
  /\ ExecutorWrites
  /\ StopAs("failed", "failed")
  /\ UNCHANGED <<loop, ticket, gitKept, question, rest>>

ExecutorFails ==
  /\ At("exec") /\ "error" \in Outcomes /\ cur \notin Optional
  /\ ExecutorWrites
  /\ StopAs("failed", "failed")
  /\ UNCHANGED <<loop, ticket, gitKept, question, rest>>

\* Mutant: the optional flag is not looked at.
AnyFails ==
  /\ At("exec") /\ "error" \in Outcomes
  /\ ExecutorWrites
  /\ Mark("failed")
  /\ UNCHANGED <<mStatus, mRounds>>
  /\ Save
  /\ NextStep
  /\ UNCHANGED <<branch, ticket, gitKept, question, rest>>

\* An optional step that fails is recorded as such and passed over.
OptionalFails ==
  /\ At("exec") /\ "error" \in Outcomes /\ cur \in Optional
  /\ ExecutorWrites
  /\ Mark("failed")
  /\ UNCHANGED <<mStatus, mRounds>>
  /\ Save
  /\ NextStep
  /\ UNCHANGED <<branch, ticket, gitKept, question, rest>>

Execute ==
  /\ At("exec")
  /\ PlanWrites
  /\ asked' \in (IF "question" \in Outcomes THEN BOOLEAN ELSE {FALSE})
  /\ defers' \in (IF "defer" \in Outcomes THEN 0..(MaxDefers + 1) ELSE {0})
  /\ Go("land")
  /\ UNCHANGED <<cur, sec, last, spawned, memory, disk, ticket, git, question, rest>>

-----------------------------------------------------------------------------
(* What follows a successful execution                                     *)

\* A write outside the workspace, or a drifted parent clone.
LandingFails ==
  /\ At("land") /\ cur \in Committing /\ "error" \in Outcomes
  /\ StopAs("failed", "failed")
  /\ UNCHANGED <<loop, ticket, gitKept, files, rest>>

\* repo.commit(); with nothing staged there is no sha.
Commit ==
  /\ At("land")
  /\ unsaved' \in (IF cur \in Committing THEN {unsaved, unsaved + 1} ELSE {unsaved})
  /\ Go(IF asked THEN "ask" ELSE "defer")
  /\ UNCHANGED <<loop, memory, disk, ticket, gitKept, files, rest>>

Relays == OnQuestion = "pause_and_relay"
NextRound == IF mRounds <= MaxRounds THEN mRounds + 1 ELSE mRounds

\* Mutant: the round is not counted.
AskBlocksUncounted ==
  /\ At("ask") /\ Relays
  /\ NextRound <= MaxRounds
  /\ OnUnclear \in {"comment_and_unassign", "comment_only"}
  /\ question' = TRUE
  /\ Go("comment")
  /\ UNCHANGED <<loop, memory, disk, ticket, git, sections, rest>>

\* Gates.on_unclear: one more round, counted in memory; question.md is written.
AskBlocks ==
  /\ At("ask") /\ Relays
  /\ NextRound <= MaxRounds
  /\ OnUnclear \in {"comment_and_unassign", "comment_only"}
  /\ mRounds' = NextRound
  /\ question' = TRUE
  /\ Go("comment")
  /\ UNCHANGED <<loop, mStatus, mSteps, disk, ticket, git, sections, rest>>

\* The limit is reached, or on_unclear (or on_question) is "fail".
AskFails ==
  /\ At("ask")
  /\ \/ Relays /\ (NextRound > MaxRounds \/ OnUnclear = "fail")
        /\ mRounds' = NextRound /\ question' = TRUE
     \/ OnQuestion = "fail" /\ UNCHANGED <<mRounds, question>>
  /\ mStatus' = "failed"
  /\ Mark("failed")
  /\ Save
  /\ Go("final")
  /\ UNCHANGED <<loop, branch, ticket, gitKept, sections, rest>>

\* "proceed", or questions are ignored: recorded, and the step goes on.
AskProceeds ==
  /\ At("ask")
  /\ \/ Relays /\ NextRound <= MaxRounds /\ OnUnclear = "proceed"
        /\ mRounds' = NextRound /\ question' = TRUE
     \/ OnQuestion = "ignore" /\ UNCHANGED <<mRounds, question>>
  /\ Go("defer")
  /\ UNCHANGED <<loop, mStatus, mSteps, disk, ticket, git, sections, rest>>

\* sink.comment(), sink.unassign(), then sink.transition() and the save.
PostQuestion ==
  /\ At("comment")
  /\ asks' = asks + 1
  /\ Go(IF OnUnclear = "comment_and_unassign" THEN "unassign" ELSE "block")
  /\ UNCHANGED <<loop, memory, disk, assigned, reports, git, files, rest>>

Unassign ==
  /\ At("unassign")
  /\ assigned' = FALSE
  /\ Go("block")
  /\ UNCHANGED <<loop, memory, disk, asks, reports, git, files, rest>>

Block ==
  /\ At("block")
  /\ StopAs("blocked", "blocked")
  /\ UNCHANGED <<loop, ticket, gitKept, files, rest>>

\* A fixer for one DEFER line: its commit is made and its sha dropped.
SpawnFixer ==
  /\ At("defer") /\ SpawnFixers /\ defers > 0 /\ spawned < MaxDefers
  /\ defers' = defers - 1
  /\ spawned' = spawned + 1
  /\ dropped' \in {dropped, dropped \/ cur \in Committing}
  /\ UNCHANGED <<pc, cur, sec, last, asked, memory, disk, ticket, pr, unsaved, orphans, files, rest>>

\* Lines past the cap are only noted; the iteration is saved.
SaveSection ==
  /\ At("defer")
  /\ ~SpawnFixers \/ defers = 0 \/ spawned = MaxDefers
  /\ defers' = 0
  /\ asked' = FALSE
  /\ UNCHANGED memory
  /\ Save
  /\ IF sec < last THEN sec' = sec + 1 /\ Go("exec") ELSE sec' = sec /\ Go("post")
  /\ UNCHANGED <<cur, last, spawned, branch, ticket, gitKept, files, rest>>

-----------------------------------------------------------------------------
(* After the last section                                                  *)

Post ==
  /\ At("post")
  /\ Go(IF cur \in Reporter THEN "push" ELSE "finish")
  /\ UNCHANGED <<loop, memory, disk, ticket, git, files, rest>>

\* _after_reporter: push, open the PR (an existing one is found again), link
\* it, post the comment, move the ticket to "In Review".
Push ==
  /\ At("push")
  /\ Go("open_pr")
  /\ UNCHANGED <<loop, memory, disk, ticket, git, files, rest>>

OpenPr ==
  /\ At("open_pr")
  /\ pr' = (pr \/ HasForge)
  /\ Go("report")
  /\ UNCHANGED <<loop, memory, disk, ticket, unsaved, orphans, dropped, files, rest>>

Report ==
  /\ At("report")
  /\ reports' = reports + 1
  /\ Go("handover")
  /\ UNCHANGED <<loop, memory, disk, assigned, asks, git, files, rest>>

Handover ==
  /\ At("handover")
  /\ Go(IF HumanReview THEN "review" ELSE "finish")
  /\ UNCHANGED <<loop, memory, disk, ticket, git, files, rest>>

\* Mutant: the run blocks before the reporter's step is recorded.
AwaitReviewUnmarked ==
  /\ At("review")
  /\ question' = TRUE
  /\ mStatus' = "blocked"
  /\ UNCHANGED <<mSteps, mRounds, branch>>
  /\ Save
  /\ Go("final")
  /\ UNCHANGED <<loop, ticket, gitKept, sections, rest>>

\* gates.on_pr_ready awaits a human: the reporter is complete, the run blocked.
AwaitReview ==
  /\ At("review")
  /\ question' = TRUE
  /\ StopAs("blocked", "ok")
  /\ UNCHANGED <<loop, ticket, gitKept, sections, rest>>

Finish ==
  /\ At("finish")
  /\ Mark("ok")
  /\ mStatus' = IF Phase[cur] = "keep" THEN mStatus ELSE Phase[cur]
  /\ UNCHANGED mRounds
  /\ Save
  /\ NextStep
  /\ UNCHANGED <<branch, ticket, gitKept, files, rest>>

\* No step is left: the run is DONE in memory, the runtime is stopped.
AllSteps ==
  /\ At("loop") /\ cur = StepCount + 1
  /\ mStatus' = "done"
  /\ Go("final")
  /\ UNCHANGED <<loop, mSteps, mRounds, disk, ticket, git, files, rest>>

\* The closing save, and the cleanup of the worktree.
Final ==
  /\ At("final")
  /\ UNCHANGED memory
  /\ Save
  /\ Go("off")
  /\ UNCHANGED <<loop, branch, ticket, gitKept, files, rest>>

-----------------------------------------------------------------------------
(* Faults                                                                  *)

Running == pc \notin {"new", "off"}

\* The process is killed, or an exception (a sink, git, the forge, the
\* executor, the configuration) leaves the run loop: nothing is saved.
Die ==
  /\ Running /\ faults < MaxFaults
  /\ faults' = faults + 1
  /\ orphans' = orphans + unsaved
  /\ unsaved' = 0
  /\ Go("off")
  /\ UNCHANGED <<loop, memory, disk, ticket, pr, dropped, files, setting, pausing>>

\* Mutant: nothing is saved on Ctrl-C.
InterruptUnsaved ==
  /\ Running /\ ~At("final") /\ cur <= StepCount /\ faults < MaxFaults
  /\ faults' = faults + 1
  /\ Go("off")
  /\ UNCHANGED <<loop, memory, disk, ticket, git, files, setting, pausing>>

\* Ctrl-C inside _run_step: the Run object is saved as it stands.
Interrupt ==
  /\ Running /\ ~At("final") /\ cur <= StepCount /\ faults < MaxFaults
  /\ faults' = faults + 1
  /\ UNCHANGED memory
  /\ Save
  /\ Go("off")
  /\ UNCHANGED <<loop, branch, ticket, gitKept, files, setting, pausing>>

Work ==
  \/ SkipComplete \/ SkipWhen \/ AwaitHuman \/ NoSections \/ Begin
  \/ OverBudget \/ ExecutorFails \/ OptionalFails \/ Execute
  \/ LandingFails \/ Commit
  \/ AskBlocks \/ AskFails \/ AskProceeds \/ PostQuestion \/ Unassign \/ Block
  \/ SpawnFixer \/ SaveSection
  \/ Post \/ Push \/ OpenPr \/ Report \/ Handover \/ AwaitReview \/ Finish
  \/ AllSteps \/ Final

Next == Start \/ ClaimLost \/ StartRaises \/ Resume \/ Work \/ Die \/ Interrupt

Spec == Init /\ [][Next]_vars

\* A live process goes on (every call it makes has a timeout), and the operator
\* resumes a run that is not done.
FairSpec ==
  /\ Spec
  /\ WF_vars(Work)
  /\ WF_vars(dStatus # "done" /\ Resume)

\* The ticket gets answered and what failed gets mended: from some moment on no
\* mandatory execution asks, fails or is out of budget.  Optional ones may.
Trouble == (Execute /\ asked') \/ OverBudget \/ ExecutorFails \/ LandingFails
CalmSpec == FairSpec /\ <>[][~Trouble]_vars

-----------------------------------------------------------------------------
(* Properties                                                              *)

\* run.json says "done" only when it records every mandatory step as complete.
DoneMeansComplete ==
  dStatus = "done" => \A s \in Step \ Optional : IsComplete(dSteps, s)

\* README.md:529-533, in the single-process case: a role is executed only when
\* its step is not complete in run.json and every step before it is, or is an
\* optional one that failed.
EarlierRecorded ==
  pc \in InStep =>
    /\ ~IsComplete(dSteps, cur)
    /\ \A s \in 1..(cur - 1) :
         IsComplete(dSteps, s) \/ (s \in Optional /\ dSteps[s] = "failed")

\* A step run.json records as complete stays so, through crashes and resumes.
FrozenSteps ==
  [][\A s \in Step : IsComplete(dSteps, s) => dSteps'[s] = dSteps[s]]_dSteps

\* gates.max_clarify_rounds bounds the questions put on the ticket; a question
\* posted by a process that dies before the save is the only one not counted.
AsksBounded == asks <= MaxRounds + faults

\* A reporter's final comment is posted once; only a fault before the save
\* repeats it.
ReportsBounded == reports <= Cardinality(Reporter) + faults

\* Every commit a step makes is named in run.json once nothing is running, except
\* one per fault; only a fixer's commit is in no record (README.md:525-529:
\* run.json records the commits).
CommitsRecorded ==
  orphans <= faults /\ (pc = "off" => unsaved = 0) /\ (dropped => SpawnFixers)

\* gates.py:66-74, README.md:430: no step from a gate on is executed for a run
\* nobody approved, and no pull request is opened for it, through any number of
\* resumes -- or, for --pause-at, until somebody resumes it.  A gated step whose
\* when is false is no gate: it is skipped first (orchestrator.py:807-821).
Gates == Gated \ Conditional
GateHolds ==
  \A g \in Gates :
    /\ \A s \in g..StepCount : dSteps[s] \in {"pending", "blocked"}
    /\ (\A s \in Reporter : g <= s) => ~pr

\* A run that is resumed whenever it stops gets done, unless a step of it has
\* gate: human, or its planner, recorded as complete, has written no section
\* (orchestrator.py:831-839: the fan-out then fails on every resume).
EmptyPlan == sections = 0 /\ \E s \in Planner : IsComplete(dSteps, s)
EventuallyDone == (branch /\ setting.gated = {}) ~> (dStatus = "done" \/ EmptyPlan)

\* run.json keeps the promise of RunPromise.
Verdict(status) == IF status \in RunPhases THEN "open" ELSE status
Promise == INSTANCE RunPromise
  WITH done <- {s \in Step : IsComplete(dSteps, s)}, verdict <- Verdict(dStatus)
PromiseKept == Promise!Spec
=============================================================================
