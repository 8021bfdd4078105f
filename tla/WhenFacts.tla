----------------------------- MODULE WhenFacts -----------------------------
(***************************************************************************)
(* The facts a `when:` is decided on, where they come from and how old     *)
(* they are: intake's judgement of the ticket, the planner's answer        *)
(* whether a change needs the security step, the reviewer's scan of the    *)
(* diff.  engine/orchestrator.py (_after_ingest, _after_planner,           *)
(* _before_review, resume), engine/context.py, GitLocalRepo.diff().        *)
(*                                                                         *)
(* One run of a pipeline, executed by one process after another.  Of the   *)
(* checkout only the changes that touch one of _SECURITY_DIFF_KEYWORDS are *)
(* kept, each named by the step that made it.                              *)
(***************************************************************************)
EXTENDS Naturals, Sequences

CONSTANTS
  Settings,    \* the configurations a run may have, see SettingsAssumption
  MaxFaults    \* bound: crashes, failing steps and questions

Role == {"ingest", "clarifier", "planner", "coder", "reviewer", "security"}
StepDef == [role : Role, commit : BOOLEAN, when : {"", "unclear", "security"}]

\* external: the ticket has an id at its source, and resume() fetches it anew;
\* base: base_branch names a branch; huge: the diff exceeds _MAX_DIFF_CHARS.
ASSUME SettingsAssumption ==
  /\ \A s \in Settings :
       /\ s.steps \in Seq(StepDef) \ {<<>>}
       /\ s.external \in BOOLEAN /\ s.base \in BOOLEAN /\ s.huge \in BOOLEAN
  /\ MaxFaults \in Nat

VARIABLES
  setting,
  pc,        \* "step", "exec", "commit", "staged", "ingested", "record"; "off", "done"
  cur,       \* the step the loop is at
  done,      \* steps recorded as ok or skipped
  ticket,    \* the acceptance criteria of the ticket, at its source
  item,      \* the WorkItem in memory
  itemFile,  \* workitem.json
  extra,     \* run.extra in memory
  dExtra,    \* run.extra in run.json
  planMd,    \* the Security: line of plan.md
  old, new,  \* committed before this process's checkout, and since
  edits,     \* not committed: edits of tracked files, new files, what is in the index
  \* history
  judged,    \* what the last intake made of the ticket
  refetched, \* the item was fetched anew since
  plan,      \* the Security: line when the last planner was recorded
  scanned,   \* the changes there were before the last review, by what made them
  stranded,  \* a process has ended between git add and git commit
  faults

tree == <<old, new, edits>>
facts == <<item, itemFile, extra, dExtra>>
history == <<judged, refetched, plan, scanned, stranded>>
vars == <<setting, pc, cur, done, ticket, facts, planMd, tree, history, faults>>

Steps == setting.steps
Step == DOMAIN Steps
Ambiguity == {"none", "low", "medium", "high"}
Item == [acceptance : BOOLEAN, ambiguity : Ambiguity]
Extra == [security : {"unset", "yes", "no"}, touches : BOOLEAN]
Edits == [tracked : SUBSET Step, untracked : SUBSET Step, staged : SUBSET Step]

FactsTypeOK ==
  /\ setting \in Settings /\ pc \in {"step", "exec", "commit", "staged", "ingested", "record", "off", "done"}
  /\ cur \in 1..(Len(Steps) + 1)
  /\ pc \notin {"off", "done"} => cur <= Len(Steps)
  /\ done \subseteq Step /\ ticket \in BOOLEAN
  /\ item \in Item /\ itemFile \in Item /\ extra \in Extra /\ dExtra \in Extra
  /\ planMd \in {"absent", "silent", "yes", "no"}
  /\ old \subseteq Step /\ new \subseteq Step /\ edits \in Edits
  /\ judged \in Ambiguity /\ refetched \in BOOLEAN /\ plan \in {"absent", "silent", "yes", "no"}
  /\ scanned \in [earlier : SUBSET Step, since : SUBSET Step, staged : SUBSET Step]
  /\ stranded \in BOOLEAN
  /\ faults \in 0..MaxFaults

Unedited == [tracked |-> {}, untracked |-> {}, staged |-> {}]
Fetched == [acceptance |-> ticket, ambiguity |-> "none"]

Init ==
  /\ setting \in Settings
  /\ pc = "step" /\ cur = 1 /\ done = {}
  /\ ticket \in BOOLEAN
  /\ item = Fetched /\ itemFile = Fetched
  /\ extra = [security |-> "unset", touches |-> FALSE] /\ dExtra = extra
  /\ planMd = "absent"
  /\ old = {} /\ new = {} /\ edits = Unedited
  /\ judged = "none" /\ refetched = FALSE /\ plan = "absent"
  /\ scanned = [earlier |-> {}, since |-> {}, staged |-> {}] /\ stranded = FALSE
  /\ faults = 0

Fails == faults < MaxFaults /\ faults' = faults + 1
Save == dExtra' = extra'

-----------------------------------------------------------------------------
(* The beginning of a step: the diff, then the when.                       *)

\* diff(): what was committed since its base, and what tells the files that are
\* tracked from the index.
Shown == (IF setting.base THEN old ELSE {}) \cup new \cup edits.tracked
Diff == IF setting.huge THEN {Shown, {}} ELSE {Shown}

\* build_context(): what nobody has assessed counts as "yes".
PlanSecurity(x) == IF x.security = "unset" THEN "yes" ELSE x.security

Unclear(x) == ~x.acceptance \/ x.ambiguity \in {"medium", "high"}
Due(step, x) ==
  CASE step.when = "" -> TRUE
    [] step.when = "unclear" -> Unclear(item)
    [] step.when = "security" -> PlanSecurity(x) = "yes" \/ x.touches

BeforeReview ==
  IF Steps[cur].role = "reviewer"
  THEN /\ \E d \in Diff : extra' = [extra EXCEPT !.touches = d # {}]
       /\ scanned' = [earlier |-> old, since |-> new \cup edits.tracked,
                      staged |-> edits.staged]
  ELSE UNCHANGED <<extra, scanned>>

NextStep ==
  /\ cur' = cur + 1
  /\ pc' = IF cur = Len(Steps) THEN "done" ELSE "step"

SkipComplete ==
  /\ pc = "step" /\ cur \in done
  /\ NextStep
  /\ UNCHANGED <<setting, done, ticket, facts, planMd, tree, history, faults>>

SkipWhen ==
  /\ pc = "step" /\ cur \notin done
  /\ BeforeReview
  /\ ~Due(Steps[cur], extra')
  /\ done' = done \cup {cur} /\ Save
  /\ NextStep
  /\ UNCHANGED <<setting, ticket, item, itemFile, planMd, tree, judged, refetched, plan,
                 stranded, faults>>

Begin ==
  /\ pc = "step" /\ cur \notin done
  /\ BeforeReview
  /\ Due(Steps[cur], extra')
  /\ pc' = "exec"
  /\ UNCHANGED <<setting, cur, done, ticket, item, itemFile, dExtra, planMd, tree, judged, refetched,
                 plan, stranded, faults>>

-----------------------------------------------------------------------------
(* The executor, the commit, what follows from the answer, the record.     *)

\* The agent (a fixer of this step is one more) may touch something sensitive;
\* a planner may leave plan.md as it is, or write one, with or without the line.
Execute ==
  /\ pc = "exec"
  /\ edits' \in IF Steps[cur].role \in {"ingest", "clarifier"} THEN {edits}
                ELSE {edits, [edits EXCEPT !.tracked = @ \cup {cur}],
                             [edits EXCEPT !.untracked = @ \cup {cur}]}
  /\ IF Steps[cur].role = "planner" THEN planMd' \in {planMd, "silent", "yes", "no"} ELSE UNCHANGED planMd
  /\ pc' = IF Steps[cur].commit THEN "commit" ELSE "record"
  /\ UNCHANGED <<setting, cur, done, ticket, facts, old, new, history, faults>>

\* git add -A takes new files along.
Stage ==
  /\ pc = "commit"
  /\ edits' = [Unedited EXCEPT !.staged = edits.tracked \cup edits.untracked \cup edits.staged]
  /\ pc' = "staged"
  /\ UNCHANGED <<setting, cur, done, ticket, facts, planMd, old, new, history, faults>>

\* git commit, where anything is staged.
Commit ==
  /\ pc = "staged"
  /\ new' = new \cup edits.staged
  /\ edits' = Unedited
  /\ pc' = "record"
  /\ UNCHANGED <<setting, cur, done, ticket, facts, planMd, old, history, faults>>

Strand == stranded' = (stranded \/ pc = "staged")

\* The step raises a question or fails, git add and git commit among it, and the
\* run stops; its worktree is removed by force, unless it is to be kept.
Stop ==
  /\ pc \in {"exec", "commit", "staged", "record"} /\ Fails
  /\ edits' \in {edits, Unedited}
  /\ Strand
  /\ pc' = "off"
  /\ UNCHANGED <<setting, cur, done, ticket, item, itemFile, extra, planMd, old, new, judged,
                 refetched, plan, scanned>>
  /\ Save

\* Mutant: only run.json is saved, and workitem.json stays as it was fetched.
IngestKeepsFile ==
  /\ pc = "record" /\ Steps[cur].role = "ingest"
  /\ \E told \in BOOLEAN, ambiguity \in Ambiguity :
       item' = [acceptance |-> item.acceptance \/ told,
                ambiguity |-> IF ambiguity = "none" THEN item.ambiguity ELSE ambiguity]
  /\ judged' = item'.ambiguity /\ refetched' = FALSE
  /\ pc' = "ingested"
  /\ UNCHANGED <<setting, cur, done, ticket, itemFile, extra, dExtra, planMd, tree, plan, scanned,
                 stranded, faults>>

\* The answer is parsed; criteria of the ticket are kept, an unknown word is
\* no judgement.  What comes out is written to workitem.json
\* (orchestrator.py:1008).
AfterIngest ==
  /\ pc = "record" /\ Steps[cur].role = "ingest"
  /\ \E told \in BOOLEAN, ambiguity \in Ambiguity :
       item' = [acceptance |-> item.acceptance \/ told,
                ambiguity |-> IF ambiguity = "none" THEN item.ambiguity ELSE ambiguity]
  /\ judged' = item'.ambiguity /\ refetched' = FALSE
  /\ itemFile' = item'
  /\ pc' = "ingested"
  /\ UNCHANGED <<setting, cur, done, ticket, extra, dExtra, planMd, tree, plan, scanned, stranded,
                 faults>>

\* Mutant: a plan that says nothing needs no security step.
PlannerFailsOpen ==
  extra' = [extra EXCEPT !.security = IF planMd = "yes" THEN "yes" ELSE "no"]

AfterPlanner ==
  extra' = [extra EXCEPT !.security = IF planMd = "no" THEN "no" ELSE "yes"]

Record ==
  /\ \/ pc = "record" /\ Steps[cur].role # "ingest"
     \/ pc = "ingested"
  /\ IF Steps[cur].role = "planner" THEN AfterPlanner /\ plan' = planMd ELSE UNCHANGED <<extra, plan>>
  /\ done' = done \cup {cur} /\ Save
  /\ NextStep
  /\ UNCHANGED <<setting, ticket, item, itemFile, planMd, tree, judged, refetched, scanned,
                 stranded, faults>>

-----------------------------------------------------------------------------
(* Between processes.                                                      *)

Crash ==
  /\ pc \notin {"off", "done"} /\ Fails
  /\ Strand
  /\ pc' = "off"
  /\ UNCHANGED <<setting, cur, done, ticket, facts, planMd, tree, judged, refetched, plan, scanned>>

\* A person adds criteria to the ticket, say as the answer to a question.
HumanClarifies ==
  /\ pc = "off" /\ setting.external /\ ~ticket
  /\ ticket' = TRUE
  /\ UNCHANGED <<setting, pc, cur, done, facts, planMd, tree, history, faults>>

\* The diff without a base_branch begins at the commit the checkout finds.
Resume ==
  /\ pc = "off"
  /\ item' = IF setting.external THEN Fetched ELSE itemFile
  /\ refetched' = setting.external
  /\ extra' = dExtra
  /\ old' = old \cup new /\ new' = {}
  /\ pc' = "step" /\ cur' = 1
  /\ UNCHANGED <<setting, done, ticket, itemFile, dExtra, planMd, edits, judged, plan, scanned, stranded,
                 faults>>

Next ==
  \/ SkipComplete \/ SkipWhen \/ Begin \/ Execute \/ Stage \/ Commit \/ Stop
  \/ AfterIngest \/ Record \/ Crash \/ HumanClarifies \/ Resume

Spec == Init /\ [][Next]_vars

-----------------------------------------------------------------------------

Skipped(condition) == pc = "step" /\ cur \in done' \ done /\ Steps[cur].when = condition
Begun(condition) == pc = "step" /\ pc' = "exec" /\ Steps[cur].when = condition

\* What the last review could see of the changes there were.
Visible == scanned.since \cup (IF setting.base THEN scanned.earlier ELSE {})

\* The gate of the security step fails closed (README.md:577-580), across any
\* number of stops, crashes and resumes.  It is passed by only if plan.md said
\* an explicit no when a planner was last recorded, and the review saw nothing
\* sensitive in what was there when it began.  What it could not see are commits
\* before a resume where there is no base_branch, new files nobody committed,
\* the end of a diff that was cut, and what was in the index: that is something
\* only after a process has ended between git add and git commit, which makes
\* the reviewer pass over its own edits (git_local.py:330, 351, 367).  And the
\* step is not run for nothing.
SecurityFailsClosed ==
  [][/\ Skipped("security") =>
          /\ plan = "no"
          /\ Visible' = {} \/ setting.huge
          /\ scanned'.staged = {} \/ stranded
     /\ Begun("security") => plan # "no" \/ Visible' # {}]_vars

\* Nobody starts to work on a ticket without criteria, or one that intake has
\* judged unclear, before the clarifier had its say: whatever happened since,
\* the judgement is still known when the when is decided.  It is lost, though,
\* by a resume that fetches the ticket anew (orchestrator.py:537-538).
ClarifierHasItsSay ==
  [][Skipped("unclear") =>
       /\ ticket \/ itemFile.acceptance
       /\ judged \in {"none", "low"} \/ refetched]_vars
=============================================================================
