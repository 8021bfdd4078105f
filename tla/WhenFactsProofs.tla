-------------------------- MODULE WhenFactsProofs --------------------------
(***************************************************************************)
(* The security gate fails closed and the clarifier has its say, for every *)
(* pipeline and any number of stops, crashes and resumes.                  *)
(*                                                                         *)
(* The run's extra record is what the last review saw, except while a      *)
(* reviewer step that is not recorded comes first among those that are     *)
(* not: then it is scanned anew before anything is decided on it.  There   *)
(* is something in the index only between git add and git commit, or where *)
(* a process has ended there.                                              *)
(*                                                                         *)
(* The item in memory says what the last intake made of the ticket, or is  *)
(* the ticket itself, fetched anew; workitem.json always says the former,  *)
(* so that a resume that reads it loses nothing.                           *)
(*                                                                         *)
(* What a condition makes of such facts rests on how two values compare:   *)
(* each has one place, on the line of numbers or in one list of words, or  *)
(* the comparison is false.                                                *)
(***************************************************************************)
EXTENDS WhenFacts, Comparison, TLAPS

Working == {"exec", "commit", "staged", "ingested", "record"}

Matches(x) ==
  /\ x.touches => Visible # {}
  /\ Visible # {} => x.touches \/ setting.huge
Pending ==
  \E i \in Step : /\ Steps[i].role = "reviewer" /\ i \notin done /\ cur <= i
                  /\ \A j \in Step : j < i => j \in done

ScanInv ==
  /\ pc \in Working => cur \notin done /\ Matches(extra)
  /\ pc # "off" => \A j \in Step : j < cur => j \in done
  /\ Matches(extra) \/ Pending
  /\ Matches(dExtra) \/ Pending

PlanInv ==
  /\ extra.security = "no" <=> plan = "no"
  /\ dExtra.security = "no" <=> plan = "no"

ItemInv ==
  /\ item.acceptance => ticket \/ itemFile.acceptance
  /\ item.ambiguity = judged \/ refetched
  /\ itemFile.ambiguity = judged

IndexInv ==
  /\ edits.staged = {} \/ pc = "staged" \/ stranded
  /\ scanned.staged = {} \/ stranded

FactsInv == FactsTypeOK /\ ScanInv /\ PlanInv /\ ItemInv /\ IndexInv

-----------------------------------------------------------------------------
(* Types.                                                                  *)

\* A setting is what SettingsAssumption says.
LEMMA SettingTypes ==
  ASSUME setting \in Settings
  PROVE  /\ Len(Steps) \in Nat \ {0}
         /\ Step = 1..Len(Steps)
         /\ \A i \in Step : Steps[i] \in StepDef
         /\ setting.base \in BOOLEAN /\ setting.huge \in BOOLEAN
<1>1. Steps \in Seq(StepDef) \ {<<>>}
  BY SettingsAssumption DEF Steps
<1>2. setting.base \in BOOLEAN /\ setting.huge \in BOOLEAN
  BY SettingsAssumption
<1> QED BY <1>1, <1>2 DEF Step

\* No step changes the setting.
LEMMA SettingIsFixed ==
  ASSUME [Next]_vars
  PROVE  setting' = setting /\ Steps' = Steps /\ Step' = Step /\ Edits' = Edits
<1>1. setting' = setting
  BY DEF Next, vars, SkipComplete, SkipWhen, Begin, Execute, Stage, Commit, Stop, AfterIngest, Record, Crash,
         HumanClarifies, Resume
<1>2. Steps' = Steps
  BY <1>1 DEF Steps
<1>3. Step' = Step
  BY <1>2 DEF Step
<1>4. Edits' = Edits
  BY <1>3 DEF Edits
<1> QED BY <1>1, <1>2, <1>3, <1>4

\* The variables keep their types.
LEMMA FactsTypesInitially == Init => FactsTypeOK
<1> SUFFICES ASSUME Init PROVE FactsTypeOK
  OBVIOUS
<1>1. Len(Steps) \in Nat \ {0}
  BY SettingTypes DEF Init
<1>2. MaxFaults \in Nat
  BY SettingsAssumption
<1>3. item \in Item /\ itemFile \in Item
  BY DEF Init, Item, Fetched, Ambiguity
<1>4. extra \in Extra /\ dExtra \in Extra
  BY DEF Init, Extra
<1>5. edits \in Edits
  BY DEF Init, Edits, Unedited
<1>6. scanned \in [earlier : SUBSET Step, since : SUBSET Step, staged : SUBSET Step]
  BY DEF Init
<1>7. ticket \in BOOLEAN /\ refetched \in BOOLEAN /\ stranded \in BOOLEAN
  BY Zenon DEF Init
<1>8. judged \in Ambiguity
  BY DEF Init, Ambiguity
<1>9. /\ setting \in Settings /\ done \subseteq Step /\ old \subseteq Step /\ new \subseteq Step
      /\ pc = "step" /\ cur = 1 /\ planMd = "absent" /\ plan = "absent" /\ faults = 0
  BY DEF Init
<1> QED BY <1>1, <1>2, <1>3, <1>4, <1>5, <1>6, <1>7, <1>8, <1>9 DEF FactsTypeOK

LEMMA FactsTypesKept == FactsTypeOK /\ [Next]_vars => FactsTypeOK'
<1> SUFFICES ASSUME FactsTypeOK, [Next]_vars PROVE FactsTypeOK'
  OBVIOUS
<1>0. /\ Len(Steps) \in Nat \ {0}
      /\ Step = 1..Len(Steps)
      /\ MaxFaults \in Nat
  BY SettingTypes, SettingsAssumption DEF FactsTypeOK
<1>00. setting' = setting /\ Steps' = Steps /\ Step' = Step /\ Edits' = Edits
  BY SettingIsFixed
<1> USE <1>0, <1>00 DEF FactsTypeOK, facts, tree, history, NextStep, Save
<1>1. ASSUME SkipComplete PROVE FactsTypeOK'
  BY <1>1 DEF SkipComplete
<1>2. ASSUME BeforeReview PROVE /\ extra' \in Extra
                                /\ scanned' \in [earlier : SUBSET Step, since : SUBSET Step, staged : SUBSET Step]
  <2>1. CASE Steps[cur].role = "reviewer"
    <3>1. PICK d \in Diff : extra' = [extra EXCEPT !.touches = d # {}]
      BY <1>2, <2>1 DEF BeforeReview
    <3>2. (d # {}) \in BOOLEAN
      OBVIOUS
    <3>3. extra' \in Extra
      BY <3>1, <3>2 DEF Extra
    <3>4. edits.tracked \subseteq Step /\ edits.staged \subseteq Step
      BY DEF Edits
    <3> QED BY <1>2, <2>1, <3>3, <3>4 DEF BeforeReview
  <2>2. CASE Steps[cur].role # "reviewer"
    BY <1>2, <2>2 DEF BeforeReview
  <2> QED BY <2>1, <2>2
<1>3. ASSUME SkipWhen PROVE FactsTypeOK'
  BY <1>2, <1>3 DEF SkipWhen
<1>4. ASSUME Begin PROVE FactsTypeOK'
  BY <1>2, <1>4 DEF Begin
<1>5. ASSUME Execute PROVE FactsTypeOK'
  <2>1. edits' \in Edits
    BY <1>5 DEF Execute, Edits
  <2>2. planMd' \in {"absent", "silent", "yes", "no"}
    BY <1>5 DEF Execute
  <2> QED BY <1>5, <2>1, <2>2 DEF Execute
<1>14. ASSUME Stage PROVE FactsTypeOK'
  <2>1. edits' \in Edits
    BY <1>14 DEF Stage, Edits, Unedited
  <2> QED BY <1>14, <2>1 DEF Stage
<1>6. ASSUME Commit PROVE FactsTypeOK'
  BY <1>6 DEF Commit, Edits, Unedited
<1>15. ASSUME Strand PROVE stranded' \in BOOLEAN
  BY <1>15, Zenon DEF Strand
<1>7. ASSUME Stop PROVE FactsTypeOK'
  <2>1. stranded' \in BOOLEAN
    BY <1>7, <1>15 DEF Stop
  <2>2. edits' \in Edits
    BY <1>7 DEF Stop, Edits, Unedited
  <2> QED BY <1>7, <2>1, <2>2 DEF Stop, Fails
<1>8. ASSUME AfterIngest PROVE FactsTypeOK'
  <2>1. item' \in Item
    BY <1>8 DEF AfterIngest, Item, Ambiguity
  <2>2. judged' \in Ambiguity
    BY <1>8, <2>1 DEF AfterIngest, Item
  <2>3. refetched' = FALSE
    BY <1>8 DEF AfterIngest
  <2>4. refetched' \in BOOLEAN
    BY <2>3, Zenon
  <2> QED BY <1>8, <2>1, <2>2, <2>4 DEF AfterIngest
<1>9. ASSUME Record PROVE FactsTypeOK'
  <2>1. extra' \in Extra
    BY <1>9 DEF Record, AfterPlanner, Extra
  <2>2. plan' \in {"absent", "silent", "yes", "no"}
    BY <1>9 DEF Record
  <2> QED BY <1>9, <2>1, <2>2 DEF Record
<1>10. ASSUME Crash PROVE FactsTypeOK'
  <2>1. stranded' \in BOOLEAN
    BY <1>10, <1>15 DEF Crash
  <2> QED BY <1>10, <2>1 DEF Crash, Fails
<1>11. ASSUME HumanClarifies PROVE FactsTypeOK'
  BY <1>11 DEF HumanClarifies
<1>12. ASSUME Resume PROVE FactsTypeOK'
  <2>1. item' \in Item /\ refetched' \in BOOLEAN
    BY <1>12, SettingsAssumption DEF Resume, Item, Fetched, Ambiguity
  <2> QED BY <1>12, <2>1 DEF Resume
<1>13. CASE UNCHANGED vars
  BY <1>13 DEF vars
<1> QED
  BY <1>1, <1>3, <1>4, <1>5, <1>6, <1>7, <1>8, <1>9, <1>10, <1>11, <1>12, <1>13, <1>14 DEF Next

THEOREM FactsTypeCorrect == Spec => []FactsTypeOK
BY FactsTypesInitially, FactsTypesKept, PTL DEF Spec

-----------------------------------------------------------------------------
(* The review.                                                             *)

\* What a review has scanned is what it says of it.
LEMMA ReviewMatches ==
  ASSUME FactsTypeOK, [Next]_vars, BeforeReview, Steps[cur].role = "reviewer"
  PROVE  Matches(extra)'
<1>1. PICK d \in Diff : extra' = [extra EXCEPT !.touches = d # {}]
  BY DEF BeforeReview
<1>2. scanned' = [earlier |-> old, since |-> new \cup edits.tracked, staged |-> edits.staged]
  BY DEF BeforeReview
<1>3. Visible' = Shown
  BY <1>2, SettingIsFixed DEF Visible, Shown
<1>4. extra'.touches <=> d # {}
  BY <1>1 DEF FactsTypeOK, Extra
<1>5. d # {} => Shown # {}
  BY DEF Diff
<1>6. Shown # {} => d # {} \/ setting.huge
  BY DEF Diff
<1> QED BY <1>3, <1>4, <1>5, <1>6, SettingIsFixed DEF Matches

\* Where a decision is made on it, the record matches the last review.
LEMMA DecidedOnReview ==
  ASSUME FactsInv, [Next]_vars, pc = "step", cur \notin done, BeforeReview
  PROVE  Matches(extra)' /\ extra'.security = extra.security
<1>1. extra'.security = extra.security
  BY DEF BeforeReview, FactsInv, FactsTypeOK, Extra
<1>2. CASE Steps[cur].role = "reviewer"
  BY <1>1, <1>2, ReviewMatches DEF FactsInv
<1>3. CASE Steps[cur].role # "reviewer"
  <2>1. ~Pending
    <3> SUFFICES ASSUME NEW i \in Step, Steps[i].role = "reviewer", i \notin done, cur <= i,
                        \A j \in Step : j < i => j \in done
                 PROVE  FALSE
      BY DEF Pending
    <3>1. cur \in Step /\ i \in Nat /\ cur \in Nat
      BY SettingTypes DEF FactsInv, FactsTypeOK
    <3> QED BY <1>3, <3>1
  <2>2. Matches(extra)
    BY <2>1 DEF FactsInv, ScanInv
  <2>3. extra' = extra /\ scanned' = scanned
    BY <1>3 DEF BeforeReview
  <2> QED BY <1>1, <2>2, <2>3, SettingIsFixed DEF Matches, Visible
<1> QED BY <1>2, <1>3

\* The record matches the last review, or will before it is asked.
LEMMA ScanKept == FactsInv /\ [Next]_vars => ScanInv'
<1> SUFFICES ASSUME FactsInv, [Next]_vars PROVE ScanInv'
  OBVIOUS
<1>0. /\ Len(Steps) \in Nat \ {0} /\ Step = 1..Len(Steps)
      /\ FactsTypeOK /\ ScanInv
      /\ cur \in Nat
  BY SettingTypes DEF FactsInv, FactsTypeOK
<1>00. setting' = setting /\ Steps' = Steps /\ Step' = Step
  BY SettingIsFixed
<1>a. ASSUME UNCHANGED <<scanned, extra, dExtra>>
      PROVE  /\ Matches(extra)' <=> Matches(extra)
             /\ Matches(dExtra)' <=> Matches(dExtra)
  BY <1>00, <1>a DEF Matches, Visible
<1>b. ASSUME UNCHANGED <<done, cur>> PROVE Pending' <=> Pending
  BY <1>00, <1>b DEF Pending
<1> USE <1>0, <1>00 DEF facts, tree, history
<1>1. ASSUME SkipComplete PROVE ScanInv'
  <2>1. Pending => Pending'
    BY <1>1 DEF SkipComplete, NextStep, Pending
  <2>2. \A j \in Step : j < cur' => j \in done'
    BY <1>1 DEF SkipComplete, NextStep, ScanInv
  <2>3. pc' \notin Working /\ pc' # "off"
    BY <1>1 DEF SkipComplete, NextStep, Working
  <2>4. UNCHANGED <<scanned, extra, dExtra>>
    BY <1>1 DEF SkipComplete
  <2> QED BY <1>a, <2>1, <2>2, <2>3, <2>4 DEF ScanInv
<1>2. ASSUME SkipWhen PROVE ScanInv'
  <2>1. Matches(extra)'
    BY <1>2, DecidedOnReview DEF SkipWhen
  <2>2. Matches(dExtra)'
    BY <1>2, <2>1 DEF SkipWhen, Save, Matches
  <2>3. \A j \in Step : j < cur' => j \in done'
    BY <1>2 DEF SkipWhen, NextStep, ScanInv
  <2>4. pc' \notin Working
    BY <1>2 DEF SkipWhen, NextStep, Working
  <2> QED BY <2>1, <2>2, <2>3, <2>4 DEF ScanInv
<1>3. ASSUME Begin PROVE ScanInv'
  <2>1. Matches(extra)'
    BY <1>3, DecidedOnReview DEF Begin
  <2>2. Matches(dExtra)' \/ Pending'
    <3>1. CASE Steps[cur].role = "reviewer"
      <4>1. cur \in Step /\ cur \notin done /\ \A j \in Step : j < cur => j \in done
        BY <1>3 DEF Begin, ScanInv, FactsTypeOK
      <4> QED BY <1>3, <3>1, <4>1 DEF Begin, Pending
    <3>2. CASE Steps[cur].role # "reviewer"
      <4>1. UNCHANGED <<scanned, extra, dExtra>>
        BY <1>3, <3>2 DEF Begin, BeforeReview
      <4>2. UNCHANGED <<done, cur>>
        BY <1>3 DEF Begin
      <4> QED BY <1>a, <1>b, <4>1, <4>2 DEF ScanInv
    <3> QED BY <3>1, <3>2
  <2>3. /\ cur' = cur /\ done' = done /\ cur \notin done
        /\ \A j \in Step : j < cur => j \in done
    BY <1>3 DEF Begin, ScanInv
  <2> QED BY <2>1, <2>2, <2>3 DEF ScanInv
<1>4. ASSUME Execute \/ Stage \/ Commit \/ AfterIngest PROVE ScanInv'
  <2>1. UNCHANGED <<scanned, extra, dExtra>>
    BY <1>4 DEF Execute, Stage, Commit, AfterIngest
  <2>2. UNCHANGED <<done, cur>>
    BY <1>4 DEF Execute, Stage, Commit, AfterIngest
  <2>3. pc \in Working
    BY <1>4 DEF Execute, Stage, Commit, AfterIngest, Working
  <2>4. pc # "off"
    BY <2>3 DEF Working
  <2> QED BY <1>a, <1>b, <2>1, <2>2, <2>3, <2>4 DEF ScanInv
<1>5. ASSUME Stop PROVE ScanInv'
  <2>1. Matches(extra)
    BY <1>5 DEF Stop, ScanInv, Working
  <2>2. extra' = extra /\ dExtra' = extra /\ scanned' = scanned
    BY <1>5 DEF Stop, Save
  <2>3. Matches(extra)' /\ Matches(dExtra)'
    BY <2>1, <2>2 DEF Matches, Visible
  <2>4. pc' = "off"
    BY <1>5 DEF Stop
  <2> QED BY <2>3, <2>4 DEF ScanInv, Working
<1>6. ASSUME Record PROVE ScanInv'
  <2>1. Matches(extra) /\ cur \notin done
    BY <1>6 DEF Record, ScanInv, Working
  <2>2. extra'.touches = extra.touches /\ dExtra' = extra' /\ scanned' = scanned
    BY <1>6 DEF Record, AfterPlanner, Save, FactsTypeOK, Extra
  <2>3. Matches(extra)' /\ Matches(dExtra)'
    BY <2>1, <2>2 DEF Matches, Visible
  <2>4. pc # "off" /\ pc' \notin Working
    BY <1>6 DEF Record, NextStep, Working
  <2>5. \A j \in Step : j < cur' => j \in done'
    BY <1>6, <2>4 DEF Record, NextStep, ScanInv
  <2> QED BY <2>3, <2>4, <2>5 DEF ScanInv
<1>7. ASSUME Crash \/ HumanClarifies PROVE ScanInv'
  <2>1. UNCHANGED <<scanned, extra, dExtra>>
    BY <1>7 DEF Crash, HumanClarifies
  <2>2. UNCHANGED <<done, cur>>
    BY <1>7 DEF Crash, HumanClarifies
  <2>3. pc' = "off"
    BY <1>7 DEF Crash, HumanClarifies
  <2> QED BY <1>a, <1>b, <2>1, <2>2, <2>3 DEF ScanInv, Working
<1>8. ASSUME Resume PROVE ScanInv'
  <2>1. Matches(dExtra) => Matches(extra)' /\ Matches(dExtra)'
    BY <1>8 DEF Resume, Matches, Visible
  <2>2. Pending => Pending'
    BY <1>8 DEF Resume, Pending
  <2>3. \A j \in Step : ~(j < cur')
    BY <1>8 DEF Resume
  <2>4. pc' \notin Working
    BY <1>8 DEF Resume, Working
  <2> QED BY <2>1, <2>2, <2>3, <2>4 DEF ScanInv
<1>9. CASE UNCHANGED vars
  <2>1. UNCHANGED <<scanned, extra, dExtra>> /\ UNCHANGED <<done, cur>> /\ pc' = pc
    BY <1>9 DEF vars
  <2> QED BY <1>a, <1>b, <2>1 DEF ScanInv
<1> QED BY <1>1, <1>2, <1>3, <1>4, <1>5, <1>6, <1>7, <1>8, <1>9 DEF Next

-----------------------------------------------------------------------------
(* The planner's word.                                                     *)

\* The record says no exactly when plan.md said it.
LEMMA PlanKept == FactsInv /\ [Next]_vars => PlanInv'
<1> SUFFICES ASSUME FactsInv, [Next]_vars PROVE PlanInv'
  OBVIOUS
<1> USE DEF FactsInv, FactsTypeOK, PlanInv, facts, history
<1>0. ASSUME BeforeReview PROVE extra'.security = extra.security
  BY <1>0 DEF BeforeReview, Extra
<1>1. ASSUME SkipWhen \/ Begin PROVE PlanInv'
  BY <1>0, <1>1 DEF SkipWhen, Begin, Save
<1>2. ASSUME Record PROVE PlanInv'
  <2>1. CASE Steps[cur].role = "planner"
    <3>1. extra'.security = (IF planMd = "no" THEN "no" ELSE "yes") /\ plan' = planMd
      BY <1>2, <2>1 DEF Record, AfterPlanner, Extra
    <3>2. dExtra' = extra'
      BY <1>2 DEF Record, Save
    <3> QED BY <3>1, <3>2
  <2>2. CASE Steps[cur].role # "planner"
    BY <1>2, <2>2 DEF Record, Save
  <2> QED BY <2>1, <2>2
<1>3. ASSUME Stop \/ Resume PROVE PlanInv'
  BY <1>3 DEF Stop, Resume, Save
<1>4. ASSUME SkipComplete \/ Execute \/ Stage \/ Commit \/ AfterIngest \/ Crash \/ HumanClarifies
             \/ UNCHANGED vars
      PROVE  PlanInv'
  BY <1>4 DEF SkipComplete, Execute, Stage, Commit, AfterIngest, Crash, HumanClarifies, vars
<1> QED BY <1>1, <1>2, <1>3, <1>4 DEF Next

-----------------------------------------------------------------------------
(* The judgement of the ticket.                                            *)

\* What intake made of the ticket is known to the process, or was given up for
\* a ticket fetched anew; and the file knows it.
LEMMA ItemKept == FactsInv /\ [Next]_vars => ItemInv'
<1> SUFFICES ASSUME FactsInv, [Next]_vars PROVE ItemInv'
  OBVIOUS
<1>0. FactsTypeOK /\ ItemInv
  BY DEF FactsInv
<1> USE DEF ItemInv, facts, history
<1>1. ASSUME AfterIngest PROVE ItemInv'
  BY <1>1 DEF AfterIngest
<1>2. ASSUME HumanClarifies PROVE ItemInv'
  BY <1>0, <1>2 DEF HumanClarifies
<1>3. ASSUME Resume PROVE ItemInv'
  <2>1. UNCHANGED <<ticket, itemFile, judged>>
    BY <1>3 DEF Resume
  <2>2. CASE setting.external
    <3>1. item'.acceptance = ticket /\ refetched'
      BY <1>3, <2>2 DEF Resume, Fetched
    <3> QED BY <1>0, <2>1, <3>1
  <2>3. CASE ~setting.external
    <3>1. item' = itemFile
      BY <1>3, <2>3 DEF Resume
    <3> QED BY <1>0, <2>1, <3>1
  <2> QED BY <2>2, <2>3
<1>4. ASSUME UNCHANGED <<ticket, item, itemFile, judged, refetched>> PROVE ItemInv'
  BY <1>0, <1>4
<1>5. \/ AfterIngest \/ HumanClarifies \/ Resume
      \/ UNCHANGED <<ticket, item, itemFile, judged, refetched>>
  BY DEF Next, vars, SkipComplete, SkipWhen, Begin, Execute, Stage, Commit, Stop, Record, Crash
<1> QED BY <1>1, <1>2, <1>3, <1>4, <1>5

-----------------------------------------------------------------------------
(* The index.                                                              *)

\* What is left in the index was left by a process that ended.
LEMMA IndexKept == FactsInv /\ [Next]_vars => IndexInv'
<1> SUFFICES ASSUME FactsInv, [Next]_vars PROVE IndexInv'
  OBVIOUS
<1>0. FactsTypeOK /\ IndexInv
  BY DEF FactsInv
<1> USE DEF IndexInv, facts, history, tree
<1>1. ASSUME BeforeReview, pc = "step" PROVE scanned'.staged = {} \/ stranded
  BY <1>0, <1>1 DEF BeforeReview
<1>2. ASSUME SkipWhen \/ Begin PROVE IndexInv'
  BY <1>0, <1>1, <1>2 DEF SkipWhen, Begin
<1>3. ASSUME Execute PROVE IndexInv'
  <2>1. edits'.staged = edits.staged
    BY <1>0, <1>3 DEF Execute, FactsTypeOK, Edits
  <2> QED BY <1>0, <1>3, <2>1 DEF Execute
<1>4. ASSUME Stage PROVE IndexInv'
  BY <1>0, <1>4 DEF Stage
<1>5. ASSUME Commit PROVE IndexInv'
  BY <1>0, <1>5 DEF Commit, Unedited
<1>6. ASSUME Stop \/ Crash PROVE IndexInv'
  <2>1. edits' = edits \/ edits'.staged = {}
    BY <1>6 DEF Stop, Crash, Unedited
  <2>2. stranded \/ pc = "staged" => stranded'
    BY <1>6 DEF Stop, Crash, Strand
  <2>3. scanned' = scanned
    BY <1>6 DEF Stop, Crash
  <2> QED BY <1>0, <2>1, <2>2, <2>3
<1>7. ASSUME SkipComplete \/ AfterIngest \/ Record \/ HumanClarifies \/ Resume PROVE IndexInv'
  <2>1. UNCHANGED <<edits, scanned, stranded>> /\ pc # "staged"
    BY <1>7 DEF SkipComplete, AfterIngest, Record, HumanClarifies, Resume
  <2> QED BY <1>0, <2>1
<1>8. CASE UNCHANGED vars
  BY <1>0, <1>8 DEF vars
<1> QED BY <1>2, <1>3, <1>4, <1>5, <1>6, <1>7, <1>8 DEF Next

-----------------------------------------------------------------------------
(* The gate, and the clarifier's step.                                     *)

LEMMA FactsInductive == Spec => []FactsInv
<1>1. Init => FactsInv
  <2> SUFFICES ASSUME Init PROVE FactsInv
    OBVIOUS
  <2>1. ScanInv
    <3>1. Visible = {} /\ ~extra.touches /\ ~dExtra.touches
      BY DEF Init, Visible
    <3>2. Matches(extra) /\ Matches(dExtra)
      BY <3>1 DEF Matches
    <3>3. pc = "step" /\ \A j \in Step : ~(j < cur)
      BY SettingTypes DEF Init
    <3> QED BY <3>2, <3>3 DEF ScanInv, Working
  <2>2. PlanInv
    BY DEF Init, PlanInv
  <2>3. ItemInv
    BY DEF Init, ItemInv, Fetched
  <2>4. IndexInv
    BY DEF Init, IndexInv, Unedited
  <2> QED BY <2>1, <2>2, <2>3, <2>4, FactsTypesInitially DEF FactsInv
<1>2. FactsInv /\ [Next]_vars => FactsInv'
  BY FactsTypesKept, ScanKept, PlanKept, ItemKept, IndexKept DEF FactsInv
<1> QED BY <1>1, <1>2, PTL DEF Spec

\* Only SkipWhen records a step without executing it.
LEMMA SkippedByWhen ==
  ASSUME NEW condition, [Next]_vars, Skipped(condition)
  PROVE  SkipWhen /\ Steps[cur].when = condition
BY DEF Next, vars, SkipComplete, Begin, Execute, Stage, Commit, Stop, AfterIngest, Record, Crash,
       HumanClarifies, Resume, Skipped

\* The security step is passed by only on an explicit no of the plan and a
\* review that saw nothing sensitive in all that the index does not hide from it,
\* and is not run for nothing.
THEOREM GateFailsClosed == Spec => SecurityFailsClosed
<1> DEFINE Closed == /\ Skipped("security") =>
                          /\ plan = "no"
                          /\ Visible' = {} \/ setting.huge
                          /\ scanned'.staged = {} \/ stranded
                     /\ Begun("security") => plan # "no" \/ Visible' # {}
<1>1. FactsInv /\ [Next]_vars => [Closed]_vars
  <2> SUFFICES ASSUME FactsInv, [Next]_vars, pc = "step" PROVE Closed
    BY DEF Skipped, Begun
  <2>0. FactsTypeOK /\ PlanInv
    BY DEF FactsInv
  <2>1. ASSUME SkipWhen, Steps[cur].when = "security"
        PROVE  plan = "no" /\ (Visible' = {} \/ setting.huge) /\ (scanned'.staged = {} \/ stranded)
    <3>1. Matches(extra)' /\ extra'.security = extra.security
      BY <2>1, DecidedOnReview DEF SkipWhen
    <3>2. PlanSecurity(extra') # "yes" /\ ~extra'.touches
      BY <2>1 DEF SkipWhen, Due
    <3>3. extra.security = "no"
      BY <2>0, <3>1, <3>2 DEF PlanSecurity, FactsTypeOK, Extra
    <3>4. scanned'.staged = {} \/ stranded
      <4>1. stranded' = stranded
        BY <2>1 DEF SkipWhen
      <4> QED BY <4>1, IndexKept DEF IndexInv
    <3> QED BY <2>0, <3>1, <3>2, <3>3, <3>4, SettingIsFixed DEF Matches, PlanInv
  <2>2. ASSUME Begin, Steps[cur].when = "security"
        PROVE  plan # "no" \/ Visible' # {}
    <3>1. Matches(extra)' /\ extra'.security = extra.security
      BY <2>2, DecidedOnReview DEF Begin
    <3>2. PlanSecurity(extra') = "yes" \/ extra'.touches
      BY <2>2 DEF Begin, Due
    <3>3. extra.security # "no" \/ extra'.touches
      BY <3>1, <3>2 DEF PlanSecurity
    <3> QED BY <2>0, <3>1, <3>3 DEF Matches, PlanInv
  <2>3. Skipped("security") => SkipWhen /\ Steps[cur].when = "security"
    BY SkippedByWhen
  <2>4. Begun("security") => Begin /\ Steps[cur].when = "security"
    BY DEF Next, vars, SkipComplete, SkipWhen, NextStep, Execute, Stage, Commit, Stop, AfterIngest, Record,
           Crash, HumanClarifies, Resume, Begun
  <2> QED BY <2>1, <2>2, <2>3, <2>4
<1> QED BY <1>1, FactsInductive, PTL DEF Spec, SecurityFailsClosed

\* The clarifier is passed by only for a ticket that has criteria, and that the
\* last intake, however many processes ago, did not find unclear; but for a
\* resume that fetched the ticket anew.
THEOREM ClarifierIsAsked == Spec => ClarifierHasItsSay
<1> DEFINE Asked == Skipped("unclear") => /\ ticket \/ itemFile.acceptance
                                          /\ judged \in {"none", "low"} \/ refetched
<1>1. FactsInv /\ [Next]_vars => [Asked]_vars
  <2> SUFFICES ASSUME FactsInv, [Next]_vars, Skipped("unclear")
               PROVE  /\ ticket \/ itemFile.acceptance
                      /\ judged \in {"none", "low"} \/ refetched
    OBVIOUS
  <2>1. FactsTypeOK /\ ItemInv
    BY DEF FactsInv
  <2>2. ~Unclear(item)
    <3>1. SkipWhen /\ Steps[cur].when = "unclear"
      BY SkippedByWhen
    <3> QED BY <3>1 DEF SkipWhen, Due
  <2>3. item.acceptance /\ item.ambiguity \in {"none", "low"}
    BY <2>1, <2>2 DEF Unclear, FactsTypeOK, Item, Ambiguity
  <2> QED BY <2>1, <2>3 DEF ItemInv
<1> QED BY <1>1, FactsInductive, PTL DEF Spec, ClarifierHasItsSay

-----------------------------------------------------------------------------
(* How a condition compares two values.                                    *)

Ordering == {"lt", "lte", "gt", "gte"}

\* Two places in one order are compared like the numbers they are.
LEMMA PlacesCompare ==
  ASSUME NEW l \in Int, NEW r \in Int
  PROVE  /\ ApplyOrder(l, "lte", r) <=> ~ApplyOrder(l, "gt", r)
         /\ ApplyOrder(l, "gte", r) <=> ~ApplyOrder(l, "lt", r)
         /\ ApplyOrder(l, "lt", r) <=> ApplyOrder(r, "gt", l)
         /\ ApplyOrder(l, "lte", r) /\ ApplyOrder(l, "gte", r) => l = r
BY DEF ApplyOrder

\* The list a string is looked up in holds it once.
LEMMA OnePlace ==
  ASSUME NEW order, DOMAIN order \subseteq Int, IsInjective(order), NEW v,
         NEW i \in Places(order, v), NEW j \in Places(order, v)
  PROVE  i = j /\ i \in Int
BY DEF Places, IsInjective

\* No word is listed twice in an enumeration.
LEMMA EnumsAreOrders ==
  ASSUME NEW last \in DOMAIN OrderedEnums
  PROVE  DOMAIN OrderedEnums[last] \subseteq Int /\ IsInjective(OrderedEnums[last])
<1>1. last \in {"ambiguity", "size", "severity"}
  BY DEF OrderedEnums
<1>2. /\ OrderedEnums["ambiguity"] = <<"low", "medium", "high">>
      /\ OrderedEnums["size"] = <<"xs", "s", "m", "l", "xl">>
      /\ OrderedEnums["severity"] = <<"nit", "should-fix", "blocker">>
  BY DEF OrderedEnums
<1>3. ASSUME NEW q, q = <<"low", "medium", "high">>
      PROVE  DOMAIN q \subseteq Int /\ IsInjective(q)
  <2>1. DOMAIN q = 1..3 /\ q[1] = "low" /\ q[2] = "medium" /\ q[3] = "high"
    BY <1>3
  <2> QED BY <2>1 DEF IsInjective
<1>4. ASSUME NEW q, q = <<"xs", "s", "m", "l", "xl">>
      PROVE  DOMAIN q \subseteq Int /\ IsInjective(q)
  <2>1. DOMAIN q = 1..5 /\ q[1] = "xs" /\ q[2] = "s" /\ q[3] = "m" /\ q[4] = "l" /\ q[5] = "xl"
    BY <1>4
  <2> QED BY <2>1 DEF IsInjective
<1>5. ASSUME NEW q, q = <<"nit", "should-fix", "blocker">>
      PROVE  DOMAIN q \subseteq Int /\ IsInjective(q)
  <2>1. DOMAIN q = 1..3 /\ q[1] = "nit" /\ q[2] = "should-fix" /\ q[3] = "blocker"
    BY <1>5
  <2> QED BY <2>1 DEF IsInjective
<1> QED BY <1>1, <1>2, <1>3, <1>4, <1>5

\* A value reads as one number at most.
LEMMA NumbersAreNumbers ==
  ASSUME NEW contents, NEW v \in Value(contents), NEW l \in AsNumber(v)
  PROVE  l \in Int /\ AsNumber(v) = {l} /\ v # Missing
BY ComparisonAssumption DEF AsNumber, Value, Missing, None, Object

\* Whatever two values are compared on, they have each one place or none.
LEMMA ComparedByPlace ==
  ASSUME NEW contents, NEW v \in Value(contents), NEW w \in Value(contents), NEW path,
         NEW some \in Ordering, OrderCompare(v, some, w, path)
  PROVE  /\ v # Missing /\ w # Missing
         /\ \E l, r \in Int :
              /\ \A op \in Ordering : /\ OrderCompare(v, op, w, path) <=> ApplyOrder(l, op, r)
                                      /\ OrderCompare(w, op, v, path) <=> ApplyOrder(r, op, l)
              /\ l = r => \/ v = w /\ v[1] = "str"
                          \/ AsNumber(v) = {l} /\ AsNumber(w) = {l}
<1> DEFINE order == IF Last(path) \in DOMAIN OrderedEnums THEN OrderedEnums[Last(path)] ELSE Lexical
<1>1. DOMAIN order \subseteq Int /\ IsInjective(order)
  <2>1. DOMAIN Lexical \subseteq Int /\ IsInjective(Lexical)
    BY ComparisonAssumption
  <2> QED BY <2>1, EnumsAreOrders
<1> HIDE DEF order
<1>2. CASE AsNumber(v) # {} /\ AsNumber(w) # {}
  <2>1. PICK l \in AsNumber(v), r \in AsNumber(w) : TRUE
    BY <1>2
  <2>2. /\ AsNumber(v) = {l} /\ AsNumber(w) = {r} /\ l \in Int /\ r \in Int
        /\ v # Missing /\ w # Missing
    BY <2>1, NumbersAreNumbers
  <2>3. \A op : /\ OrderCompare(v, op, w, path) <=> ApplyOrder(l, op, r)
                /\ OrderCompare(w, op, v, path) <=> ApplyOrder(r, op, l)
    BY <2>2 DEF OrderCompare
  <2> QED BY <2>2, <2>3
<1>3. CASE ~(AsNumber(v) # {} /\ AsNumber(w) # {})
  <2>1. \A op : /\ OrderCompare(v, op, w, path) <=>
                     \E l \in Places(order, v), r \in Places(order, w) : ApplyOrder(l, op, r)
                /\ OrderCompare(w, op, v, path) <=>
                     \E l \in Places(order, w), r \in Places(order, v) : ApplyOrder(l, op, r)
    BY <1>3, Zenon DEF OrderCompare, order
  <2>2. PICK l \in Places(order, v), r \in Places(order, w) : TRUE
    BY <2>1
  <2>3. Places(order, v) = {l} /\ Places(order, w) = {r} /\ l \in Int /\ r \in Int
    BY <1>1, <2>2, OnePlace
  <2>4. \A op : /\ OrderCompare(v, op, w, path) <=> ApplyOrder(l, op, r)
                /\ OrderCompare(w, op, v, path) <=> ApplyOrder(r, op, l)
    BY <2>1, <2>3
  <2>5. v[1] = "str" /\ w[1] = "str" /\ (l = r => v[2] = w[2])
    BY <2>2 DEF Places
  <2>6. (l = r => v = w) /\ v # Missing /\ w # Missing
    BY <2>5 DEF Value, Missing, None, Object
  <2> QED BY <2>3, <2>4, <2>5, <2>6
<1> QED BY <1>2, <1>3

\* The ordering comparisons of a condition tell one story about any two values
\* of any kind, whatever the path they were found under: they are compared as
\* numbers, or by their places in one list (core/predicate.py).
THEOREM ComparisonsCohere ==
  \A contents, path : \A v, w \in Value(contents) : Coherent(v, w, path)
<1> SUFFICES ASSUME NEW contents, NEW v \in Value(contents), NEW w \in Value(contents), NEW path,
                    NEW some \in Ordering, Compare(v, some, w, path)
             PROVE  /\ Compare(v, "lte", w, path) <=> ~Compare(v, "gt", w, path)
                    /\ Compare(v, "gte", w, path) <=> ~Compare(v, "lt", w, path)
                    /\ Compare(v, "lt", w, path) <=> Compare(w, "gt", v, path)
                    /\ Compare(v, "lte", w, path) /\ Compare(v, "gte", w, path) =>
                         \/ Compare(v, "eq", w, path) /\ ~Compare(v, "ne", w, path)
                         \/ AsNumber(v) # {} /\ AsNumber(v) = AsNumber(w)
  BY DEF Coherent, Ordering
<1>1. OrderCompare(v, some, w, path)
  BY DEF Compare, Ordering
<1>2. PICK l, r \in Int :
        /\ \A op \in Ordering : /\ OrderCompare(v, op, w, path) <=> ApplyOrder(l, op, r)
                                /\ OrderCompare(w, op, v, path) <=> ApplyOrder(r, op, l)
        /\ l = r => \/ v = w /\ v[1] = "str"
                    \/ AsNumber(v) = {l} /\ AsNumber(w) = {l}
  BY <1>1, ComparedByPlace
<1>3. v # Missing /\ w # Missing
  BY <1>1, ComparedByPlace
<1>4. \A op \in Ordering : /\ Compare(v, op, w, path) <=> ApplyOrder(l, op, r)
                           /\ Compare(w, op, v, path) <=> ApplyOrder(r, op, l)
  BY <1>2, <1>3 DEF Compare, Ordering
<1>5. ASSUME v = w, v[1] = "str" PROVE Compare(v, "eq", w, path) /\ ~Compare(v, "ne", w, path)
  BY <1>3, <1>5 DEF Compare, ValuesEqual, PyEqual
<1> QED BY <1>2, <1>4, <1>5, PlacesCompare DEF Ordering
=============================================================================
