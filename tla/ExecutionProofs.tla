--------------------------- MODULE ExecutionProofs ---------------------------
(***************************************************************************)
(* Theorems about what executes a step: what it may cost, the processes it *)
(* leaves behind, the machine it runs in, the environment its settings are *)
(* expanded in, the paths its tools may touch, and the text it is asked.   *)
(* The components share no variable; each is proved about on its own.      *)
(***************************************************************************)
EXTENDS Budget, ProcessExecutor, SolariRuntime, Environment, PathJail, Templating,
        WellFoundedInduction, SequenceTheorems, TLAPS

(***************************************************************************)
(* Budget, for every cap, price, timeout and number of turns.              *)
(***************************************************************************)

LEMMA BudgetTypeInductive == TypeOK /\ [Next]_vars => TypeOK'
<1> SUFFICES ASSUME TypeOK, [Next]_vars PROVE TypeOK'
  OBVIOUS
<1> USE BudgetConstants DEF TypeOK, Point, request, Return
<1>1. CASE Elapse \/ Refuse
  BY <1>1 DEF Elapse, Refuse
<1>2. CASE BeginStep
  <2>1. StepTimeout \in Nat
    BY <1>2 DEF BeginStep, NoTimeLeft, StepTimeout, Greater, Lesser
  <2>2. deadline' \in Nat /\ maxCost' \in Nat
    BY <1>2, <2>1 DEF BeginStep
  <2>3. failed' \in BOOLEAN
    BY <1>2, Zenon DEF BeginStep
  <2> QED BY <1>2, <2>2, <2>3 DEF BeginStep
<1>3. CASE Charge \/ Resume
  BY <1>3 DEF Charge, Resume
<1>4. CASE SpawnFixer
  <2>1. failed' \in BOOLEAN
    BY <1>4, Zenon DEF SpawnFixer
  <2> QED BY <1>4, <2>1 DEF SpawnFixer, Uncapped
<1>5. CASE OutOfTurns \/ PastDeadline \/ ProviderFails
  <2>1. failed' \in BOOLEAN
    BY <1>5, Zenon DEF OutOfTurns, PastDeadline, ProviderFails
  <2>2. elapsed' \in Nat
    BY <1>5 DEF OutOfTurns, PastDeadline, ProviderFails
  <2> QED BY <1>5, <2>1, <2>2 DEF OutOfTurns, PastDeadline, ProviderFails, InCall
<1>6. CASE ProviderAnswers
  <2>1. failed' \in BOOLEAN
    BY <1>6, Zenon DEF ProviderAnswers
  <2>2. pc' \in Point
    BY <1>6 DEF ProviderAnswers, InCall
  <2>3. usage' \in Nat /\ total' \in Nat /\ elapsed' \in Nat /\ turns' \in 0..MaxIterations
    BY <1>6 DEF ProviderAnswers
  <2> QED BY <1>6, <2>1, <2>2, <2>3 DEF ProviderAnswers
<1>7. CASE UNCHANGED vars
  BY <1>7 DEF vars
<1> QED BY <1>1, <1>2, <1>3, <1>4, <1>5, <1>6, <1>7 DEF Next, Loop

\* Type correctness of the budget and of the tool loop.
THEOREM BudgetTypeCorrect == Spec => []TypeOK
<1>1. Init => TypeOK
  <2>1. Init => failed \in BOOLEAN
    BY Zenon DEF Init
  <2> QED BY <2>1, BudgetConstants DEF Init, TypeOK, Point
<1> QED BY <1>1, BudgetTypeInductive, PTL DEF Spec

-----------------------------------------------------------------------------

\* Between calls the cost cap is respected; a call is handed what is left of it,
\* and stops at the first answer that exceeds that.
CostInv ==
  /\ pc \in {"between", "served", "fixing"} => spent <= MaxCost
  /\ pc = "turn" => usage <= maxCost /\ spent + maxCost <= MaxCost
  /\ pc = "charge" => usage <= maxCost + TurnCost /\ spent + maxCost <= MaxCost
  /\ spent <= MaxCost + TurnCost

LEMMA CostInductive == TypeOK /\ CostInv /\ [Next]_vars => CostInv'
<1> SUFFICES ASSUME TypeOK, CostInv, [Next]_vars PROVE CostInv'
  OBVIOUS
<1> USE BudgetConstants DEF TypeOK, CostInv, Point, request, Return, Idle
<1>1. CASE Elapse \/ Refuse \/ SpawnFixer \/ Resume
  BY <1>1 DEF Elapse, Refuse, SpawnFixer, Resume
<1>2. CASE BeginStep
  BY <1>2 DEF BeginStep
<1>3. CASE Charge
  BY <1>3 DEF Charge, Exceeded
<1>4. CASE OutOfTurns \/ PastDeadline \/ ProviderFails
  BY <1>4 DEF OutOfTurns, PastDeadline, ProviderFails, InCall
<1>5. CASE ProviderAnswers
  <2>1. /\ usage' \in Nat /\ usage' <= usage + TurnCost
        /\ UNCHANGED <<spent, maxCost>> /\ InCall
    BY <1>5 DEF ProviderAnswers
  <2>2. CASE usage' > maxCost
    BY <1>5, <2>1, <2>2 DEF ProviderAnswers, InCall
  <2>3. CASE ~(usage' > maxCost)
    BY <1>5, <2>1, <2>3 DEF ProviderAnswers, InCall
  <2> QED BY <2>2, <2>3
<1>6. CASE UNCHANGED vars
  BY <1>6 DEF vars
<1> QED BY <1>1, <1>2, <1>3, <1>4, <1>5, <1>6 DEF Next, Loop

\* The cost cap of one process is exceeded by one model call at most.
THEOREM OvershootBounded == Spec => []Overshoot
<1>1. Init => CostInv
  BY BudgetConstants DEF Init, CostInv
<1>2. TypeOK /\ CostInv => Overshoot
  BY BudgetConstants DEF TypeOK, CostInv, Overshoot
<1> QED BY <1>1, <1>2, CostInductive, BudgetTypeCorrect, PTL DEF Spec

-----------------------------------------------------------------------------

\* What is known of products: one more is one more time.
LEMMA OneMore ==
  ASSUME NEW n \in Nat, NEW k \in Nat
  PROVE (n + 1) * k = n * k + k /\ n * k \in Nat
OBVIOUS

Cap == MaxCost + TurnCost

\* The money is where the Budgets of the finished processes, the one of this
\* process, and the fixers can have taken it.  A fixer at work has its turns
\* still to pay.
TotalInv ==
  total + (IF pc = "fixing" THEN turns * TurnCost ELSE 0)
    <= resumed * Cap + spent + (IF pc \in {"turn", "charge"} THEN usage ELSE 0)
         + spawned * FixerCost

LEMMA TotalInductive == TypeOK /\ CostInv /\ TotalInv /\ [Next]_vars => TotalInv'
<1> SUFFICES ASSUME TypeOK, CostInv, TotalInv, [Next]_vars PROVE TotalInv'
  OBVIOUS
<1>0. Cap \in Nat /\ FixerCost \in Nat
  BY BudgetConstants DEF Cap, FixerCost
<1>1. /\ resumed * Cap \in Nat /\ (resumed + 1) * Cap = resumed * Cap + Cap
      /\ spawned * FixerCost \in Nat /\ (spawned + 1) * FixerCost = spawned * FixerCost + FixerCost
      /\ turns * TurnCost \in Nat
  BY <1>0, OneMore, BudgetConstants DEF TypeOK
<1> USE <1>0, <1>1, BudgetConstants DEF TypeOK, TotalInv, Point, request, Return, Idle
<1>2. CASE Elapse \/ Refuse \/ BeginStep \/ Charge
  BY <1>2 DEF Elapse, Refuse, BeginStep, Charge
<1>3. CASE SpawnFixer
  <2>1. turns' * TurnCost = FixerCost
    BY <1>3 DEF SpawnFixer, FixerCost
  <2>2. spawned' * FixerCost = spawned * FixerCost + FixerCost
    BY <1>3 DEF SpawnFixer
  <2>3. /\ pc = "served" /\ pc' = "fixing"
        /\ total' = total /\ spent' = spent /\ resumed' * Cap = resumed * Cap
    BY <1>3 DEF SpawnFixer
  <2> QED BY <2>1, <2>2, <2>3
<1>4. CASE Resume
  <2>1. resumed' * Cap = resumed * Cap + Cap
    BY <1>4 DEF Resume
  <2>2. spent <= Cap
    BY DEF CostInv, Cap
  <2>3. spent' = 0 /\ total' = total /\ pc = "stopped" /\ pc' = "between" /\ spawned' = spawned
    BY <1>4 DEF Resume
  <2> QED BY <2>1, <2>2, <2>3
<1>5. CASE OutOfTurns \/ PastDeadline \/ ProviderFails
  BY <1>5 DEF OutOfTurns, PastDeadline, ProviderFails, InCall
<1>6. CASE ProviderAnswers
  <2>1. PICK c \in 0..TurnCost : usage' = usage + c /\ total' = total + c
    BY <1>6 DEF ProviderAnswers
  <2>2. turns - 1 \in Nat /\ turns' = turns - 1
    BY <1>6 DEF ProviderAnswers
  <2>3. turns * TurnCost = turns' * TurnCost + TurnCost /\ turns' * TurnCost \in Nat
    <3>1. ((turns - 1) + 1) * TurnCost = (turns - 1) * TurnCost + TurnCost /\ (turns - 1) * TurnCost \in Nat
      BY <2>2, OneMore
    <3>2. (turns - 1) + 1 = turns
      BY <2>2
    <3> QED BY <2>2, <3>1, <3>2
  <2>4. UNCHANGED <<spent, spawned, resumed>>
    BY <1>6 DEF ProviderAnswers
  <2>5. \/ pc = "fixing" /\ pc' \in {"fixing", "served"}
        \/ pc = "turn" /\ pc' \in {"turn", "charge"}
    BY <1>6 DEF ProviderAnswers, InCall
  <2>6. CASE pc = "fixing"
    BY <2>1, <2>3, <2>4, <2>5, <2>6
  <2>7. CASE pc = "turn"
    BY <2>1, <2>4, <2>5, <2>7
  <2> QED BY <2>5, <2>6, <2>7
<1>7. CASE UNCHANGED vars
  BY <1>7 DEF vars
<1> QED BY <1>2, <1>3, <1>4, <1>5, <1>6, <1>7 DEF Next, Loop

\* However often a run is resumed and however many fixers it spawns, it costs
\* one cap and one model call a process, and max_iterations calls a fixer.
THEOREM CostIsBounded == Spec => []CostBounded
<1>1. Init => CostInv /\ TotalInv
  BY BudgetConstants, OneMore DEF Init, CostInv, TotalInv, Cap, FixerCost
<1>2. TypeOK /\ CostInv /\ TotalInv => CostBounded
  <2> SUFFICES ASSUME TypeOK, CostInv, TotalInv PROVE CostBounded
    OBVIOUS
  <2>1. Cap \in Nat /\ FixerCost \in Nat
    BY BudgetConstants DEF Cap, FixerCost
  <2>2. /\ (resumed + 1) * Cap = resumed * Cap + Cap /\ resumed * Cap \in Nat
        /\ spawned * FixerCost \in Nat /\ turns * TurnCost \in Nat
    BY <2>1, OneMore, BudgetConstants DEF TypeOK
  <2>3. spent + (IF pc \in {"turn", "charge"} THEN usage ELSE 0) <= Cap
    BY BudgetConstants DEF TypeOK, CostInv, Cap
  <2>4. total <= resumed * Cap + Cap + spawned * FixerCost
    <3> DEFINE mine == spent + (IF pc \in {"turn", "charge"} THEN usage ELSE 0)
               owed == IF pc = "fixing" THEN turns * TurnCost ELSE 0
               before == resumed * Cap
               fixers == spawned * FixerCost
    <3>1. total + owed <= before + mine + fixers
      BY <2>2 DEF TotalInv, TypeOK
    <3>2. /\ mine <= Cap /\ total \in Nat /\ owed \in Nat
          /\ before \in Nat /\ fixers \in Nat /\ mine \in Nat /\ Cap \in Nat
      BY <2>1, <2>2, <2>3 DEF TypeOK
    <3> HIDE DEF mine, owed, before, fixers
    <3>3. total <= before + Cap + fixers
      BY <3>1, <3>2
    <3> QED BY <3>3 DEF before, fixers
  <2> QED BY <2>2, <2>4 DEF CostBounded, Cap
<1> QED BY <1>1, <1>2, CostInductive, TotalInductive, BudgetTypeCorrect, PTL DEF Spec

-----------------------------------------------------------------------------

\* A step's deadline lies within the cap or its floor, and only the turn in
\* flight passes it.
TimeInv ==
  /\ pc \in {"turn", "charge"} => deadline <= MaxWall + MinTimeout
  /\ pc \in {"turn", "charge"} => elapsed <= deadline + TurnTime

LEMMA TimeInductive == TypeOK /\ TimeInv /\ [Next]_vars => TimeInv'
<1> SUFFICES ASSUME TypeOK, TimeInv, [Next]_vars PROVE TimeInv'
  OBVIOUS
<1> USE BudgetConstants DEF TypeOK, TimeInv, Point, request, Return, Idle
<1>1. CASE Elapse \/ Refuse \/ Charge \/ SpawnFixer \/ Resume
  BY <1>1 DEF Elapse, Refuse, Charge, SpawnFixer, Resume
<1>2. CASE BeginStep
  <2>1. StepTimeout \in Nat /\ elapsed + StepTimeout <= MaxWall + MinTimeout
    BY <1>2 DEF BeginStep, NoTimeLeft, StepTimeout, Greater, Lesser
  <2> QED BY <1>2, <2>1 DEF BeginStep
<1>3. CASE OutOfTurns \/ PastDeadline
  BY <1>3 DEF OutOfTurns, PastDeadline, InCall
<1>4. CASE ProviderFails
  BY <1>4 DEF ProviderFails, InCall
<1>5. CASE ProviderAnswers
  <2>1. elapsed' <= deadline + TurnTime /\ deadline' = deadline /\ InCall
    BY <1>5 DEF ProviderAnswers
  <2>2. pc = "fixing" => pc' \in {"served", "fixing"}
    BY <1>5 DEF ProviderAnswers
  <2> QED BY <2>1, <2>2 DEF InCall
<1>6. CASE UNCHANGED vars
  BY <1>6 DEF vars
<1> QED BY <1>1, <1>2, <1>3, <1>4, <1>5, <1>6 DEF Next, Loop

\* A step outlives the wall-clock cap by its floor and one turn at most.
THEOREM OverrunBounded == Spec => []Overrun
<1>1. Init => TimeInv
  BY DEF Init, TimeInv
<1>2. TypeOK /\ TimeInv => Overrun
  BY BudgetConstants DEF TypeOK, TimeInv, Overrun
<1> QED BY <1>1, <1>2, TimeInductive, BudgetTypeCorrect, PTL DEF Spec

\* What a run costs and how long a step lasts, whatever the caps are.
THEOREM CapsAreHeld == Spec => []CapsHold
<1>1. CostBounded /\ Overrun => CapsHold
  BY DEF CapsHold
<1> QED BY <1>1, CostIsBounded, OverrunBounded, PTL

(***************************************************************************)
(* ProcessExecutor, for any number of calls and interruptions.             *)
(*                                                                         *)
(* A call whose kill goes by the tree comes to proc.kill() with no child   *)
(* alive and no helper attached to a child that was, or with a taskkill    *)
(* that failed; a call that has come back is never touched again, so what  *)
(* held then holds for good.                                               *)
(***************************************************************************)

Came(c) == result[c].outcome \notin {"none", "raised"}

\* Nothing has happened to a call that is still to be made, and the one that is
\* running has no result yet.
CallInv ==
  /\ phase # "idle" => call > 0 /\ result[call].outcome = "none"
  /\ \A c \in Calls : c > call =>
       result[c].outcome = "none" /\ child[c] = "none" /\ helper[c] = "none"

\* Only an earlier call has its changes counted as made under a later one.
FilesInv ==
  /\ \A c \in touched : c < call
  /\ \A d \in Calls : \A c \in result[d].files : c < d /\ d <= call

\* What the kill finds, and leaves.
Torn ==
  /\ child[call] # "alive" \/ call \in untaken
  /\ helper[call] = "attached" => child[call] \in {"ok", "failed"} \/ call \in untaken
KillInv ==
  /\ phase \in {"communicate", "taskkill"} => child[call] \in {"alive", "ok", "failed"}
  /\ phase = "kill" /\ nt /\ tool = "process" => Torn
  /\ phase = "drain" => child[call] # "alive" /\ (nt /\ tool = "process" => Torn)

\* What EditsAreOwn will need of the changes counted so far.
TouchedInv ==
  \A c \in Calls : result[c].outcome = "ok" /\ c \in touched => helper[c] \in {"detached", "left"}

KilledInv == ProcessTypeOK /\ CallInv /\ KillInv /\ TreeIsKilled
OwnInv == FilesInv /\ TouchedInv /\ EditsAreOwn

-----------------------------------------------------------------------------
(* Types.                                                                  *)

LEMMA CallFacts ==
  ASSUME ProcessTypeOK
  PROVE  /\ MaxCalls \in Nat \ {0}
         /\ call \in Nat /\ call <= MaxCalls
         /\ call > 0 => call \in Calls
         /\ call < MaxCalls => call + 1 \in Calls
BY CallAssumption DEF ProcessTypeOK, Calls

LEMMA ProcessTypeInductive ==
  ASSUME ProcessTypeOK, [ProcessNext]_processVars
  PROVE  ProcessTypeOK'
<1> USE CallAssumption, CallFacts DEF ProcessTypeOK
<1>1. CASE ChildEnds
  BY <1>1 DEF ChildEnds
<1>2. CASE ChildStartsHelper
  BY <1>2 DEF ChildStartsHelper
<1>3. CASE HelperEnds
  BY <1>3 DEF HelperEnds
<1>4. CASE StrayEdit
  BY <1>4 DEF StrayEdit, Calls
<1>5. ASSUME NEW outcome \in {"ok", "failed", "timed_out"}, Finish(outcome)
      PROVE  ProcessTypeOK'
  BY <1>5 DEF Finish
<1>6. CASE Spawn
  <2>1. call' \in 0..MaxCalls /\ touched' \subseteq Calls /\ tool' \in {"process", "shell"}
    BY <1>6 DEF Spawn
  <2>2. child' \in [Calls -> {"none", "alive", "failed", "ok", "killed"}]
    BY <1>6 DEF Spawn
  <2>3. result' \in [Calls -> [outcome : {"none", "ok", "failed", "timed_out", "raised"},
                               files : SUBSET Calls]]
    BY <1>6 DEF Spawn
  <2> QED BY <1>6, <2>1, <2>2, <2>3 DEF Spawn
<1>7. CASE Communicated
  BY <1>5, <1>7 DEF Communicated
<1>8. CASE TimesOut
  BY <1>8 DEF TimesOut
<1>9. CASE TaskKill
  BY <1>9 DEF TaskKill
<1>16. CASE TaskKillFails
  <2>1. untaken' \subseteq 0..MaxCalls
    BY <1>16 DEF TaskKillFails
  <2>2. child' \in [Calls -> {"none", "alive", "failed", "ok", "killed"}]
    BY <1>16 DEF TaskKillFails, Slain
  <2> QED BY <1>16, <2>1, <2>2 DEF TaskKillFails
<1>10. CASE Kill
  BY <1>10 DEF Kill, Slain
<1>11. CASE Drained
  BY <1>5, <1>11 DEF Drained
<1>12. CASE GiveUp
  BY <1>5, <1>12 DEF GiveUp
<1>13. CASE CutShort
  <2>1. stops' \in 0..MaxStops
    BY <1>13 DEF CutShort
  <2> QED BY <1>13, <2>1 DEF CutShort, Slain
<1>14. CASE Resumed
  BY <1>14 DEF Resumed
<1>15. CASE UNCHANGED processVars
  BY <1>15 DEF processVars
<1> QED
  BY <1>1, <1>2, <1>3, <1>4, <1>6, <1>7, <1>8, <1>9, <1>10, <1>11, <1>12, <1>13, <1>14, <1>15,
     <1>16 DEF ProcessNext, Processes, Caller

\* Whatever the processes of the workspace do.
THEOREM ProcessTypeCorrect == ProcessSpec => []ProcessTypeOK
<1>1. ProcessInit => ProcessTypeOK
  BY CallAssumption DEF ProcessInit, ProcessTypeOK
<1> QED BY <1>1, ProcessTypeInductive, PTL DEF ProcessSpec

-----------------------------------------------------------------------------
(* What the kill leaves.                                                   *)

\* A call that has just come back: its child is gone and so is its helper, but
\* for the one a tree walk cannot find.
LEMMA ComesBack ==
  ASSUME KilledInv, NEW outcome \in {"ok", "failed", "timed_out"}, Finish(outcome), phase # "idle",
         child[call] # "alive",
         helper[call] = "attached" =>
           outcome = "timed_out" /\ (nt => child[call] \in {"ok", "failed"} \/ call \in untaken)
  PROVE  KilledInv'
<1> USE CallFacts DEF KilledInv, ProcessTypeOK
<1>1. ProcessTypeOK'
  BY DEF Finish
<1>2. CallInv'
  BY DEF Finish, CallInv
<1>3. KillInv'
  BY DEF Finish, KillInv
<1>4. TreeIsKilled'
  BY DEF Finish, TreeIsKilled, CallInv
<1> QED BY <1>1, <1>2, <1>3, <1>4

LEMMA KillInductive ==
  ASSUME KilledInv, [ProcessNext]_processVars
  PROVE  KilledInv'
<1> USE CallFacts DEF KilledInv
<1>0. ProcessTypeOK'
  BY ProcessTypeInductive
<1>1. CASE ChildEnds
  <2>1. CallInv' /\ KillInv'
    BY <1>1 DEF ChildEnds, ProcessTypeOK, CallInv, KillInv, Torn
  <2>2. TreeIsKilled'
    BY <1>1 DEF ChildEnds, ProcessTypeOK, TreeIsKilled
  <2> QED BY <1>0, <2>1, <2>2
<1>2. CASE ChildStartsHelper
  <2>1. CallInv' /\ KillInv'
    BY <1>2 DEF ChildStartsHelper, ProcessTypeOK, CallInv, KillInv, Torn
  <2>2. TreeIsKilled'
    BY <1>2 DEF ChildStartsHelper, ProcessTypeOK, TreeIsKilled
  <2> QED BY <1>0, <2>1, <2>2
<1>3. CASE HelperEnds
  <2>1. PICK c \in Calls : Alive(c) /\ helper' = [helper EXCEPT ![c] = IF @ = "detached" THEN "left" ELSE "dead"]
    BY <1>3 DEF HelperEnds
  <2>2. \A d \in Calls : helper'[d] = "attached" => helper[d] = "attached"
    BY <2>1 DEF ProcessTypeOK
  <2>3. \A d \in Calls : helper[d] = "none" => helper'[d] = "none"
    BY <2>1 DEF ProcessTypeOK, Alive
  <2>4. UNCHANGED <<nt, call, tool, phase, child, result, untaken>>
    BY <1>3 DEF HelperEnds
  <2>5. CallInv' /\ KillInv'
    BY <2>2, <2>3, <2>4 DEF ProcessTypeOK, CallInv, KillInv, Torn
  <2>6. TreeIsKilled'
    BY <2>2, <2>4 DEF TreeIsKilled
  <2> QED BY <1>0, <2>5, <2>6
<1>4. CASE StrayEdit
  <2>1. UNCHANGED <<nt, call, tool, phase, child, helper, result, untaken>>
    BY <1>4 DEF StrayEdit
  <2> QED BY <1>0, <2>1 DEF CallInv, KillInv, Torn, TreeIsKilled
<1>5. CASE Spawn
  <2>0. call + 1 \in Calls /\ call' = call + 1 /\ phase' \in {"idle", "communicate"}
    BY <1>5, CallFacts DEF Spawn
  <2>3. KillInv'
    <3>1. phase' = "communicate" => child'[call'] = "alive"
      BY <1>5, <2>0 DEF Spawn, ProcessTypeOK
    <3> QED BY <2>0, <3>1 DEF KillInv
  <2>4. CallInv'
    <3>1. phase' # "idle" => call' > 0 /\ result'[call'].outcome = "none"
      BY <1>5, <2>0 DEF Spawn, ProcessTypeOK, CallInv
    <3>2. ASSUME NEW c \in Calls, c > call'
          PROVE  result'[c].outcome = "none" /\ child'[c] = "none" /\ helper'[c] = "none"
      <4>1. c > call /\ c # call + 1
        BY <2>0, <3>2, CallFacts DEF Calls
      <4>2. result'[c].outcome = result[c].outcome
        BY <1>5, <4>1 DEF Spawn, ProcessTypeOK
      <4>3. child'[c] = child[c] /\ helper'[c] = helper[c]
        BY <1>5, <4>1 DEF Spawn, ProcessTypeOK
      <4> QED BY <4>1, <4>2, <4>3 DEF CallInv
    <3> QED BY <3>1, <3>2 DEF CallInv
  <2>1. CallInv' /\ KillInv'
    BY <2>3, <2>4
  <2>2. TreeIsKilled'
    BY <1>5 DEF Spawn, ProcessTypeOK, TreeIsKilled, CallInv
  <2> QED BY <1>0, <2>1, <2>2
<1>6. CASE Communicated
  BY <1>6, ComesBack DEF Communicated, AtEof
<1>7. CASE TimesOut
  BY <1>0, <1>7 DEF TimesOut, CallInv, KillInv, Torn, TreeIsKilled
<1>8. CASE TaskKill
  <2>1. CallInv' /\ KillInv'
    BY <1>8 DEF TaskKill, ProcessTypeOK, CallInv, KillInv, Torn
  <2>2. TreeIsKilled'
    BY <1>8 DEF TaskKill, ProcessTypeOK, TreeIsKilled
  <2> QED BY <1>0, <2>1, <2>2
<1>15. CASE TaskKillFails
  <2>1. CallInv' /\ KillInv'
    BY <1>15 DEF TaskKillFails, Slain, ProcessTypeOK, CallInv, KillInv, Torn
  <2>2. TreeIsKilled'
    BY <1>15 DEF TaskKillFails, Slain, ProcessTypeOK, TreeIsKilled
  <2> QED BY <1>0, <2>1, <2>2
<1>9. CASE Kill
  <2>1. CallInv' /\ KillInv'
    BY <1>9 DEF Kill, Slain, ProcessTypeOK, CallInv, KillInv, Torn
  <2>2. TreeIsKilled'
    BY <1>9 DEF Kill, Slain, ProcessTypeOK, TreeIsKilled
  <2> QED BY <1>0, <2>1, <2>2
<1>10. CASE Drained
  BY <1>10, ComesBack DEF Drained, AtEof
<1>11. CASE GiveUp
  BY <1>11, ComesBack DEF GiveUp, KillInv, Torn
<1>12. CASE CutShort
  <2>1. CallInv' /\ KillInv'
    BY <1>12 DEF CutShort, Slain, ProcessTypeOK, CallInv, KillInv, Torn
  <2>2. TreeIsKilled'
    BY <1>12 DEF CutShort, Slain, ProcessTypeOK, TreeIsKilled
  <2> QED BY <1>0, <2>1, <2>2
<1>13. CASE Resumed
  BY <1>0, <1>13 DEF Resumed, CallInv, KillInv, Torn, TreeIsKilled
<1>14. CASE UNCHANGED processVars
  BY <1>0, <1>14 DEF processVars, CallInv, KillInv, Torn, TreeIsKilled
<1> QED
  BY <1>1, <1>2, <1>3, <1>4, <1>5, <1>6, <1>7, <1>8, <1>9, <1>10, <1>11, <1>12, <1>13, <1>14,
     <1>15 DEF ProcessNext, Processes, Caller

LEMMA KillInvariant == ProcessSpec => []KilledInv
<1>1. ProcessInit => KilledInv
  BY CallAssumption DEF ProcessInit, KilledInv, ProcessTypeOK, CallInv, KillInv, TreeIsKilled
<1> QED BY <1>1, KillInductive, PTL DEF ProcessSpec

\* The kill of process.py takes the tree, or there was none left to walk, or its
\* taskkill has failed, which it does not notice.
THEOREM TreesAreKilled == ProcessSpec => []TreeIsKilled
<1>1. KilledInv => TreeIsKilled
  BY DEF KilledInv
<1> QED BY <1>1, KillInvariant, PTL

-----------------------------------------------------------------------------
(* Whose the changes are.                                                  *)

\* A call comes back with the changes counted so far; it is said to succeed only
\* of a child that did, with no helper on its pipes.
LEMMA ComesBackOwn ==
  ASSUME KilledInv, OwnInv, NEW outcome \in {"ok", "failed", "timed_out"}, Finish(outcome),
         phase # "idle",
         outcome = "ok" => child[call] = "ok" /\ helper[call] # "attached"
  PROVE  OwnInv'
<1> USE CallFacts DEF KilledInv, OwnInv, ProcessTypeOK
<1>1. /\ call \in Calls
      /\ result' = [result EXCEPT ![call] = [outcome |-> outcome, files |-> touched]]
      /\ UNCHANGED <<call, child, helper, touched>>
  BY DEF Finish, CallInv
<1>2. FilesInv'
  BY <1>1 DEF FilesInv
<1>3. TouchedInv'
  BY <1>1 DEF TouchedInv, FilesInv
<1>4. EditsAreOwn'
  <2> SUFFICES ASSUME NEW c \in Calls, result'[c].outcome = "ok"
               PROVE  /\ child[c] = "ok" /\ helper[c] # "attached"
                      /\ \A d \in (c + 1)..MaxCalls :
                           c \in result'[d].files => helper[c] \in {"detached", "left"}
    BY <1>1 DEF EditsAreOwn
  <2>1. child[c] = "ok" /\ helper[c] # "attached"
    BY <1>1 DEF EditsAreOwn
  <2>2. ASSUME NEW d \in (c + 1)..MaxCalls, c \in result'[d].files
        PROVE  helper[c] \in {"detached", "left"}
    <3>1. d \in Calls /\ c < d
      BY DEF Calls
    <3>2. CASE d = call
      BY <1>1, <2>2, <3>1, <3>2 DEF TouchedInv
    <3>3. CASE d # call
      BY <1>1, <2>2, <3>1, <3>3 DEF EditsAreOwn, FilesInv
    <3> QED BY <3>2, <3>3
  <2> QED BY <2>1, <2>2
<1> QED BY <1>2, <1>3, <1>4

\* A step that leaves the calls that came back alone: no child that ended well
\* ends otherwise, no helper is attached anew or disappears without a trace.
LEMMA LeavesBe ==
  ASSUME KilledInv, OwnInv, UNCHANGED <<call, result>>,
         \A c \in Calls : result[c].outcome = "ok" =>
           /\ child[c] = "ok" => child'[c] = "ok"
           /\ helper[c] # "attached" => helper'[c] # "attached"
           /\ helper[c] \in {"detached", "left"} => helper'[c] \in {"detached", "left"},
         \A c \in touched' : c \in touched \/ (c < call /\ (child[c] = "alive" \/ Alive(c)))
  PROVE  OwnInv'
<1> USE CallFacts DEF KilledInv, OwnInv
<1>1. FilesInv'
  BY DEF FilesInv
<1>2. TouchedInv'
  BY DEF TouchedInv, TreeIsKilled, Alive
<1>3. EditsAreOwn'
  BY DEF EditsAreOwn
<1> QED BY <1>1, <1>2, <1>3

LEMMA OwnInductive ==
  ASSUME KilledInv, OwnInv, [ProcessNext]_processVars
  PROVE  OwnInv'
<1> USE CallFacts DEF KilledInv, ProcessTypeOK
<1>1. CASE ChildEnds
  BY <1>1, LeavesBe DEF ChildEnds
<1>2. CASE ChildStartsHelper
  BY <1>2, LeavesBe DEF ChildStartsHelper, TreeIsKilled
<1>3. CASE HelperEnds
  <2>1. PICK c \in Calls : Alive(c) /\ helper' = [helper EXCEPT ![c] = IF @ = "detached" THEN "left" ELSE "dead"]
    BY <1>3 DEF HelperEnds
  <2>2. \A d \in Calls : helper[d] # "attached" => helper'[d] # "attached"
    BY <2>1
  <2>3. \A d \in Calls : helper[d] \in {"detached", "left"} => helper'[d] \in {"detached", "left"}
    BY <2>1 DEF Alive
  <2> QED BY <1>3, <2>2, <2>3, LeavesBe DEF HelperEnds
<1>4. CASE StrayEdit
  <2>1. PICK c \in 1..(call - 1) : (child[c] = "alive" \/ Alive(c)) /\ touched' = touched \cup {c}
    BY <1>4 DEF StrayEdit
  <2> QED BY <1>4, <2>1, LeavesBe DEF StrayEdit
<1>5. CASE Spawn
  <2>1. call' = call + 1 /\ touched' = {} /\ helper' = helper
    BY <1>5 DEF Spawn
  <2>2. \A c \in Calls : result'[c].files = result[c].files
    BY <1>5 DEF Spawn
  <2>3. \A c \in Calls : result'[c].outcome = "ok" => result[c].outcome = "ok"
    BY <1>5 DEF Spawn
  <2>4. \A c \in Calls : result[c].outcome = "ok" => child'[c] = child[c]
    BY <1>5 DEF Spawn, CallInv
  <2>5. FilesInv'
    <3>1. \A c \in touched' : c < call'
      BY <2>1
    <3>2. \A d \in Calls : d <= call => d <= call'
      BY <2>1 DEF Calls
    <3>3. \A d \in Calls : \A c \in result'[d].files : c < d /\ d <= call'
      BY <2>2, <3>2 DEF OwnInv, FilesInv
    <3> QED BY <3>1, <3>3 DEF FilesInv
  <2>6. TouchedInv'
    BY <2>1 DEF TouchedInv
  <2>7. EditsAreOwn'
    <3> SUFFICES ASSUME NEW c \in Calls, result'[c].outcome = "ok"
                 PROVE  /\ child'[c] = "ok" /\ helper'[c] # "attached"
                        /\ \A d \in (c + 1)..MaxCalls :
                             c \in result'[d].files => helper'[c] \in {"detached", "left"}
      BY DEF EditsAreOwn
    <3>1. /\ child[c] = "ok" /\ helper[c] # "attached"
          /\ \A d \in (c + 1)..MaxCalls :
               c \in result[d].files => helper[c] \in {"detached", "left"}
      BY <2>3 DEF OwnInv, EditsAreOwn
    <3>2. child'[c] = child[c]
      BY <2>3, <2>4
    <3>3. \A d \in (c + 1)..MaxCalls : result'[d].files = result[d].files
      BY <2>2 DEF Calls
    <3> QED BY <2>1, <3>1, <3>2, <3>3
  <2> QED BY <2>5, <2>6, <2>7 DEF OwnInv
<1>6. CASE Communicated
  BY <1>6, ComesBackOwn DEF Communicated, AtEof
<1>7. CASE TimesOut
  BY <1>7, LeavesBe DEF TimesOut
<1>8. CASE TaskKill
  BY <1>8, LeavesBe DEF TaskKill, CallInv
<1>15. CASE TaskKillFails
  BY <1>15, LeavesBe DEF TaskKillFails, Slain
<1>9. CASE Kill
  BY <1>9, LeavesBe DEF Kill, Slain
<1>10. CASE Drained
  BY <1>10, ComesBackOwn DEF Drained
<1>11. CASE GiveUp
  BY <1>11, ComesBackOwn DEF GiveUp
<1>12. CASE CutShort
  BY <1>12, LeavesBe DEF CutShort, Slain
<1>13. CASE Resumed
  BY <1>13, LeavesBe DEF Resumed
<1>14. CASE UNCHANGED processVars
  BY <1>14, LeavesBe DEF processVars
<1> QED
  BY <1>1, <1>2, <1>3, <1>4, <1>5, <1>6, <1>7, <1>8, <1>9, <1>10, <1>11, <1>12, <1>13, <1>14,
     <1>15 DEF ProcessNext, Processes, Caller

\* The processes of a call that succeeded change nothing under a later one, but
\* for a helper that cut itself off (process.py:150-177).
THEOREM ChangesAreOwn == ProcessSpec => []EditsAreOwn
<1>1. ProcessInit => OwnInv
  BY CallAssumption DEF ProcessInit, OwnInv, FilesInv, TouchedInv, EditsAreOwn
<1>2. OwnInv => EditsAreOwn
  BY DEF OwnInv
<1> QED BY <1>1, <1>2, KillInvariant, OwnInductive, PTL DEF ProcessSpec

(***************************************************************************)
(* SolariRuntime, for any number of machines, failures and Ctrl-C.         *)
(*                                                                         *)
(* A machine that lives and that nobody has lost is the session of the     *)
(* object, or about to become it: somebody is still to tear it down.  That *)
(* needs to be known of the coroutine that may still be on the loop when   *)
(* stop() runs: there is one only after a Ctrl-C, and one that will yet    *)
(* set the session finds none set.                                         *)
(***************************************************************************)

Starts == {"begin", "enter", "create", "connect", "launch"}

\* Where the coroutine can be, from where the main thread is.
PlaceInv ==
  /\ main \in {"down", "up"} => work = NoWork
  /\ main = "starting" => work.at \in Starts \cup {"health", "done", "failed"}
  /\ main = "calling" => work.at \in {"context", "run", "page", "shot", "done", "failed"}
  /\ main \in {"stop", "stopping", "clear", "close"} /\ interrupts = 0 => work = NoWork
  /\ teardown # "none" => main \in {"stopping", "gone"}

\* What the fields of the object can be.
FieldInv ==
  /\ main \in {"starting", "up", "calling", "stopping"} => loop
  /\ main # "gone" /\ session # None => loop
  /\ work.at \in Starts => session = None
  /\ main = "starting" => page = None /\ codeCtx = None
  /\ main = "calling" /\ work.at \in {"context", "page"} => work.vm = session
  /\ main = "close" /\ interrupts = 0 =>
       ~client /\ session = None /\ page = None /\ codeCtx = None

\* The machine that start() waits for lives.
LiveInv ==
  /\ work.at = "connect" => work.vm \in VM
  /\ main = "starting" /\ work.at = "connect" => fate[work.vm] = "alive"
  /\ main = "starting" /\ work.at \in {"health", "done"} =>
       session # None /\ fate[session] = "alive"

\* Every other living machine is lost, or owed a teardown.
OwedInv ==
  \A v \in VM : fate[v] = "alive" /\ lost[v] = "no" =>
    \/ main \in {"starting", "up", "calling", "stop", "stopping"} /\ v = session
       /\ teardown \notin {"exit", "done"}
    \/ main = "starting" /\ work.at = "connect" /\ v = work.vm

RuntimeInv == RuntimeTypeOK /\ PlaceInv /\ FieldInv /\ LiveInv /\ OwedInv /\ HandlesAreCurrent

-----------------------------------------------------------------------------
(* Types.                                                                  *)

\* The variables of the runtime keep their types.
LEMMA RuntimeTypeInductive ==
  ASSUME RuntimeTypeOK, [RuntimeNext]_runtimeVars
  PROVE  RuntimeTypeOK'
<1>a. NoWork \in Coroutine /\ None = 0
  BY RuntimeAssumption DEF NoWork, Coroutine, None
<1>b. ASSUME NEW w \in Coroutine, NEW at \in Awaits \cup {"done", "failed"}, NEW v \in VM \cup {None}
      PROVE  /\ [w EXCEPT !.at = at] \in Coroutine
             /\ [w EXCEPT !.at = at, !.vm = v] \in Coroutine
             /\ w.vm \in VM \cup {None}
  BY <1>b DEF Coroutine
<1> USE RuntimeAssumption DEF RuntimeTypeOK, handles, vms, bounds
<1>1. CASE Start
  BY <1>a, <1>b, <1>1 DEF Awaits, Start
<1>2. CASE StartRaises
  BY <1>2 DEF StartRaises, Fails
<1>3. CASE Exec
  <2>1. PICK at \in {"run", "context"} : Call(at)
    BY <1>3 DEF Exec
  <2>2. work' \in Coroutine
    BY <1>a, <1>b, <2>1 DEF Call, Awaits
  <2> QED BY <2>1, <2>2 DEF Call
<1>4. CASE Screenshot
  <2>1. PICK at \in {"page", "shot"} : Call(at)
    BY <1>4 DEF Screenshot
  <2>2. work' \in Coroutine
    BY <1>a, <1>b, <2>1 DEF Call, Awaits
  <2> QED BY <2>1, <2>2 DEF Call
<1>5. CASE RunEnds
  BY <1>5 DEF RunEnds
<1>6. CASE Begin
  <2>1. client' \in BOOLEAN
    BY <1>6, Zenon DEF Begin
  <2>2. work' \in Coroutine
    BY <1>b, <1>6 DEF Awaits, Begin
  <2> QED BY <1>6, <2>1, <2>2 DEF Begin
<1>7. CASE Enter
  <2>1. work' \in Coroutine
    BY <1>b, <1>7 DEF Awaits, Enter
  <2> QED BY <1>7, <2>1 DEF Enter
<1>8. CASE Create
  <2>1. PICK v \in VM : Born(v) /\ work' = [work EXCEPT !.at = "connect", !.vm = v]
    BY <1>8 DEF Create
  <2>2. work' \in Coroutine
    BY <1>b, <2>1 DEF Awaits
  <2>3. fate' \in [VM -> {"unborn", "alive", "dead"}]
    BY <2>1 DEF Born
  <2>4. lost' \in [VM -> {"no", "connect", "teardown", "ctrl_c"}]
    BY <2>1 DEF Born, Lose
  <2> QED BY <1>8, <2>2, <2>3, <2>4 DEF Create
<1>9. CASE Connect
  <2>1. work' \in Coroutine /\ session' \in VM \cup {None}
    BY <1>b, <1>9 DEF Connect, Awaits
  <2> QED BY <1>9, <2>1 DEF Connect
<1>10. CASE Launch
  <2>1. PICK v \in VM : Born(v) /\ session' = v
    BY <1>10 DEF Launch
  <2>2. work' \in Coroutine
    BY <1>b, <1>10 DEF Launch
  <2>3. fate' \in [VM -> {"unborn", "alive", "dead"}]
    BY <2>1 DEF Born
  <2>4. lost' \in [VM -> {"no", "connect", "teardown", "ctrl_c"}]
    BY <2>1 DEF Born, Lose
  <2> QED BY <1>10, <2>1, <2>2, <2>3, <2>4 DEF Launch
<1>11. CASE Health
  <2>1. work' \in Coroutine
    BY <1>11 DEF Health, Running, Coroutine
  <2> QED BY <1>11, <2>1 DEF Health
<1>12. CASE CallFails
  <2>1. work' \in Coroutine
    BY <1>b, <1>12 DEF CallFails
  <2>2. lost' \in [VM -> {"no", "connect", "teardown", "ctrl_c"}]
    BY <1>12 DEF CallFails, Lose
  <2> QED BY <1>12, <2>1, <2>2 DEF CallFails, Fails
<1>13. CASE Context
  <2>1. work' \in Coroutine /\ codeCtx' \in VM \cup {None}
    BY <1>b, <1>13 DEF Context, Awaits
  <2> QED BY <1>13, <2>1 DEF Context
<1>14. CASE NewPage
  <2>1. work' \in Coroutine /\ page' \in VM \cup {None}
    BY <1>b, <1>14 DEF NewPage, Awaits
  <2> QED BY <1>14, <2>1 DEF NewPage
<1>15. CASE Answer
  <2>1. work' \in Coroutine
    BY <1>b, <1>15 DEF Answer
  <2> QED BY <1>15, <2>1 DEF Answer
<1>16. CASE TeardownBegins
  BY <1>16 DEF TeardownBegins, Tearing
<1>17. CASE Destroy
  <2>1. fate' \in [VM -> {"unborn", "alive", "dead"}]
    BY <1>17 DEF Destroy
  <2>2. teardown' \in {"done", "exit"}
    BY <1>17 DEF Destroy, AfterEnd
  <2> QED BY <1>17, <2>1, <2>2 DEF Destroy
<1>18. CASE DestroyFails
  BY <1>18 DEF DestroyFails, Ends, AfterEnd, Tearing, Fails, Lose
<1>19. CASE CloseSession
  BY <1>19 DEF CloseSession, Fails, Tearing
<1>20. CASE ExitClient
  BY <1>20 DEF ExitClient, Fails, Tearing
<1>21. CASE StartReturns
  BY <1>a, <1>b, <1>21 DEF Awaits, StartReturns
<1>22. CASE CallReturns
  BY <1>a, <1>b, <1>22 DEF Awaits, CallReturns
<1>23. CASE Stop
  BY <1>23 DEF Stop
<1>24. CASE StopReturns
  BY <1>24 DEF StopReturns
<1>25. CASE Clear
  BY <1>25 DEF Clear
<1>26. CASE Close
  <2>1. loop' \in BOOLEAN /\ started' \in BOOLEAN
    BY <1>26, Zenon DEF Close
  <2> QED BY <1>a, <1>26, <2>1 DEF Close
<1>27. CASE Interrupt
  BY <1>27 DEF Interrupt, Lose
<1>28. CASE Relaunch
  <2>1. loop' \in BOOLEAN /\ started' \in BOOLEAN /\ client' \in BOOLEAN
    BY <1>28, Zenon DEF Relaunch
  <2> QED BY <1>a, <1>28, <2>1 DEF Relaunch
<1>29. CASE UNCHANGED runtimeVars
  BY <1>29 DEF runtimeVars
<1> QED
  BY <1>1, <1>2, <1>3, <1>4, <1>5, <1>6, <1>7, <1>8, <1>9, <1>10, <1>11, <1>12, <1>13, <1>14,
     <1>15, <1>16, <1>17, <1>18, <1>19, <1>20, <1>21, <1>22, <1>23, <1>24, <1>25, <1>26, <1>27,
     <1>28, <1>29
     DEF RuntimeNext, OnLoop, OnMain

\* A runtime that was just made.
LEMMA RuntimeTypeInitially == RuntimeInit => RuntimeTypeOK
<1> SUFFICES ASSUME RuntimeInit PROVE RuntimeTypeOK
  OBVIOUS
<1>1. loop \in BOOLEAN /\ started \in BOOLEAN /\ client \in BOOLEAN
  BY Zenon DEF RuntimeInit, Fresh
<1>2. work \in Coroutine
  BY RuntimeAssumption DEF RuntimeInit, Fresh, NoWork, Coroutine, None
<1> QED BY <1>1, <1>2, RuntimeAssumption DEF RuntimeInit, Fresh, RuntimeTypeOK, None

\* Whatever the service and the user do.
THEOREM RuntimeTypeCorrect == RuntimeSpec => []RuntimeTypeOK
<1> QED BY RuntimeTypeInitially, RuntimeTypeInductive, PTL DEF RuntimeSpec

-----------------------------------------------------------------------------
(* The machines.                                                           *)

\* The five parts of the invariant are kept, one after the other.
LEMMA PlaceKept ==
  ASSUME RuntimeInv, [RuntimeNext]_runtimeVars
  PROVE  PlaceInv'
<1> USE RuntimeAssumption DEF RuntimeInv, RuntimeTypeOK, Coroutine, Awaits, VM, None, NoWork,
        Starts, handles, vms, bounds, PlaceInv
<1>1. CASE Start \/ StartRaises \/ RunEnds
  BY <1>1 DEF Start, StartRaises, RunEnds, Fails
<1>2. CASE StartReturns \/ CallReturns
  BY <1>2 DEF StartReturns, CallReturns
<1>3. CASE Exec \/ Screenshot
  BY <1>3 DEF Exec, Screenshot, Call
<1>4. CASE Begin \/ Enter
  BY <1>4 DEF Begin, Enter, Running
<1>5. CASE Create
  BY <1>5 DEF Create, Running, Born, Lose
<1>6. CASE Connect \/ Launch
  BY <1>6 DEF Connect, Launch, Running, Born, Lose
<1>7. CASE Health
  BY <1>7 DEF Health, Running
<1>8. CASE CallFails
  BY <1>8 DEF CallFails, Running, Fails, Lose
<1>9. CASE Context \/ NewPage \/ Answer
  BY <1>9 DEF Context, NewPage, Answer, Running
<1>10. CASE TeardownBegins \/ CloseSession \/ ExitClient
  BY <1>10 DEF TeardownBegins, CloseSession, ExitClient, Tearing, Fails
<1>11. CASE Destroy \/ DestroyFails
  BY <1>11 DEF Destroy, DestroyFails, Ends, AfterEnd, Tearing, Fails, Lose
<1>12. CASE Stop \/ StopReturns \/ Clear \/ Close
  BY <1>12 DEF Stop, StopReturns, Clear, Close
<1>13. CASE Interrupt
  BY <1>13 DEF Interrupt, Lose
<1>14. CASE Relaunch \/ UNCHANGED runtimeVars
  BY <1>14 DEF Relaunch, runtimeVars
<1> QED
  BY <1>1, <1>2, <1>3, <1>4, <1>5, <1>6, <1>7, <1>8, <1>9, <1>10, <1>11, <1>12, <1>13, <1>14
     DEF RuntimeNext, OnLoop, OnMain

LEMMA FieldsKept ==
  ASSUME RuntimeInv, [RuntimeNext]_runtimeVars
  PROVE  FieldInv'
<1> USE RuntimeAssumption DEF RuntimeInv, RuntimeTypeOK, Coroutine, Awaits, VM, None, NoWork,
        Starts, handles, vms, bounds, PlaceInv, FieldInv, HandlesAreCurrent, Fresh
<1>1. CASE Start \/ StartRaises \/ RunEnds
  BY <1>1 DEF Start, StartRaises, RunEnds, Fails
<1>2. CASE StartReturns \/ CallReturns
  BY <1>2 DEF StartReturns, CallReturns
<1>3. CASE Exec \/ Screenshot
  BY <1>3 DEF Exec, Screenshot, Call
<1>4. CASE Begin \/ Enter
  BY <1>4 DEF Begin, Enter, Running
<1>5. CASE Create
  BY <1>5 DEF Create, Running, Born, Lose
<1>6. CASE Connect \/ Launch
  BY <1>6, SMTT(30) DEF Connect, Launch, Running, Born, Lose
<1>7. CASE Health
  BY <1>7 DEF Health, Running
<1>8. CASE CallFails
  BY <1>8 DEF CallFails, Running, Fails, Lose
<1>9. CASE Context \/ NewPage \/ Answer
  BY <1>9, SMTT(30) DEF Context, NewPage, Answer, Running
<1>10. CASE TeardownBegins \/ CloseSession \/ ExitClient
  BY <1>10 DEF TeardownBegins, CloseSession, ExitClient, Tearing, Fails
<1>11. CASE Destroy \/ DestroyFails
  BY <1>11 DEF Destroy, DestroyFails, Ends, AfterEnd, Tearing, Fails, Lose
<1>12. CASE Stop \/ StopReturns \/ Clear \/ Close
  BY <1>12 DEF Stop, StopReturns, Clear, Close
<1>13. CASE Interrupt
  BY <1>13 DEF Interrupt, Lose
<1>14. CASE Relaunch \/ UNCHANGED runtimeVars
  BY <1>14 DEF Relaunch, runtimeVars
<1> QED
  BY <1>1, <1>2, <1>3, <1>4, <1>5, <1>6, <1>7, <1>8, <1>9, <1>10, <1>11, <1>12, <1>13, <1>14
     DEF RuntimeNext, OnLoop, OnMain

LEMMA LiveKept ==
  ASSUME RuntimeInv, [RuntimeNext]_runtimeVars
  PROVE  LiveInv'
<1> USE RuntimeAssumption DEF RuntimeInv, RuntimeTypeOK, Coroutine, Awaits, VM, None, NoWork,
        Starts, handles, vms, bounds, PlaceInv, FieldInv, LiveInv
<1>1. CASE Start \/ StartRaises \/ RunEnds
  BY <1>1 DEF Start, StartRaises, RunEnds, Fails
<1>2. CASE StartReturns \/ CallReturns
  BY <1>2 DEF StartReturns, CallReturns
<1>3. CASE Exec \/ Screenshot
  BY <1>3 DEF Exec, Screenshot, Call
<1>4. CASE Begin \/ Enter
  BY <1>4 DEF Begin, Enter, Running
<1>5. CASE Create
  BY <1>5 DEF Create, Running, Born, Lose
<1>6. CASE Connect \/ Launch
  BY <1>6 DEF Connect, Launch, Running, Born, Lose
<1>7. CASE Health
  BY <1>7 DEF Health, Running
<1>8. CASE CallFails
  BY <1>8 DEF CallFails, Running, Fails, Lose
<1>9. CASE Context \/ NewPage \/ Answer
  BY <1>9 DEF Context, NewPage, Answer, Running
<1>10. CASE TeardownBegins \/ CloseSession \/ ExitClient
  BY <1>10 DEF TeardownBegins, CloseSession, ExitClient, Tearing, Fails
<1>11. CASE Destroy \/ DestroyFails
  BY <1>11 DEF Destroy, DestroyFails, Ends, AfterEnd, Tearing, Fails, Lose
<1>12. CASE Stop \/ StopReturns \/ Clear \/ Close
  BY <1>12 DEF Stop, StopReturns, Clear, Close
<1>13. CASE Interrupt
  BY <1>13 DEF Interrupt, Lose
<1>14. CASE Relaunch \/ UNCHANGED runtimeVars
  BY <1>14 DEF Relaunch, runtimeVars
<1> QED
  BY <1>1, <1>2, <1>3, <1>4, <1>5, <1>6, <1>7, <1>8, <1>9, <1>10, <1>11, <1>12, <1>13, <1>14
     DEF RuntimeNext, OnLoop, OnMain

LEMMA HandlesKept ==
  ASSUME RuntimeInv, [RuntimeNext]_runtimeVars
  PROVE  HandlesAreCurrent'
<1> USE RuntimeAssumption DEF RuntimeInv, RuntimeTypeOK, Coroutine, Awaits, VM, None, NoWork,
        Starts, handles, vms, bounds, PlaceInv, FieldInv, LiveInv, HandlesAreCurrent, Fresh
<1>1. CASE Start \/ StartRaises \/ RunEnds
  BY <1>1 DEF Start, StartRaises, RunEnds, Fails
<1>2. CASE StartReturns \/ CallReturns
  BY <1>2 DEF StartReturns, CallReturns
<1>3. CASE Exec \/ Screenshot
  BY <1>3 DEF Exec, Screenshot, Call
<1>4. CASE Begin \/ Enter
  BY <1>4 DEF Begin, Enter, Running
<1>5. CASE Create
  BY <1>5 DEF Create, Running, Born, Lose
<1>6. CASE Connect \/ Launch
  BY <1>6 DEF Connect, Launch, Running, Born, Lose
<1>7. CASE Health
  BY <1>7 DEF Health, Running
<1>8. CASE CallFails
  BY <1>8 DEF CallFails, Running, Fails, Lose
<1>9. CASE Context \/ NewPage \/ Answer
  BY <1>9 DEF Context, NewPage, Answer, Running
<1>10. CASE TeardownBegins \/ CloseSession \/ ExitClient
  BY <1>10 DEF TeardownBegins, CloseSession, ExitClient, Tearing, Fails
<1>11. CASE Destroy \/ DestroyFails
  BY <1>11 DEF Destroy, DestroyFails, Ends, AfterEnd, Tearing, Fails, Lose
<1>12. CASE Stop \/ StopReturns \/ Clear \/ Close
  BY <1>12 DEF Stop, StopReturns, Clear, Close
<1>13. CASE Interrupt
  BY <1>13 DEF Interrupt, Lose
<1>14. CASE Relaunch \/ UNCHANGED runtimeVars
  BY <1>14 DEF Relaunch, runtimeVars
<1> QED
  BY <1>1, <1>2, <1>3, <1>4, <1>5, <1>6, <1>7, <1>8, <1>9, <1>10, <1>11, <1>12, <1>13, <1>14
     DEF RuntimeNext, OnLoop, OnMain

LEMMA OwedKept ==
  ASSUME RuntimeInv, [RuntimeNext]_runtimeVars
  PROVE  OwedInv'
<1> USE RuntimeAssumption DEF RuntimeInv, RuntimeTypeOK, Coroutine, Awaits, VM, None, NoWork,
        Starts, handles, vms, bounds, PlaceInv, FieldInv, LiveInv, OwedInv
<1>1. CASE Start \/ StartRaises \/ RunEnds
  BY <1>1 DEF Start, StartRaises, RunEnds, Fails
<1>2. CASE StartReturns \/ CallReturns
  BY <1>2 DEF StartReturns, CallReturns
<1>3. CASE Exec \/ Screenshot
  BY <1>3 DEF Exec, Screenshot, Call
<1>4. CASE Begin \/ Enter
  BY <1>4 DEF Begin, Enter, Running
<1>5. CASE Create
  BY <1>5 DEF Create, Running, Born, Lose
<1>6. CASE Connect \/ Launch
  BY <1>6 DEF Connect, Launch, Running, Born, Lose
<1>7. CASE Health
  BY <1>7 DEF Health, Running
<1>8. CASE CallFails
  BY <1>8 DEF CallFails, Running, Fails, Lose
<1>9. CASE Context \/ NewPage \/ Answer
  BY <1>9 DEF Context, NewPage, Answer, Running
<1>10. CASE TeardownBegins \/ CloseSession \/ ExitClient
  BY <1>10 DEF TeardownBegins, CloseSession, ExitClient, Tearing, Fails
<1>11. CASE Destroy \/ DestroyFails
  BY <1>11 DEF Destroy, DestroyFails, Ends, AfterEnd, Tearing, Fails, Lose
<1>12. CASE Stop \/ StopReturns \/ Clear \/ Close
  BY <1>12 DEF Stop, StopReturns, Clear, Close
<1>13. CASE Interrupt
  BY <1>13 DEF Interrupt, Lose
<1>14. CASE Relaunch \/ UNCHANGED runtimeVars
  BY <1>14 DEF Relaunch, runtimeVars
<1> QED
  BY <1>1, <1>2, <1>3, <1>4, <1>5, <1>6, <1>7, <1>8, <1>9, <1>10, <1>11, <1>12, <1>13, <1>14
     DEF RuntimeNext, OnLoop, OnMain

\* Together they always hold.
LEMMA RuntimeInvariant == RuntimeSpec => []RuntimeInv
<1>1. RuntimeInit => RuntimeInv
  BY RuntimeTypeInitially
     DEF RuntimeInit, Fresh, NoWork, Starts, RuntimeInv, PlaceInv, FieldInv, LiveInv, OwedInv,
         HandlesAreCurrent
<1>2. RuntimeInv /\ [RuntimeNext]_runtimeVars => RuntimeInv'
  BY RuntimeTypeInductive, PlaceKept, FieldsKept, LiveKept, HandlesKept, OwedKept DEF RuntimeInv
<1> QED BY <1>1, <1>2, PTL DEF RuntimeSpec

\* No machine outlives stop() but in the three ways (solari.py:257-284).
THEOREM MachinesAreTornDown == RuntimeSpec => []TornDown
<1>1. RuntimeInv => TornDown
  BY DEF RuntimeInv, OwedInv, TornDown
<1> QED BY <1>1, RuntimeInvariant, PTL

\* A runtime in use is connected to the machine that lives; a stopped one holds
\* nothing of it.
THEOREM HandlesStayCurrent == RuntimeSpec => []HandlesAreCurrent
<1>1. RuntimeInv => HandlesAreCurrent
  BY DEF RuntimeInv
<1> QED BY <1>1, RuntimeInvariant, PTL

(***************************************************************************)
(* Environment, for .env files of any length.                              *)
(***************************************************************************)

\* A set that has 0, and with a number the next one, has every number.
LEMMA SetInduction ==
  ASSUME NEW S, 0 \in S, \A n \in Nat : n \in S => n + 1 \in S
  PROVE  Nat \subseteq S
<1> DEFINE R == OpToRel(<, Nat)
           others == Nat \ S
<1>1. IsWellFoundedOn(R, Nat)
  BY NatLessThanWellFounded
<1>2. \A x, y \in Nat : <<x, y>> \in R <=> x < y
  BY DEF OpToRel
<1> HIDE DEF R
<1> SUFFICES ASSUME others # {} PROVE FALSE
  OBVIOUS
<1>3. PICK x \in others : \A y \in others : ~(<<y, x>> \in R)
  BY <1>1, WFMin
<1>4. x - 1 \in Nat /\ x - 1 \notin S
  BY <1>3
<1>5. <<x - 1, x>> \in R
  BY <1>2, <1>3, <1>4
<1> QED BY <1>3, <1>4, <1>5

\* The lines for a name among the first n, and the last of them.
LinesFor(lines, name, n) == {i \in 1..n : lines[i].kind = "assignment" /\ lines[i].name = name}
LastFor(lines, name, n) ==
  CHOOSE i \in LinesFor(lines, name, n) : \A j \in LinesFor(lines, name, n) : j <= i
Read(lines, n) ==
  [name \in {m \in STRING : LinesFor(lines, m, n) # {}} |-> Unquoted(lines[LastFor(lines, name, n)].value)]

\* One more line adds itself to those for its name, as the last of them.
LEMMA OneMoreLine ==
  ASSUME NEW lines, NEW n \in Nat, lines[n + 1].name \in STRING
  PROVE  Read(lines, n + 1) = ReadLine(Read(lines, n), lines[n + 1])
<1> DEFINE line == lines[n + 1]
<1>1. \A m : LinesFor(lines, m, n + 1) =
               LinesFor(lines, m, n) \cup {i \in {n + 1} : line.kind = "assignment" /\ line.name = m}
  BY DEF LinesFor
<1>2. CASE line.kind # "assignment"
  <2>1. \A m : LinesFor(lines, m, n + 1) = LinesFor(lines, m, n)
    BY <1>1, <1>2
  <2>2. \A m : LastFor(lines, m, n + 1) = LastFor(lines, m, n)
    BY <2>1 DEF LastFor
  <2> QED BY <1>2, <2>1, <2>2 DEF Read, ReadLine
<1>3. CASE line.kind = "assignment"
  <2>1. \A m : m # line.name => LinesFor(lines, m, n + 1) = LinesFor(lines, m, n)
    BY <1>1
  <2>2. \A m : m # line.name => LastFor(lines, m, n + 1) = LastFor(lines, m, n)
    BY <2>1 DEF LastFor
  <2>3. n + 1 \in LinesFor(lines, line.name, n + 1)
    BY <1>1, <1>3
  <2>4. LastFor(lines, line.name, n + 1) = n + 1
    <3>1. \A j \in LinesFor(lines, line.name, n + 1) : j \in 1..(n + 1)
      BY DEF LinesFor
    <3> QED BY <2>3, <3>1 DEF LastFor
  <2>5. DOMAIN Read(lines, n + 1) = DOMAIN Read(lines, n) \cup {line.name}
    BY <2>1, <2>3 DEF Read
  <2>6. \A m \in DOMAIN Read(lines, n + 1) :
          Read(lines, n + 1)[m] = IF m = line.name THEN Unquoted(line.value) ELSE Read(lines, n)[m]
    BY <2>1, <2>2, <2>4 DEF Read
  <2>7. Read(lines, n + 1) = [m \in DOMAIN Read(lines, n + 1) |-> Read(lines, n + 1)[m]]
    BY DEF Read
  <2>8. ReadLine(Read(lines, n), line) =
          [m \in DOMAIN Read(lines, n + 1) |->
             IF m = line.name THEN Unquoted(line.value) ELSE Read(lines, n)[m]]
    BY <1>3, <2>5, Zenon DEF ReadLine
  <2> HIDE DEF line
  <2> QED BY <2>6, <2>7, <2>8, Zenon DEF line
<1> QED BY <1>2, <1>3

\* The loop over the lines ends with the last value of each name.
LEMMA LoopReads ==
  ASSUME NEW lines \in Seq(EnvLine)
  PROVE  ParseDotenv(lines) = Read(lines, Len(lines))
<1> DEFINE N == Len(lines)
           Reads(h, i) == IF i = 0 THEN <<>> ELSE ReadLine(h[i - 1], lines[i])
           f == CHOOSE h : h = [i \in 0..N |-> Reads(h, i)]
           g == [i \in 0..N |-> Read(lines, i)]
           S == {i \in Nat : i <= N => f[i] = Read(lines, i)}
<1>1. N \in Nat /\ \A i \in 1..N : lines[i].name \in STRING
  <2>1. N \in Nat /\ \A i \in 1..N : lines[i] \in EnvLine
    OBVIOUS
  <2>2. \A l \in EnvLine : l.name \in STRING
    BY DEF EnvLine
  <2> QED BY <2>1, <2>2
<1> HIDE DEF N
<1>2. Read(lines, 0) = <<>>
  <2>1. \A m : LinesFor(lines, m, 0) = {}
    BY DEF LinesFor
  <2>2. DOMAIN Read(lines, 0) = {} /\ Read(lines, 0) = [m \in DOMAIN Read(lines, 0) |-> Read(lines, 0)[m]]
    BY <2>1 DEF Read
  <2> QED BY <2>2
<1>3. ASSUME NEW i \in 0..N, i # 0
      PROVE  Read(lines, i) = ReadLine(Read(lines, i - 1), lines[i])
  <2>1. i - 1 \in Nat /\ (i - 1) + 1 = i /\ lines[i].name \in STRING
    BY <1>1, <1>3
  <2> QED BY <2>1, OneMoreLine
<1>4. g = [i \in 0..N |-> Reads(g, i)]
  <2>1. \A i \in 0..N : i # 0 => g[i - 1] = Read(lines, i - 1)
    BY <1>1
  <2> HIDE DEF g
  <2>2. \A i \in 0..N : Read(lines, i) = Reads(g, i)
    BY <1>2, <1>3, <2>1, Zenon
  <2> HIDE DEF Reads
  <2> QED BY <2>2, Zenon DEF g
<1>5. f = [i \in 0..N |-> Reads(f, i)]
  <2> HIDE DEF g, Reads
  <2> QED BY <1>4, Zenon
<1> HIDE DEF f
<1>6. \A i \in 0..N : f[i] = Reads(f, i)
  <2> HIDE DEF Reads
  <2> QED BY <1>5, Zenon
<1>7. 0 \in S
  <2>1. 0 \in 0..N
    BY <1>1
  <2> QED BY <1>2, <1>6, <2>1
<1>8. \A n \in Nat : n \in S => n + 1 \in S
  <2> SUFFICES ASSUME NEW n \in Nat, n \in S, n + 1 <= N
               PROVE  f[n + 1] = Read(lines, n + 1)
    OBVIOUS
  <2>1. n + 1 \in 0..N /\ n + 1 # 0 /\ (n + 1) - 1 = n /\ f[n] = Read(lines, n)
    BY <1>1
  <2>2. f[n + 1] = ReadLine(f[n], lines[n + 1])
    BY <1>6, <2>1
  <2> QED BY <1>3, <2>1, <2>2
<1>9. f[N] = Read(lines, N)
  <2> HIDE DEF S
  <2>1. N \in S
    BY <1>1, <1>7, <1>8, SetInduction
  <2> QED BY <1>1, <2>1 DEF S
<1>10. ParseDotenv(lines) = f[N]
  BY Zenon DEF ParseDotenv, f, N
<1> QED BY <1>9, <1>10 DEF N

\* A name that has a line has a last one.
LEMMA LastLine ==
  ASSUME NEW lines, NEW name, NEW n \in Nat, LinesFor(lines, name, n) # {}
  PROVE  /\ LastFor(lines, name, n) \in LinesFor(lines, name, n)
         /\ \A j \in LinesFor(lines, name, n) : j <= LastFor(lines, name, n)
<1> DEFINE Has(k) == \E i \in LinesFor(lines, name, k) : \A j \in LinesFor(lines, name, k) : j <= i
           S == {k \in Nat : LinesFor(lines, name, k) # {} => Has(k)}
<1>1. 0 \in S
  BY DEF LinesFor
<1>2. \A k \in Nat : k \in S => k + 1 \in S
  <2> SUFFICES ASSUME NEW k \in Nat, k \in S, LinesFor(lines, name, k + 1) # {} PROVE Has(k + 1)
    OBVIOUS
  <2>1. CASE k + 1 \in LinesFor(lines, name, k + 1)
    <3>1. \A j \in LinesFor(lines, name, k + 1) : j <= k + 1
      BY DEF LinesFor
    <3> QED BY <2>1, <3>1
  <2>2. CASE k + 1 \notin LinesFor(lines, name, k + 1)
    <3>1. LinesFor(lines, name, k + 1) = LinesFor(lines, name, k)
      BY <2>2 DEF LinesFor
    <3> QED BY <3>1
  <2> QED BY <2>1, <2>2
<1>3. Has(n)
  <2> HIDE DEF S, Has
  <2>1. n \in S
    BY <1>1, <1>2, SetInduction
  <2> QED BY <2>1 DEF S
<1> QED BY <1>3 DEF LastFor

\* Of every name, and for a .env file of any length, load_dotenv() and
\* expand_env() find the value they should (config/dotenv.py, config/loader.py).
THEOREM EveryNameIsFound ==
  \A target : \A lines \in Seq(EnvLine), override \in BOOLEAN, name \in STRING :
    NameIsFound(lines, target, override, name)
<1> SUFFICES ASSUME NEW target, NEW lines \in Seq(EnvLine), NEW override \in BOOLEAN,
                    NEW name \in STRING, NEW env \in LoadDotenv(lines, target, override)
             PROVE  LET Lines == {i \in DOMAIN lines : lines[i].kind = "assignment" /\ lines[i].name = name}
                    IN ExpandEnv(name, env) =
                         IF IsSet(target, name) /\ ~(override /\ Lines # {})
                         THEN {target[name]}
                         ELSE {Unquoted(lines[i].value) :
                                 i \in {i \in Lines : /\ \A j \in Lines : j <= i
                                                      /\ Unquoted(lines[i].value) # <<>>}}
  BY DEF NameIsFound
<1> DEFINE Lines == {i \in DOMAIN lines : lines[i].kind = "assignment" /\ lines[i].name = name}
           parsed == ParseDotenv(lines)
           applied == Applied(lines, target, override)
           last == LastFor(lines, name, Len(lines))
<1>1. Lines = LinesFor(lines, name, Len(lines)) /\ Len(lines) \in Nat
  BY DEF LinesFor
<1>2. name \in DOMAIN parsed <=> Lines # {}
  <2>1. parsed = Read(lines, Len(lines))
    BY LoopReads
  <2>2. DOMAIN Read(lines, Len(lines)) = {m \in STRING : LinesFor(lines, m, Len(lines)) # {}}
    BY Zenon DEF Read
  <2> HIDE DEF parsed, Lines
  <2> QED BY <1>1, <2>1, <2>2
<1>3. Lines # {} => parsed[name] = Unquoted(lines[last].value)
  BY <1>1, LoopReads DEF Read
<1>4. Lines # {} => last \in Lines /\ \A j \in Lines : j <= last
  BY <1>1, LastLine
<1>5. env = [n \in DOMAIN target \cup applied |-> IF n \in applied THEN parsed[n] ELSE target[n]]
  BY DEF LoadDotenv
<1>6. name \in applied <=> Lines # {} /\ (override \/ ~IsSet(target, name))
  BY <1>2 DEF Applied
<1>7. \A i, j \in Lines : i <= j /\ j <= i => i = j
  BY <1>1 DEF LinesFor
<1> HIDE DEF Lines, parsed, applied, last
<1> DEFINE latest == {i \in Lines : (\A j \in Lines : j <= i) /\ Unquoted(lines[i].value) # <<>>}
<1>8. ExpandEnv(name, env) = IF IsSet(env, name) THEN {env[name]} ELSE {}
  BY DEF ExpandEnv
<1>9. CASE IsSet(target, name) /\ ~(override /\ Lines # {})
  <2>1. name \notin applied /\ name \in DOMAIN target /\ target[name] # <<>>
    BY <1>6, <1>9 DEF IsSet
  <2>2. IsSet(env, name) /\ env[name] = target[name]
    BY <1>5, <2>1 DEF IsSet
  <2> QED BY <1>8, <1>9, <2>2 DEF Lines
<1>10. CASE ~IsSet(target, name) /\ Lines = {}
  <2>1. ~IsSet(env, name)
    BY <1>5, <1>6, <1>10 DEF IsSet
  <2>2. {Unquoted(lines[i].value) : i \in latest} = {}
    BY <1>10
  <2> QED BY <1>8, <1>10, <2>1, <2>2 DEF Lines
<1>11. CASE Lines # {} /\ (override \/ ~IsSet(target, name))
  <2>1. name \in DOMAIN env /\ env[name] = Unquoted(lines[last].value)
    BY <1>3, <1>5, <1>6, <1>11
  <2>2. latest = {i \in {last} : Unquoted(lines[i].value) # <<>>}
    BY <1>4, <1>7, <1>11
  <2>3. {Unquoted(lines[i].value) : i \in latest} = IF env[name] # <<>> THEN {env[name]} ELSE {}
    BY <2>1, <2>2
  <2> QED BY <1>8, <1>11, <2>1, <2>3 DEF IsSet, Lines
<1> QED BY <1>9, <1>10, <1>11

-----------------------------------------------------------------------------
(***************************************************************************)
(* The path jail, for every disk without a circle of links and every path. *)
(* Walks are induced over along their hops; sequences of names come first. *)
(***************************************************************************)

Way == Seq(STRING)

LEMMA EmptyWay ==
  /\ <<>> \in Way /\ Len(<<>>) = 0
  /\ \A s \in Way : Len(s) \in Nat /\ (Len(s) = 0 <=> s = <<>>) /\ s \o <<>> = s /\ <<>> \o s = s
BY DEF Way

LEMMA ConcatTypes == ASSUME NEW s \in Way, NEW t \in Way
  PROVE s \o t \in Way /\ Len(s \o t) = Len(s) + Len(t)
BY DEF Way

LEMMA ConcatAssoc == ASSUME NEW s \in Way, NEW t \in Way, NEW u \in Way
  PROVE (s \o t) \o u = s \o (t \o u)
BY ConcatAssociative DEF Way

LEMMA HeadAndTail == ASSUME NEW s \in Way, s # <<>>
  PROVE /\ Head(s) \in STRING /\ Tail(s) \in Way /\ Len(Tail(s)) = Len(s) - 1
        /\ s = <<Head(s)>> \o Tail(s) /\ <<Head(s)>> \in Way
BY DEF Way

LEMMA AppendTypes == ASSUME NEW s \in Way, NEW e \in STRING
  PROVE /\ Append(s, e) \in Way /\ Append(s, e) # <<>> /\ Len(Append(s, e)) = Len(s) + 1
        /\ Append(s, e)[Len(s) + 1] = e
        /\ Parent(Append(s, e)) = s
        /\ Append(s, e) = s \o <<e>> /\ <<e>> \in Way
        /\ \A i \in 1..Len(s) : SubSeq(Append(s, e), 1, i) = SubSeq(s, 1, i)
<1>1. Append(s, e) = s \o <<e>> /\ Append(s, e) \in Way /\ Len(Append(s, e)) = Len(s) + 1
  BY AppendIsConcat, AppendProperties DEF Way
<1>2. \A i \in 1..Len(s) : SubSeq(Append(s, e), 1, i) = SubSeq(s, 1, i)
  BY <1>1, SubSeqOfConcat1 DEF Way
<1>3. Parent(Append(s, e)) = s
  <2>1. Parent(Append(s, e)) = SubSeq(Append(s, e), 1, Len(s)) /\ Len(s) \in Nat
    BY <1>1 DEF Way, Parent
  <2>2. CASE Len(s) = 0
    BY <2>1, <2>2, SubSeqEmpty, EmptyWay
  <2>3. CASE Len(s) > 0
    BY <1>2, <2>1, <2>3, SubSeqFull DEF Way
  <2> QED BY <2>1, <2>2, <2>3
<1>4. Append(s, e) # <<>> /\ Append(s, e)[Len(s) + 1] = e
  BY AppendProperties DEF Way
<1>5. <<e>> \in Way
  <2> DEFINE one == Append(<<>>, e)
  <2>1. one \in Way /\ one # <<>>
    BY EmptyWay, AppendProperties DEF Way
  <2>2. Head(one) = e
    BY EmptyWay, HeadTailAppend DEF Way
  <2> HIDE DEF one
  <2> QED BY <2>1, <2>2, HeadAndTail
<1> QED BY <1>1, <1>2, <1>3, <1>4, <1>5

LEMMA AppendBehind == ASSUME NEW x \in Way, NEW u \in Way, NEW e \in STRING
  PROVE x \o Append(u, e) = Append(x \o u, e)
<1> DEFINE last == <<e>>
           before == x \o u
<1>1. last \in Way /\ Append(u, e) = u \o last
  BY AppendTypes
<1>2. before \in Way
  BY ConcatTypes
<1>3. Append(before, e) = before \o last
  <2> HIDE DEF before
  <2> QED BY <1>2, AppendTypes
<1> HIDE DEF last
<1>4. (x \o u) \o last = x \o (u \o last)
  BY <1>1, ConcatAssoc
<1> HIDE DEF before
<1>5. x \o (u \o last) = before \o last
  BY <1>4, Zenon DEF before
<1> QED BY <1>1, <1>3, <1>5, Zenon DEF before

LEMMA HeadOfConcat == ASSUME NEW s \in Way, NEW t \in Way, s # <<>>
  PROVE Head(s \o t) = Head(s) /\ Tail(s \o t) = Tail(s) \o t /\ s \o t # <<>>
BY DEF Way

LEMMA ParentTypes == ASSUME NEW s \in Way
  PROVE /\ Parent(s) \in Way /\ Parent(<<>>) = <<>>
        /\ s # <<>> => /\ Len(Parent(s)) = Len(s) - 1 /\ s[Len(s)] \in STRING
                       /\ s = Append(Parent(s), s[Len(s)])
<1>1. Parent(<<>>) = <<>>
  BY DEF Parent
<1>2. CASE s # <<>>
  <2>1. PICK t \in Way, e \in STRING : s = Append(t, e)
    BY <1>2, SequenceEmptyOrAppend DEF Way
  <2>2. Parent(s) = t /\ Len(s) = Len(t) + 1 /\ s[Len(t) + 1] = e /\ Len(t) \in Nat
    BY <2>1, AppendTypes, EmptyWay
  <2>3. s[Len(s)] = e
    BY <2>2
  <2>4. Len(Parent(s)) = Len(s) - 1
    BY <2>2
  <2> QED BY <1>1, <2>1, <2>2, <2>3, <2>4
<1> QED BY <1>1, <1>2

-----------------------------------------------------------------------------
(* Walks: where they end is where the operating system looks a path up. *)

LEMMA HopTypes ==
  ASSUME NEW disk, IsDisk(disk), NEW w \in PathWalk, w.rest # <<>>
  PROVE  Hop(disk, w) \in PathWalk
<1>1. w.done \in Way /\ w.rest \in Way
  BY DEF PathWalk, Way
<1>2. Head(w.rest) \in STRING /\ Tail(w.rest) \in Way
  BY <1>1, HeadAndTail
<1>3. Append(w.done, Head(w.rest)) \in Way /\ Parent(w.done) \in Way /\ <<>> \in Way
  BY <1>1, <1>2, AppendTypes, ParentTypes, EmptyWay
<1>4. \A l \in DOMAIN disk.links : disk.links[l] \o Tail(w.rest) \in Way
  BY <1>2, ConcatTypes DEF IsDisk, Way
<1>5. \A d, r \in Way : [done |-> d, rest |-> r] \in PathWalk
  BY DEF PathWalk, Way
<1> QED BY <1>1, <1>2, <1>3, <1>4, <1>5 DEF Hop

\* More names behind a walk wait until it comes to them.
LEMMA HopConcat ==
  ASSUME NEW disk, IsDisk(disk), NEW w \in PathWalk, w.rest # <<>>, NEW q \in Way
  PROVE  /\ [done |-> w.done, rest |-> w.rest \o q] \in PathWalk
         /\ w.rest \o q # <<>>
         /\ Hop(disk, [done |-> w.done, rest |-> w.rest \o q])
              = [done |-> Hop(disk, w).done, rest |-> Hop(disk, w).rest \o q]
<1> DEFINE v == [done |-> w.done, rest |-> w.rest \o q]
<1>1. w.done \in Way /\ w.rest \in Way
  BY DEF PathWalk, Way
<1>2. w.rest \o q \in Way /\ w.rest \o q # <<>> /\ Tail(w.rest) \in Way
  BY <1>1, ConcatTypes, HeadOfConcat, HeadAndTail
<1>3. Head(v.rest) = Head(w.rest) /\ Tail(v.rest) = Tail(w.rest) \o q /\ v.done = w.done
  BY <1>1, HeadOfConcat
<1>4. \A l \in DOMAIN disk.links :
        disk.links[l] \o (Tail(w.rest) \o q) = (disk.links[l] \o Tail(w.rest)) \o q
  <2>1. \A l \in DOMAIN disk.links : disk.links[l] \in Way
    BY DEF IsDisk, Way
  <2> QED BY <1>2, <2>1, ConcatAssoc
<1>5. Hop(disk, v) = [done |-> Hop(disk, w).done, rest |-> Hop(disk, w).rest \o q]
  BY <1>3, <1>4 DEF Hop
<1>6. v \in PathWalk
  BY <1>1, <1>2 DEF PathWalk, Way
<1> QED BY <1>2, <1>5, <1>6

\* What holds where a walk ends, and one hop before wherever it holds, holds of
\* every walk.
LEMMA WalkInduction ==
  ASSUME NEW disk, NoCircle(disk), NEW S,
         \A w \in PathWalk : w.rest = <<>> => w \in S,
         \A w \in PathWalk : w.rest # <<>> /\ Hop(disk, w) \in S => w \in S,
         IsDisk(disk)
  PROVE  PathWalk \subseteq S
<1> DEFINE R == {<<Hop(disk, w), w>> : w \in {v \in PathWalk : v.rest # <<>>}}
           others == PathWalk \ S
<1>1. IsWellFoundedOn(R, PathWalk)
  <2> SUFFICES ASSUME NEW walk \in [Nat -> PathWalk],
                      \A n \in Nat : <<walk[n + 1], walk[n]>> \in R
               PROVE  FALSE
    BY DEF IsWellFoundedOn
  <2>1. \A n \in Nat : walk[n].rest # <<>> /\ walk[n + 1] = Hop(disk, walk[n])
    OBVIOUS
  <2> QED BY <2>1 DEF NoCircle
<1>2. \A w \in PathWalk : w.rest # <<>> => <<Hop(disk, w), w>> \in R
  OBVIOUS
<1> HIDE DEF R
<1> SUFFICES ASSUME others # {} PROVE FALSE
  OBVIOUS
<1>3. PICK w \in others : \A v \in others : ~(<<v, w>> \in R)
  BY <1>1, WFMin
<1>4. w.rest # <<>> /\ Hop(disk, w) \in PathWalk
  BY <1>3, HopTypes
<1>5. Hop(disk, w) \in others
  BY <1>3, <1>4
<1> QED BY <1>2, <1>3, <1>4, <1>5

\* The recursion of Realpath defines it on every walk, endless ones included.
LEMMA RealpathStep ==
  ASSUME NEW disk, IsDisk(disk)
  PROVE  /\ Realpath(disk) = [w \in PathWalk |-> Realpath(disk)[w]]
         /\ \A w \in PathWalk :
              Realpath(disk)[w] = IF w.rest = <<>> THEN w.done ELSE Realpath(disk)[Hop(disk, w)]
<1> DEFINE Pairs == PathWalk \X Way
           Closed(S) == /\ \A w \in PathWalk : w.rest = <<>> => <<w, w.done>> \in S
                        /\ \A w \in PathWalk, d \in Way :
                             w.rest # <<>> /\ <<Hop(disk, w), d>> \in S => <<w, d>> \in S
           G == {x \in Pairs : \A S \in SUBSET Pairs : Closed(S) => x \in S}
           Is(e) == e = [w \in PathWalk |-> IF w.rest = <<>> THEN w.done ELSE e[Hop(disk, w)]]
<1>0. \A w \in PathWalk : w.done \in Way /\ (w.rest # <<>> => Hop(disk, w) \in PathWalk)
  BY HopTypes DEF PathWalk, Way
<1>1. G \in SUBSET Pairs /\ Closed(G) /\ \A S \in SUBSET Pairs : Closed(S) => G \subseteq S
  <2>1. G \in SUBSET Pairs /\ \A S \in SUBSET Pairs : Closed(S) => G \subseteq S
    OBVIOUS
  <2>2. ASSUME NEW w \in PathWalk, w.rest = <<>> PROVE <<w, w.done>> \in G
    BY <1>0, <2>2
  <2>3. ASSUME NEW w \in PathWalk, NEW d \in Way, w.rest # <<>>, <<Hop(disk, w), d>> \in G
        PROVE  <<w, d>> \in G
    BY <2>3
  <2> QED BY <2>1, <2>2, <2>3
<1> HIDE DEF G
<1>2. ASSUME NEW w \in PathWalk, w.rest = <<>>, NEW d \in Way PROVE <<w, d>> \in G <=> d = w.done
  <2> SUFFICES ASSUME d # w.done, <<w, d>> \in G PROVE FALSE
    BY <1>0, <1>1, <1>2
  <2>1. Closed(G \ {<<w, d>>})
    BY <1>1, <1>2
  <2> QED BY <1>1, <2>1
<1>3. ASSUME NEW w \in PathWalk, w.rest # <<>>, NEW d \in Way
      PROVE  <<w, d>> \in G <=> <<Hop(disk, w), d>> \in G
  <2> SUFFICES ASSUME <<Hop(disk, w), d>> \notin G, <<w, d>> \in G PROVE FALSE
    BY <1>0, <1>1, <1>3
  <2>1. Closed(G \ {<<w, d>>})
    BY <1>1, <1>3
  <2> QED BY <1>1, <2>1
<1> HIDE DEF Closed
<1>e. PICK e : e = [w \in PathWalk |-> CHOOSE d \in Way : <<w, d>> \in G]
  OBVIOUS
<1>4. ASSUME NEW w \in PathWalk
      PROVE  e[w] = IF w.rest = <<>> THEN w.done ELSE e[Hop(disk, w)]
  <2>1. CASE w.rest = <<>>
    <3>1. e[w] = CHOOSE d \in Way : <<w, d>> \in G
      BY <1>e
    <3> QED BY <1>0, <1>2, <2>1, <3>1
  <2>2. CASE w.rest # <<>>
    <3>1. \A d \in Way : <<w, d>> \in G <=> <<Hop(disk, w), d>> \in G
      BY <1>3, <2>2
    <3>2. (CHOOSE d \in Way : <<w, d>> \in G) = CHOOSE d \in Way : <<Hop(disk, w), d>> \in G
      BY <3>1
    <3>3. Hop(disk, w) \in PathWalk
      BY <1>0, <2>2
    <3>4. e[w] = (CHOOSE d \in Way : <<w, d>> \in G)
      BY <1>e
    <3>5. e[Hop(disk, w)] = (CHOOSE d \in Way : <<Hop(disk, w), d>> \in G)
      BY <1>e, <3>3
    <3> QED BY <2>2, <3>2, <3>4, <3>5
  <2> QED BY <2>1, <2>2
<1>5. Is(e)
  <2> DEFINE c(w) == CHOOSE d \in Way : <<w, d>> \in G
  <2>0. e = [w \in PathWalk |-> c(w)]
    BY <1>e
  <2> HIDE DEF c
  <2>1. e = [w \in PathWalk |-> e[w]]
    BY <2>0
  <2> QED BY <1>4, <2>1
<1>6. Is(Realpath(disk))
  <2>1. Realpath(disk) = CHOOSE x : Is(x)
    BY Zenon DEF Realpath
  <2> HIDE DEF Is
  <2> QED BY <1>5, <2>1, Zenon
<1> QED BY <1>6

LEMMA RealpathTypes ==
  ASSUME NEW disk, IsDisk(disk), NoCircle(disk)
  PROVE  \A w \in PathWalk : Realpath(disk)[w] \in Way
<1> DEFINE S == {w \in PathWalk : Realpath(disk)[w] \in Way}
<1>1. \A w \in PathWalk : w.rest = <<>> => w \in S
  BY RealpathStep DEF PathWalk, Way
<1>2. \A w \in PathWalk : w.rest # <<>> /\ Hop(disk, w) \in S => w \in S
  BY RealpathStep
<1> HIDE DEF S
<1>3. PathWalk \subseteq S
  BY <1>1, <1>2, WalkInduction
<1> QED BY <1>3 DEF S

\* To resolve p and then q from there is to resolve p followed by q.
LEMMA ResolveComposes ==
  ASSUME NEW disk, IsDisk(disk), NoCircle(disk), NEW p \in Way, NEW q \in Way
  PROVE  /\ Resolve(disk, p) \in Way
         /\ Resolve(disk, p \o q) = Realpath(disk)[[done |-> Resolve(disk, p), rest |-> q]]
<1> DEFINE f == Realpath(disk)
           With(w, d, r) == [done |-> d, rest |-> r]
           S == {w \in PathWalk : \A r \in Way :
                   f[[done |-> w.done, rest |-> w.rest \o r]] = f[[done |-> f[w], rest |-> r]]}
<1>1. \A w \in PathWalk : w.rest = <<>> => w \in S
  BY RealpathStep, EmptyWay
<1>2. ASSUME NEW w \in PathWalk, w.rest # <<>>, Hop(disk, w) \in S
      PROVE  w \in S
  <2> SUFFICES ASSUME NEW r \in Way
               PROVE  f[[done |-> w.done, rest |-> w.rest \o r]] = f[[done |-> f[w], rest |-> r]]
    BY <1>2
  <2> DEFINE v == [done |-> w.done, rest |-> w.rest \o r]
             h == Hop(disk, w)
  <2>1. v \in PathWalk /\ v.rest # <<>> /\ Hop(disk, v) = [done |-> h.done, rest |-> h.rest \o r]
    BY <1>2, HopConcat
  <2>2. f[v] = f[Hop(disk, v)] /\ f[w] = f[h]
    BY <1>2, <2>1, RealpathStep
  <2>3. f[[done |-> h.done, rest |-> h.rest \o r]] = f[[done |-> f[h], rest |-> r]]
    BY <1>2
  <2> QED BY <2>1, <2>2, <2>3
<1> HIDE DEF S
<1>3. PathWalk \subseteq S
  BY <1>1, <1>2, WalkInduction
<1>4. [done |-> <<>>, rest |-> p] \in S
  BY <1>3, EmptyWay DEF PathWalk, Way
<1> QED BY <1>4, RealpathTypes DEF S, Resolve

LEMMA LinkIsWay ==
  ASSUME NEW disk, IsDisk(disk), NEW l \in DOMAIN disk.links
  PROVE  disk.links[l] \in Way
BY DEF IsDisk, Way

LEMMA ResolveEmpty ==
  ASSUME NEW disk, IsDisk(disk)
  PROVE  /\ Resolve(disk, <<>>) = <<>>
         /\ \A x \in Way : /\ [done |-> x, rest |-> <<>>] \in PathWalk
                           /\ Realpath(disk)[[done |-> x, rest |-> <<>>]] = x
<1>1. \A x \in Way : [done |-> x, rest |-> <<>>] \in PathWalk
  BY EmptyWay DEF PathWalk, Way
<1> QED BY <1>1, RealpathStep, EmptyWay DEF Resolve

\* One name at a time, resolving is the operating system's lookup ...
LEMMA ResolveStep ==
  ASSUME NEW disk, IsDisk(disk), NoCircle(disk), NEW p \in Way, NEW n \in STRING
  PROVE  Resolve(disk, Append(p, n)) =
           LookUp(disk, [q \in Way |-> Resolve(disk, q)], Resolve(disk, p), n)
<1> DEFINE f == Realpath(disk)
           d == Resolve(disk, p)
           w == [done |-> d, rest |-> <<n>>]
<1>1. d \in Way /\ <<n>> \in Way /\ Append(p, n) = p \o <<n>>
  BY ResolveComposes, AppendTypes
<1>2. Resolve(disk, Append(p, n)) = f[w] /\ w \in PathWalk
  BY <1>1, ResolveComposes DEF PathWalk, Way
<1>3. Head(w.rest) = n /\ Tail(w.rest) = <<>> /\ w.rest # <<>> /\ w.done = d
  BY EmptyWay, HeadTailAppend, AppendTypes DEF Way
<1>4. \A x \in Way : f[[done |-> x, rest |-> <<>>]] = x
  BY ResolveEmpty
<1>5. f[w] = f[Hop(disk, w)]
  BY <1>2, <1>3, RealpathStep
<1>7. Parent(d) \in Way /\ Append(d, n) \in Way
  BY <1>1, ParentTypes, AppendTypes
<1>8. \A l \in DOMAIN disk.links : disk.links[l] \in Way /\ disk.links[l] \o <<>> = disk.links[l]
  BY LinkIsWay, EmptyWay
<1>9. CASE n = "."
  <2>1. Hop(disk, w) = [done |-> d, rest |-> <<>>]
    BY <1>3, <1>9 DEF Hop
  <2> QED BY <1>1, <1>2, <1>4, <1>5, <1>9, <2>1 DEF LookUp
<1>10. CASE n = ".."
  <2>1. Hop(disk, w) = [done |-> Parent(d), rest |-> <<>>]
    BY <1>3, <1>10 DEF Hop
  <2> QED BY <1>2, <1>4, <1>5, <1>7, <1>10, <2>1 DEF LookUp
<1>11. CASE n \notin {".", ".."} /\ Append(d, n) \in DOMAIN disk.links
  <2> DEFINE to == disk.links[Append(d, n)]
  <2>1. Hop(disk, w) = [done |-> <<>>, rest |-> to]
    BY <1>3, <1>8, <1>11 DEF Hop
  <2>2. f[w] = Resolve(disk, to) /\ to \in Way
    BY <1>5, <1>8, <1>11, <2>1 DEF Resolve
  <2>3. LookUp(disk, [q \in Way |-> Resolve(disk, q)], d, n) = Resolve(disk, to)
    BY <1>11, <2>2 DEF LookUp
  <2> QED BY <1>2, <2>2, <2>3
<1>12. CASE n \notin {".", ".."} /\ Append(d, n) \notin DOMAIN disk.links
  <2>1. Hop(disk, w) = [done |-> Append(d, n), rest |-> <<>>]
    BY <1>3, <1>12 DEF Hop
  <2> QED BY <1>2, <1>4, <1>5, <1>7, <1>12, <2>1 DEF LookUp
<1> QED BY <1>9, <1>10, <1>11, <1>12

\* ... so the recursion of Denotes defines that lookup for every path.
LEMMA DenotesStep ==
  ASSUME NEW disk, IsDisk(disk), NoCircle(disk)
  PROVE  /\ Denotes(disk)[<<>>] = <<>>
         /\ \A p \in Way, n \in STRING :
              Denotes(disk)[Append(p, n)] = LookUp(disk, Denotes(disk), Denotes(disk)[p], n)
<1> DEFINE m == [q \in Way |-> Resolve(disk, q)]
           Is(g) == g = [path \in Way |->
                           IF path = <<>> THEN <<>>
                           ELSE LookUp(disk, g, g[Parent(path)], path[Len(path)])]
<1>1. ASSUME NEW path \in Way
      PROVE  Resolve(disk, path) =
               IF path = <<>> THEN <<>> ELSE LookUp(disk, m, m[Parent(path)], path[Len(path)])
  <2>1. CASE path = <<>>
    BY <2>1, ResolveEmpty
  <2>2. CASE path # <<>>
    <3>1. Parent(path) \in Way /\ path[Len(path)] \in STRING
            /\ path = Append(Parent(path), path[Len(path)])
      BY <2>2, ParentTypes
    <3>2. m[Parent(path)] = Resolve(disk, Parent(path))
      BY <3>1
    <3> HIDE DEF m
    <3>3. Resolve(disk, Append(Parent(path), path[Len(path)]))
            = LookUp(disk, m, Resolve(disk, Parent(path)), path[Len(path)])
      BY <3>1, ResolveStep DEF m
    <3> QED BY <2>2, <3>1, <3>2, <3>3
  <2> QED BY <2>1, <2>2
<1>2. Is(m)
  BY <1>1
<1> HIDE DEF m
<1>3. Is(Denotes(disk))
  <2>1. Denotes(disk) = CHOOSE g : Is(g)
    BY Zenon DEF Denotes, Way
  <2> HIDE DEF Is
  <2> QED BY <1>2, <2>1, Zenon
<1>4. ASSUME NEW p \in Way, NEW n \in STRING
      PROVE  Denotes(disk)[Append(p, n)] = LookUp(disk, Denotes(disk), Denotes(disk)[p], n)
  <2>1. Append(p, n) \in Way /\ Append(p, n) # <<>> /\ Parent(Append(p, n)) = p
          /\ Append(p, n)[Len(Append(p, n))] = n
    BY AppendTypes
  <2> QED BY <1>3, <2>1
<1> QED BY <1>3, <1>4, EmptyWay

\* A path whose own names are no link and no step up denotes itself.
Resolved(disk, d) ==
  /\ d \in Way
  /\ \A i \in 1..Len(d) : d[i] \notin {".", ".."} /\ SubSeq(d, 1, i) \notin DOMAIN disk.links

LEMMA ResolvedPrefix ==
  ASSUME NEW disk, NEW d, Resolved(disk, d), NEW n \in 0..Len(d)
  PROVE  /\ Resolved(disk, SubSeq(d, 1, n)) /\ Len(SubSeq(d, 1, n)) = n
         /\ \A k \in 0..n : SubSeq(SubSeq(d, 1, n), 1, k) = SubSeq(d, 1, k)
<1> DEFINE e == SubSeq(d, 1, n)
<1>1. d \in Way /\ Len(d) \in Nat
  BY EmptyWay DEF Resolved
<1>2. e \in Way /\ Len(e) = n /\ \A i \in 1..n : e[i] = d[i]
  <2>1. \A i \in 1..n : d[i] \in STRING
    BY <1>1, ElementOfSeq DEF Way
  <2>2. e \in Seq(STRING) /\ Len(e) = (IF 1 <= n THEN n - 1 + 1 ELSE 0)
          /\ \A i \in 1..(n - 1 + 1) : e[i] = d[1 + i - 1]
    BY <2>1, SubSeqProperties
  <2> QED BY <2>2 DEF Way
<1>3. \A k \in 0..n : SubSeq(e, 1, k) = SubSeq(d, 1, k)
  <2> SUFFICES ASSUME NEW k \in 0..n PROVE SubSeq(e, 1, k) = SubSeq(d, 1, k)
    OBVIOUS
  <2>1. CASE k = 0
    BY <2>1, SubSeqEmpty
  <2>2. CASE k > 0
    <3>1. 1 \in 1..Len(d) /\ n \in 1..Len(d) /\ 1 \in 1..(n - 1 + 1) /\ k \in 1..(n - 1 + 1)
      BY <1>1, <2>2
    <3>2. SubSeq(SubSeq(d, 1, n), 1, k) = SubSeq(d, 1 + 1 - 1, 1 + k - 1)
      BY <1>1, <1>2, <3>1, SubSeqOfSubSeq DEF Way
    <3> QED BY <3>2
  <2> QED BY <2>1, <2>2
<1> HIDE DEF e
<1>4. ASSUME NEW i \in 1..Len(e)
      PROVE  e[i] \notin {".", ".."} /\ SubSeq(e, 1, i) \notin DOMAIN disk.links
  <2>1. i \in 1..Len(d) /\ e[i] = d[i] /\ SubSeq(e, 1, i) = SubSeq(d, 1, i)
    BY <1>1, <1>2, <1>3
  <2> QED BY <2>1 DEF Resolved
<1> QED BY <1>2, <1>3, <1>4 DEF Resolved, e

LEMMA ResolvedParent ==
  ASSUME NEW disk, NEW d, Resolved(disk, d)
  PROVE  Resolved(disk, Parent(d))
<1>1. d \in Way /\ Len(d) \in Nat
  BY EmptyWay DEF Resolved
<1>2. CASE d = <<>>
  BY <1>2, ParentTypes, <1>1
<1>3. CASE d # <<>>
  <2>1. Len(d) - 1 \in 0..Len(d)
    BY <1>1, <1>3, EmptyWay
  <2> QED BY <2>1, ResolvedPrefix DEF Parent
<1> QED BY <1>2, <1>3

LEMMA ResolvedAppend ==
  ASSUME NEW disk, NEW d, Resolved(disk, d), NEW n \in STRING, n \notin {".", ".."},
         Append(d, n) \notin DOMAIN disk.links
  PROVE  Resolved(disk, Append(d, n))
<1> DEFINE e == Append(d, n)
<1>1. d \in Way /\ Len(d) \in Nat
  BY EmptyWay DEF Resolved
<1>2. e \in Way /\ Len(e) = Len(d) + 1 /\ e[Len(d) + 1] = n
        /\ \A i \in 1..Len(d) : SubSeq(e, 1, i) = SubSeq(d, 1, i) /\ e[i] = d[i]
  BY <1>1, AppendTypes, AppendProperties DEF Way
<1>3. SubSeq(e, 1, Len(d) + 1) = e
  BY <1>2, SubSeqFull DEF Way
<1> HIDE DEF e
<1>4. ASSUME NEW i \in 1..Len(e)
      PROVE  e[i] \notin {".", ".."} /\ SubSeq(e, 1, i) \notin DOMAIN disk.links
  <2>1. CASE i = Len(d) + 1
    BY <1>2, <1>3, <2>1 DEF e
  <2>2. CASE i # Len(d) + 1
    <3>1. i \in 1..Len(d)
      BY <1>1, <1>2, <2>2
    <3> QED BY <1>2, <3>1 DEF Resolved
  <2> QED BY <2>1, <2>2
<1> QED BY <1>2, <1>4 DEF Resolved, e

LEMMA ResolvedDenotesItself ==
  ASSUME NEW disk, IsDisk(disk), NoCircle(disk), NEW d, Resolved(disk, d)
  PROVE  Denotes(disk)[d] = d
<1> DEFINE D == Denotes(disk)
           S == {n \in Nat : \A e \in Way : Len(e) = n /\ Resolved(disk, e) => D[e] = e}
<1>1. 0 \in S
  BY DenotesStep, EmptyWay
<1>2. ASSUME NEW n \in Nat, n \in S PROVE n + 1 \in S
  <2> SUFFICES ASSUME NEW e \in Way, Len(e) = n + 1, Resolved(disk, e) PROVE D[e] = e
    OBVIOUS
  <2> DEFINE last == e[Len(e)]
  <2>1. e # <<>> /\ Parent(e) \in Way /\ Len(Parent(e)) = n /\ last \in STRING
          /\ e = Append(Parent(e), last)
    BY EmptyWay, ParentTypes
  <2>2. D[Parent(e)] = Parent(e)
    BY <1>2, <2>1, ResolvedParent
  <2>3. last \notin {".", ".."} /\ e \notin DOMAIN disk.links
    <3>1. Len(e) \in 1..Len(e) /\ SubSeq(e, 1, Len(e)) = e
      BY SubSeqFull DEF Way
    <3> QED BY <3>1 DEF Resolved
  <2>4. D[e] = LookUp(disk, D, D[Parent(e)], last)
    BY <2>1, DenotesStep
  <2> QED BY <2>1, <2>2, <2>3, <2>4 DEF LookUp
<1> HIDE DEF S
<1>3. Nat \subseteq S
  BY <1>1, <1>2, SetInduction
<1> QED BY <1>3, EmptyWay DEF S, Resolved

\* What the names behind it denote depends on the place before them only.
LEMMA DenotesCongruent ==
  ASSUME NEW disk, IsDisk(disk), NoCircle(disk), NEW p \in Way, NEW q \in Way,
         Denotes(disk)[p] = Denotes(disk)[q], NEW s \in Way
  PROVE  Denotes(disk)[p \o s] = Denotes(disk)[q \o s]
<1> DEFINE D == Denotes(disk)
           S == {n \in Nat : \A t \in Way : Len(t) = n => D[p \o t] = D[q \o t]}
<1>1. 0 \in S
  BY EmptyWay
<1>2. ASSUME NEW n \in Nat, n \in S PROVE n + 1 \in S
  <2> SUFFICES ASSUME NEW t \in Way, Len(t) = n + 1 PROVE D[p \o t] = D[q \o t]
    OBVIOUS
  <2> DEFINE u == Parent(t)
             last == t[Len(t)]
  <2>1. u \in Way /\ Len(u) = n /\ last \in STRING /\ t = Append(u, last)
    <3>1. t # <<>>
      BY EmptyWay
    <3>2. u \in Way /\ Len(u) = Len(t) - 1 /\ last \in STRING /\ t = Append(u, last)
      BY <3>1, ParentTypes
    <3> QED BY <3>2
  <2>2. ASSUME NEW x \in Way PROVE D[x \o t] = LookUp(disk, D, D[x \o u], last)
    <3>1. x \o u \in Way
      BY <2>1, ConcatTypes
    <3> HIDE DEF last, u
    <3>2. x \o t = Append(x \o u, last)
      BY <2>1, AppendBehind
    <3>3. D[Append(x \o u, last)] = LookUp(disk, D, D[x \o u], last)
      BY <2>1, <3>1, DenotesStep
    <3> QED BY <3>2, <3>3
  <2> QED BY <1>2, <2>1, <2>2
<1> HIDE DEF S
<1>3. Nat \subseteq S
  BY <1>1, <1>2, SetInduction
<1> QED BY <1>3, EmptyWay DEF S

\* Resolving a path before it is checked ends where the operating system ends
\* that looks up its names, and there nothing is left to resolve
\* (executors/tools.py:102-105).
THEOREM RealpathAgrees ==
  ASSUME NEW disk, IsDisk(disk), NoCircle(disk)
  PROVE  \A p \in Way : /\ Resolve(disk, p) = Denotes(disk)[p]
                        /\ Resolved(disk, Resolve(disk, p))
<1> DEFINE D == Denotes(disk)
           f == Realpath(disk)
           Good(w) == Resolved(disk, w.done) =>
                        D[w.done \o w.rest] = f[w] /\ Resolved(disk, f[w])
           S == {w \in PathWalk : Good(w)}
<1>0. \A w \in PathWalk : w.done \in Way /\ w.rest \in Way
  BY DEF PathWalk, Way
<1>1. ASSUME NEW w \in PathWalk, w.rest = <<>> PROVE Good(w)
  <2>1. w.done \o w.rest = w.done /\ f[w] = w.done
    BY <1>0, <1>1, EmptyWay, RealpathStep
  <2> QED BY <2>1, ResolvedDenotesItself
<1>2. ASSUME NEW w \in PathWalk, w.rest # <<>>, Good(Hop(disk, w)) PROVE Good(w)
  <2> SUFFICES ASSUME Resolved(disk, w.done)
               PROVE  D[w.done \o w.rest] = f[w] /\ Resolved(disk, f[w])
    OBVIOUS
  <2> DEFINE d == w.done
             n == Head(w.rest)
             r == Tail(w.rest)
             h == Hop(disk, w)
  <2>1. d \in Way /\ n \in STRING /\ r \in Way /\ w.rest = <<n>> \o r /\ <<n>> \in Way
    BY <1>0, <1>2, HeadAndTail
  <2>2. D[d] = d /\ f[w] = f[h] /\ h \in PathWalk
    BY <1>2, ResolvedDenotesItself, RealpathStep, HopTypes
  <2>3. d \o w.rest = Append(d, n) \o r /\ Append(d, n) \in Way
    <3> HIDE DEF n, r, d
    <3>1. d \o (<<n>> \o r) = (d \o <<n>>) \o r
      BY <2>1, ConcatAssoc
    <3>2. Append(d, n) = d \o <<n>> /\ Append(d, n) \in Way
      BY <2>1, AppendTypes
    <3> QED BY <2>1, <3>1, <3>2
  <2>4. D[Append(d, n)] = LookUp(disk, D, d, n)
    BY <2>1, <2>2, DenotesStep
  <2>5. ASSUME NEW x \in Way, D[Append(d, n)] = D[x]
        PROVE  D[d \o w.rest] = D[x \o r]
    BY <2>1, <2>3, <2>5, DenotesCongruent
  <2> HIDE DEF d, n, r
  <2>6. CASE n = "."
    <3>1. h = [done |-> d, rest |-> r]
      BY <2>6 DEF Hop, d, n, r
    <3>2. D[Append(d, n)] = D[d]
      BY <2>2, <2>4, <2>6 DEF LookUp
    <3> QED BY <1>2, <2>1, <2>2, <2>5, <3>1, <3>2 DEF d
  <2>7. CASE n = ".."
    <3>1. h = [done |-> Parent(d), rest |-> r]
      BY <2>7 DEF Hop, d, n, r
    <3>2. Resolved(disk, Parent(d)) /\ Parent(d) \in Way
      BY ResolvedParent DEF Resolved, d
    <3>3. D[Append(d, n)] = D[Parent(d)]
      BY <2>4, <2>7, <3>2, ResolvedDenotesItself DEF LookUp
    <3> QED BY <1>2, <2>1, <2>2, <2>5, <3>1, <3>2, <3>3 DEF d
  <2>8. CASE n \notin {".", ".."} /\ Append(d, n) \in DOMAIN disk.links
    <3> DEFINE to == disk.links[Append(d, n)]
    <3>1. h = [done |-> <<>>, rest |-> to \o r]
      BY <2>8 DEF Hop, d, n, r
    <3>2. to \in Way /\ to \o r \in Way /\ <<>> \o (to \o r) = to \o r
      BY <2>1, <2>8, LinkIsWay, ConcatTypes, EmptyWay
    <3>3. D[Append(d, n)] = D[to]
      BY <2>4, <2>8 DEF LookUp
    <3>4. Resolved(disk, <<>>)
      BY EmptyWay DEF Resolved
    <3> HIDE DEF to
    <3>5. D[d \o w.rest] = D[to \o r]
      BY <2>5, <3>2, <3>3
    <3>6. D[to \o r] = f[h] /\ Resolved(disk, f[h])
      BY <1>2, <3>1, <3>2, <3>4
    <3> QED BY <2>2, <3>5, <3>6 DEF d
  <2>9. CASE n \notin {".", ".."} /\ Append(d, n) \notin DOMAIN disk.links
    <3>1. h = [done |-> Append(d, n), rest |-> r]
      BY <2>9 DEF Hop, d, n, r
    <3>2. Resolved(disk, Append(d, n))
      BY <2>1, <2>9, ResolvedAppend DEF d
    <3>3. D[Append(d, n) \o r] = f[h] /\ Resolved(disk, f[h])
      BY <1>2, <3>1, <3>2
    <3> QED BY <2>2, <2>3, <3>3 DEF d
  <2> QED BY <2>6, <2>7, <2>8, <2>9
<1>3. PathWalk \subseteq S
  <2>1. \A w \in PathWalk : w.rest = <<>> => w \in S
    BY <1>1
  <2>2. \A w \in PathWalk : w.rest # <<>> /\ Hop(disk, w) \in S => w \in S
    BY <1>2
  <2> HIDE DEF S
  <2> QED BY <2>1, <2>2, WalkInduction
<1>4. ASSUME NEW p \in Way
      PROVE  Resolve(disk, p) = D[p] /\ Resolved(disk, Resolve(disk, p))
  <2> DEFINE w == [done |-> <<>>, rest |-> p]
  <2>1. w \in S /\ Resolved(disk, <<>>) /\ <<>> \o p = p
    BY <1>3, EmptyWay DEF PathWalk, Way, Resolved
  <2> QED BY <2>1 DEF Resolve
<1> QED BY <1>4

-----------------------------------------------------------------------------
(* The jail.  An existing ancestor is inside whenever the place itself is. *)

LEMMA PrefixOf ==
  ASSUME NEW s \in Way, NEW t \in Way
  PROVE  /\ IsPrefix(s, t) <=> Len(s) <= Len(t) /\ SubSeq(t, 1, Len(s)) = s
         /\ IsPrefix(s, t) => t = s \o SubSeq(t, Len(s) + 1, Len(t))
                              /\ SubSeq(t, Len(s) + 1, Len(t)) \in Way
<1>1. SubSeq(s, 1, Len(s)) = s /\ Len(s) \in Nat /\ Len(t) \in Nat
  BY SubSeqFull DEF Way
<1>2. IsPrefix(s, t) <=> Len(s) <= Len(t) /\ SubSeq(t, 1, Len(s)) = s
  BY <1>1 DEF IsPrefix
<1>3. ASSUME Len(s) <= Len(t), SubSeq(t, 1, Len(s)) = s
      PROVE  t = s \o SubSeq(t, Len(s) + 1, Len(t)) /\ SubSeq(t, Len(s) + 1, Len(t)) \in Way
  <2>1. \A i \in (Len(s) + 1)..Len(t) : t[i] \in STRING
    BY <1>1, ElementOfSeq DEF Way
  <2>2. SubSeq(t, Len(s) + 1, Len(t)) \in Way
    BY <1>1, <2>1, SubSeqProperties DEF Way
  <2>3. SubSeq(t, 1, Len(s)) \o SubSeq(t, Len(s) + 1, Len(t)) = SubSeq(t, 1, Len(t))
    <3>1. 1 \in 1..(Len(t) + 1) /\ Len(s) \in (1 - 1)..Len(t) /\ Len(t) \in Len(s)..Len(t)
      BY <1>1, <1>3
    <3> QED BY <3>1, ConcatAdjacentSubSeq DEF Way
  <2>4. SubSeq(t, 1, Len(t)) = t
    BY SubSeqFull DEF Way
  <2> QED BY <1>3, <2>2, <2>3, <2>4
<1> QED BY <1>2, <1>3

LEMMA ConcatPrefix ==
  ASSUME NEW s \in Way, NEW u \in Way
  PROVE  IsPrefix(s, s \o u) /\ SubSeq(s \o u, Len(s) + 1, Len(s \o u)) = u
<1>1. s \o u \in Way /\ Len(s \o u) = Len(s) + Len(u) /\ Len(s) \in Nat /\ Len(u) \in Nat
  BY ConcatTypes, EmptyWay
<1>2. SubSeq(s \o u, 1, Len(s)) = s
  <2>1. CASE Len(s) = 0
    BY <2>1, SubSeqEmpty, EmptyWay
  <2>2. CASE Len(s) # 0
    <3>1. 1 \in 1..Len(s) /\ Len(s) \in 1..Len(s)
      BY <1>1, <2>2
    <3>2. SubSeq(s \o u, 1, Len(s)) = SubSeq(s, 1, Len(s))
      BY <3>1, SubSeqOfConcat1 DEF Way
    <3> QED BY <3>2, SubSeqFull DEF Way
  <2> QED BY <2>1, <2>2
<1>3. SubSeq(s \o u, Len(s) + 1, Len(s) + Len(u)) = u
  <2>1. CASE Len(u) = 0
    BY <1>1, <2>1, SubSeqEmpty, EmptyWay
  <2>2. CASE Len(u) # 0
    <3>1. Len(s) + 1 \in (Len(s) + 1)..(Len(s) + Len(u))
            /\ Len(s) + Len(u) \in (Len(s) + 1)..(Len(s) + Len(u))
      BY <1>1, <2>2
    <3>2. SubSeq(s \o u, Len(s) + 1, Len(s) + Len(u))
            = SubSeq(u, Len(s) + 1 - Len(s), Len(s) + Len(u) - Len(s))
      BY <3>1, SubSeqOfConcat2 DEF Way
    <3>3. Len(s) + 1 - Len(s) = 1 /\ Len(s) + Len(u) - Len(s) = Len(u)
      BY <1>1
    <3> QED BY <3>2, <3>3, SubSeqFull DEF Way
  <2> QED BY <2>1, <2>2
<1>4. IsPrefix(s, s \o u)
  <2>1. SubSeq(s, 1, Len(s)) = s
    BY SubSeqFull DEF Way
  <2> QED BY <1>1, <1>2, <2>1 DEF IsPrefix
<1> QED BY <1>1, <1>3, <1>4

\* The nearest directory that exists is no higher than one that does.
LEMMA AncestorBelow ==
  ASSUME NEW disk, NEW p \in Way, NEW n \in Nat, n < Len(p), Exists(disk, SubSeq(p, 1, n))
  PROVE  \E m \in n..(Len(p) - 1) : ExistingAncestor(disk, p) = SubSeq(p, 1, m)
<1> DEFINE E(k) == Exists(disk, SubSeq(p, 1, k))
           Nearest(k) == /\ k = 0 \/ E(k)
                      /\ \A j \in (k + 1)..(Len(p) - 1) : ~E(j)
           top == Len(p) - 1
           below == {i \in Nat : i <= top /\ E(top - i)}
           S == {i \in Nat : \A j \in 0..i : j \notin below}
<1>1. Len(p) \in Nat /\ top \in Nat /\ top - n \in below
  BY EmptyWay
<1>2. PICK k \in 0..top : E(k) /\ \A j \in (k + 1)..top : ~E(j)
  <2> SUFFICES ASSUME \A k \in 0..top : E(k) => \E j \in (k + 1)..top : E(j)
               PROVE  FALSE
    OBVIOUS
  <2> HIDE DEF E
  <2>1. 0 \in S
    <3>1. ~E(top)
      BY <1>1
    <3> QED BY <1>1, <3>1
  <2>2. ASSUME NEW i \in Nat, i \in S PROVE i + 1 \in S
    <3> SUFFICES ASSUME i + 1 \in below PROVE FALSE
      BY <2>2
    <3>1. i + 1 <= top /\ E(top - (i + 1)) /\ top - (i + 1) \in 0..top
      BY <1>1
    <3>2. PICK j \in (top - (i + 1) + 1)..top : E(j)
      BY <3>1
    <3>3. top - j \in 0..i /\ top - j \in below
      BY <1>1, <3>2
    <3> QED BY <2>2, <3>3
  <2>3. Nat \subseteq S
    <3> HIDE DEF S
    <3> QED BY <2>1, <2>2, SetInduction
  <2>4. top - n \in 0..(top - n) /\ top - n \in S
    <3> HIDE DEF S
    <3>1. top - n \in Nat /\ top - n \in 0..(top - n)
      BY <1>1
    <3> QED BY <2>3, <3>1
  <2> QED BY <1>1, <2>4
<1>3. k >= n /\ Nearest(k)
  BY <1>1, <1>2
<1>4. ExistingAncestor(disk, p) = SubSeq(p, 1, CHOOSE m \in 0..top : Nearest(m))
  BY DEF ExistingAncestor
<1>5. PICK m : m = CHOOSE x \in 0..top : Nearest(x)
  OBVIOUS
<1>6. m \in 0..top /\ Nearest(m)
  <2> HIDE DEF Nearest
  <2> QED BY <1>2, <1>3, <1>5
<1>7. m >= n
  <2> SUFFICES ASSUME m < n PROVE FALSE
    BY <1>6
  <2>1. n \in (m + 1)..top /\ E(n)
    BY <1>1, <1>6
  <2> HIDE DEF E
  <2> QED BY <1>6, <2>1
<1>8. ExistingAncestor(disk, p) = SubSeq(p, 1, m)
  BY <1>4, <1>5
<1>9. m \in n..(Len(p) - 1)
  BY <1>1, <1>6, <1>7
<1> QED BY <1>8, <1>9

\* The jail of one root returns the place the asked denotes, if it is inside.
LEMMA JailReaches ==
  ASSUME NEW disk, IsDisk(disk), NoCircle(disk), NEW asked \in Request,
         NEW root \in {disk.workspace, disk.artifacts_dir}
  PROVE  /\ Denotes(disk)[root] \in Way
         /\ Denotes(disk)[Path(root, asked)] \in Way
         /\ Jail(disk, root, asked) =
              {p \in {Denotes(disk)[Path(root, asked)]} :
                 /\ asked.parts # <<>> \/ asked.absolute
                 /\ IsPrefix(Denotes(disk)[root], p)}
<1> DEFINE D == Denotes(disk)
           home == Resolve(disk, root)
           parts == asked.parts
           place == Resolve(disk, Path(home, asked))
<1>1. root \in Way /\ parts \in Way /\ asked.absolute \in BOOLEAN
  BY DEF IsDisk, Request, Way
<1>2. home = D[root] /\ Resolved(disk, home) /\ home \in Way /\ D[home] = home
  BY <1>1, RealpathAgrees, ResolvedDenotesItself DEF Resolved
<1>3. Path(home, asked) \in Way /\ Path(root, asked) \in Way
        /\ D[Path(home, asked)] = D[Path(root, asked)]
  <2>1. CASE asked.absolute
    BY <1>1, <2>1 DEF Path
  <2>2. CASE ~asked.absolute
    <3>1. D[home \o parts] = D[root \o parts]
      BY <1>1, <1>2, DenotesCongruent
    <3> QED BY <1>1, <1>2, <2>2, <3>1, ConcatTypes DEF Path
  <2> QED BY <1>1, <2>1, <2>2
<1>4. place = D[Path(root, asked)] /\ Resolved(disk, place) /\ place \in Way
  BY <1>3, RealpathAgrees DEF Resolved
<1>5. ASSUME IsPrefix(home, place)
      PROVE  Exists(disk, place) \/ IsPrefix(home, Resolve(disk, ExistingAncestor(disk, place)))
  <2>1. Exists(disk, home)
    BY <1>2 DEF IsDisk
  <2>2. Len(home) \in Nat /\ Len(place) \in Nat /\ Len(home) <= Len(place)
          /\ SubSeq(place, 1, Len(home)) = home
    BY <1>2, <1>4, <1>5, PrefixOf, EmptyWay
  <2>3. CASE Len(home) = Len(place)
    <3>1. place = home
      BY <1>4, <2>2, <2>3, SubSeqFull DEF Way
    <3> QED BY <2>1, <3>1
  <2>4. CASE Len(home) < Len(place)
    <3>1. PICK m \in Len(home)..(Len(place) - 1) :
            ExistingAncestor(disk, place) = SubSeq(place, 1, m)
      BY <1>4, <2>1, <2>2, <2>4, AncestorBelow
    <3> DEFINE up == SubSeq(place, 1, m)
    <3>2. m \in 0..Len(place) /\ Len(home) \in 0..m
      BY <2>2, <3>1
    <3>3. Resolved(disk, up) /\ Len(up) = m /\ SubSeq(up, 1, Len(home)) = home
      BY <1>4, <2>2, <3>2, ResolvedPrefix
    <3>4. up \in Way /\ Resolve(disk, up) = up
      BY <3>3, RealpathAgrees, ResolvedDenotesItself DEF Resolved
    <3>5. IsPrefix(home, up)
      <4>1. SubSeq(home, 1, Len(home)) = home /\ Len(home) <= Len(up)
        BY <1>2, <3>2, <3>3, SubSeqFull DEF Way
      <4> QED BY <3>3, <4>1 DEF IsPrefix
    <3> QED BY <3>1, <3>4, <3>5
  <2> QED BY <2>2, <2>3, <2>4
<1> HIDE DEF home, place
<1>6. Jail(disk, root, asked) =
        {p \in {place} : /\ parts # <<>> \/ asked.absolute
                         /\ IsPrefix(home, p)}
  BY <1>5 DEF Jail, home, place
<1> QED BY <1>2, <1>4, <1>6

\* A sequence of names behind another element says that this is a name, too.
LEMMA NextIsName ==
  ASSUME NEW s \in Way, NEW e, NEW t \in Way,
         t = Append(s, e) \/ IsPrefix(Append(s, e), t)
  PROVE  e \in STRING
<1> DEFINE S == STRING \cup {e}
           k == Len(s) + 1
<1>1. s \in Seq(S) /\ t \in Seq(S) /\ Len(s) \in Nat /\ Len(t) \in Nat
  BY SeqMonotonic, EmptyWay DEF Way
<1>2. Append(s, e) \in Seq(S) /\ Len(Append(s, e)) = k /\ Append(s, e)[k] = e
  BY <1>1, AppendProperties
<1>3. t[k] = e /\ k \in 1..Len(t)
  <2>1. CASE t = Append(s, e)
    BY <1>1, <1>2, <2>1
  <2>2. CASE IsPrefix(Append(s, e), t)
    <3>1. SubSeq(t, 1, k) = Append(s, e) /\ k \in 1..Len(t)
      <4>1. SubSeq(Append(s, e), 1, k) = Append(s, e)
        BY <1>2, SubSeqFull
      <4> QED BY <1>1, <1>2, <2>2, <4>1 DEF IsPrefix
    <3>2. \A i \in 1..k : t[i] \in STRING
      <4>1. \A i \in 1..Len(t) : t[i] \in STRING
        BY ElementOfSeq DEF Way
      <4> QED BY <1>1, <3>1, <4>1
    <3>3. \A i \in 1..(k - 1 + 1) : SubSeq(t, 1, k)[i] = t[1 + i - 1]
      BY <1>1, <3>2, SubSeqProperties
    <3>4. SubSeq(t, 1, k)[k] = t[k]
      BY <1>1, <3>3
    <3> QED BY <1>2, <3>1, <3>4
  <2> QED BY <2>1, <2>2
<1> QED BY <1>3, ElementOfSeq DEF Way

\* The reserved names of the run directory are the files of the engine.
LEMMA ReservedIsEngine ==
  ASSUME NEW disk, IsDisk(disk), NoCircle(disk), NEW place \in Way
  PROVE  RejectReserved(disk, place)
           <=> \/ \E f \in ReservedFiles : place = Append(Denotes(disk)[disk.artifacts_dir], f)
               \/ \E d \in ReservedDirs :
                    IsPrefix(Append(Denotes(disk)[disk.artifacts_dir], d), place)
<1> DEFINE run == Resolve(disk, disk.artifacts_dir)
           inside == SubSeq(place, Len(run) + 1, Len(place))
<1>1. run = Denotes(disk)[disk.artifacts_dir] /\ run \in Way /\ Len(run) \in Nat
  BY RealpathAgrees, EmptyWay DEF IsDisk, Way, Resolved
<1>2. ASSUME NEW e \in STRING
      PROVE  /\ Append(run, e) = run \o <<e>> /\ Append(run, e) \in Way /\ <<e>> \in Way
             /\ <<e>>[1] = e /\ <<e>> # <<>>
  BY <1>1, AppendTypes
<1>3. \A u \in Way : u # <<>> => u[1] \in STRING /\ Head(u) = u[1]
  <2> SUFFICES ASSUME NEW u \in Way, u # <<>> PROVE u[1] \in STRING /\ Head(u) = u[1]
    OBVIOUS
  <2>1. Head(u) = u[1] /\ Head(u) \in STRING
    BY HeadAndTail DEF Way
  <2> QED BY <2>1
<1>4. ASSUME IsPrefix(run, place) PROVE place = run \o inside /\ inside \in Way
  BY <1>1, <1>4, PrefixOf
<1>5. ASSUME NEW u \in Way, place = run \o u PROVE IsPrefix(run, place) /\ inside = u
  BY <1>1, <1>5, ConcatPrefix
<1> HIDE DEF run, inside
<1>6. ASSUME NEW f
      PROVE  IsPrefix(run, place) /\ inside = <<f>> <=> place = Append(run, f)
  <2>1. ASSUME IsPrefix(run, place), inside = <<f>> PROVE place = Append(run, f)
    <3>1. f = inside[1] /\ inside # <<>> /\ inside \in Way /\ place = run \o <<f>>
      BY <1>4, <2>1
    <3> QED BY <1>2, <1>3, <3>1
  <2>2. ASSUME place = Append(run, f) PROVE IsPrefix(run, place) /\ inside = <<f>>
    <3>1. f \in STRING
      BY <1>1, <2>2, NextIsName
    <3> QED BY <1>2, <1>5, <2>2, <3>1
  <2> QED BY <2>1, <2>2
<1>7. ASSUME NEW d
      PROVE  IsPrefix(run, place) /\ inside # <<>> /\ inside[1] = d
               <=> IsPrefix(Append(run, d), place)
  <2>1. ASSUME IsPrefix(run, place), inside # <<>>, inside[1] = d
        PROVE  IsPrefix(Append(run, d), place)
    <3>1. inside \in Way /\ place = run \o inside
      BY <1>4, <2>1
    <3>2. d \in STRING /\ Head(inside) = d
      BY <1>3, <2>1, <3>1
    <3>3. inside = <<d>> \o Tail(inside) /\ Tail(inside) \in Way
      BY <2>1, <3>1, <3>2, HeadAndTail
    <3>4. run \o (<<d>> \o Tail(inside)) = (run \o <<d>>) \o Tail(inside)
      <4>1. <<d>> \in Way
        BY <1>2, <3>2
      <4> QED BY <1>1, <3>3, <4>1, ConcatAssoc
    <3>5. place = Append(run, d) \o Tail(inside)
      BY <1>2, <3>1, <3>2, <3>3, <3>4
    <3> QED BY <1>2, <3>2, <3>3, <3>5, ConcatPrefix
  <2>2. ASSUME IsPrefix(Append(run, d), place)
        PROVE  IsPrefix(run, place) /\ inside # <<>> /\ inside[1] = d
    <3>0. d \in STRING
      BY <1>1, <2>2, NextIsName
    <3>1. PICK u \in Way : place = Append(run, d) \o u
      <4>1. Append(run, d) \in Way
        BY <1>2, <3>0
      <4> QED BY <2>2, <4>1, PrefixOf
    <3>2. (run \o <<d>>) \o u = run \o (<<d>> \o u) /\ <<d>> \o u \in Way
      <4>1. <<d>> \in Way
        BY <1>2, <3>0
      <4>2. (run \o <<d>>) \o u = run \o (<<d>> \o u)
        <5>1. run \in Way /\ <<d>> \in Way /\ u \in Way
          BY <1>1, <4>1
        <5> QED BY <5>1, ConcatAssoc
      <4>3. <<d>> \o u \in Way
        BY <3>1, <4>1, ConcatTypes
      <4> QED BY <4>2, <4>3
    <3>3. IsPrefix(run, place) /\ inside = <<d>> \o u
      BY <1>2, <1>5, <3>0, <3>1, <3>2
    <3>4. <<d>> \o u # <<>> /\ Head(<<d>> \o u) = Head(<<d>>) /\ Head(<<d>>) = d
      BY <1>2, <1>3, <3>0, <3>1, HeadOfConcat
    <3> QED BY <1>3, <3>2, <3>3, <3>4
  <2> QED BY <2>1, <2>2
<1>8. RejectReserved(disk, place) <=>
        /\ IsPrefix(run, place) /\ inside # <<>>
        /\ inside \in {<<f>> : f \in ReservedFiles} \/ inside[1] \in ReservedDirs
  BY DEF RejectReserved, run, inside
<1>9. \A f : inside = <<f>> => inside # <<>>
  OBVIOUS
<1> QED BY <1>1, <1>6, <1>7, <1>8, <1>9

\* No tool call reaches a place outside checkout and run directory, none is
\* turned away from a place inside them but for the files of the engine, and
\* none writes one of those: on every disk without a circle of links, for every
\* path a model asks for (executors/tools.py:81-190).
THEOREM EveryPathIsJailed ==
  ASSUME NEW disk, IsDisk(disk), NoCircle(disk), NEW asked \in Request
  PROVE  ReachesExactly(disk, asked)
<1> DEFINE denotes == Denotes(disk)
           From(root) == denotes[Path(root, asked)]
           Within(root) == IsPrefix(denotes[root], From(root))
           place == IF Within(disk.workspace) THEN From(disk.workspace)
                    ELSE From(disk.artifacts_dir)
           named == asked.parts # <<>> \/ asked.absolute
           allowed == named /\ (Within(disk.workspace) \/ Within(disk.artifacts_dir))
           run == denotes[disk.artifacts_dir]
           engine == \/ \E f \in ReservedFiles : place = Append(run, f)
                     \/ \E d \in ReservedDirs : IsPrefix(Append(run, d), place)
<1>1. \A root \in {disk.workspace, disk.artifacts_dir} :
        /\ From(root) \in Way
        /\ Jail(disk, root, asked) = {p \in {From(root)} : named /\ IsPrefix(denotes[root], p)}
  <2> TAKE root \in {disk.workspace, disk.artifacts_dir}
  <2>1. denotes[root] \in Way /\ From(root) \in Way
    BY JailReaches
  <2>2. Jail(disk, root, asked) =
          {p \in {denotes[Path(root, asked)]} :
             /\ asked.parts # <<>> \/ asked.absolute
             /\ IsPrefix(denotes[root], p)}
    BY JailReaches
  <2> QED BY <2>1, <2>2
<1>2. place \in Way
  BY <1>1
<1>3. Jailed(disk, asked) = {p \in {place} : allowed}
  BY <1>1 DEF Jailed
<1>4. RejectReserved(disk, place) <=> engine
  BY <1>2, ReservedIsEngine
<1> HIDE DEF place, allowed, engine
<1>5. FsWrite(disk, asked) = {p \in {place} : allowed /\ ~engine /\ CanOpen(disk, p)}
  BY <1>3, <1>4 DEF FsWrite
<1>6. ASSUME place \in disk.files PROVE CanOpen(disk, place)
  <2>1. ASSUME NEW n \in 0..(Len(place) - 1), SubSeq(place, 1, n) \in disk.files PROVE FALSE
    <3>1. SubSeq(place, 1, n) \in Way /\ Len(place) \in Nat
      BY <1>2, <2>1, EmptyWay DEF IsDisk, Way
    <3>2. Len(SubSeq(place, 1, n)) = n
      BY <1>2, <2>1, <3>1 DEF Way
    <3>3. IsPrefix(SubSeq(place, 1, n), place)
      <4>1. SubSeq(SubSeq(place, 1, n), 1, n) = SubSeq(place, 1, n)
        BY <3>1, <3>2, SubSeqFull DEF Way
      <4> QED BY <2>1, <3>1, <3>2, <4>1 DEF IsPrefix
    <3>4. SubSeq(place, 1, n) = place
      BY <1>6, <2>1, <3>3 DEF IsDisk
    <3> QED BY <2>1, <3>1, <3>2, <3>4
  <2> QED BY <1>6, <2>1 DEF CanOpen
<1>7. FsEdit(disk, asked) \subseteq FsWrite(disk, asked)
  BY <1>3, <1>6 DEF FsEdit, FsWrite
<1> QED BY <1>3, <1>5, <1>7 DEF ReachesExactly, place, allowed, engine

(***************************************************************************)
(* Templating, for every text, placeholder and value, over any set of      *)
(* tokens that has the braces.  Behind a text stands what is rendered of   *)
(* the rest alone, so a text is rendered token by token from the left.     *)
(***************************************************************************)

\* One token is a sequence, and three are.
LEMMA Token ==
  ASSUME NEW S, NEW a \in S
  PROVE  <<a>> \in Seq(S) /\ Len(<<a>>) = 1 /\ <<a>>[1] = a
OBVIOUS

LEMMA Tokens ==
  ASSUME NEW S, NEW a \in S, NEW b \in S, NEW c \in S
  PROVE  /\ <<a, b, c>> \in Seq(S) /\ Len(<<a, b, c>>) = 3
         /\ <<a, b, c>>[1] = a /\ <<a, b, c>>[2] = b /\ <<a, b, c>>[3] = c
OBVIOUS

\* The values to insert are texts too.
Values(S, values) ==
  Braces \subseteq S /\ \A name \in DOMAIN values : values[name] \in Seq(S)

LEMMA InsertedType ==
  ASSUME NEW S, NEW values, Values(S, values), NEW name \in S
  PROVE  Inserted(values, name) \in Seq(S)
<1>1. "{" \in S /\ "}" \in S
  BY DEF Values, Braces
<1>2. <<"{", name, "}">> \in Seq(S)
  BY <1>1, Tokens
<1> QED BY <1>2 DEF Inserted, Values

\* What stands at a position and what is rendered behind it.
From(template, values, from, i) ==
  CASE i > Len(template) -> <<>>
    [] Doubled(template, i) -> <<template[i]>> \o from[i + 2]
    [] Placeholder(template, i) -> Inserted(values, template[i + 1]) \o from[i + 3]
    [] OTHER -> <<template[i]>> \o from[i + 1]

\* Only one arm applies.
LEMMA Exclusive ==
  ASSUME NEW t, Len(t) \in Nat, NEW i \in Nat \ {0}
  PROVE  /\ Doubled(t, i) => i + 1 <= Len(t) /\ ~(i > Len(t)) /\ ~Placeholder(t, i)
         /\ Placeholder(t, i) => i + 2 <= Len(t) /\ ~(i > Len(t)) /\ ~Doubled(t, i)
<1>1. Doubled(t, i) => i < Len(t)
  BY Zenon DEF Doubled
<1>2. Placeholder(t, i) => i + 2 <= Len(t)
  BY Zenon DEF Placeholder
<1>3. ~(Doubled(t, i) /\ Placeholder(t, i))
  BY Zenon DEF Doubled, Placeholder, Signs
<1>4. (i < Len(t) => i + 1 <= Len(t) /\ ~(i > Len(t))) /\ (i + 2 <= Len(t) => ~(i > Len(t)))
  OBVIOUS
<1> QED BY <1>1, <1>2, <1>3, <1>4, Zenon

LEMMA FromEnd ==
  ASSUME NEW t, Len(t) \in Nat, NEW values, NEW from, NEW i \in Nat \ {0}, i > Len(t)
  PROVE  From(t, values, from, i) = <<>>
<1>1. ~Doubled(t, i) /\ ~Placeholder(t, i)
  BY Exclusive, Zenon
<1> QED BY <1>1, Zenon DEF From

LEMMA FromDoubled ==
  ASSUME NEW t, Len(t) \in Nat, NEW values, NEW from, NEW i \in Nat \ {0}, Doubled(t, i)
  PROVE  i + 1 <= Len(t) /\ From(t, values, from, i) = <<t[i]>> \o from[i + 2]
<1>1. i + 1 <= Len(t) /\ ~(i > Len(t)) /\ ~Placeholder(t, i)
  BY Exclusive, Zenon
<1> QED BY <1>1, Zenon DEF From

LEMMA FromPlaceholder ==
  ASSUME NEW t, Len(t) \in Nat, NEW values, NEW from, NEW i \in Nat \ {0}, Placeholder(t, i)
  PROVE  i + 2 <= Len(t) /\ From(t, values, from, i) = Inserted(values, t[i + 1]) \o from[i + 3]
<1>1. i + 2 <= Len(t) /\ ~(i > Len(t)) /\ ~Doubled(t, i)
  BY Exclusive, Zenon
<1> QED BY <1>1, Zenon DEF From

LEMMA FromOther ==
  ASSUME NEW t, Len(t) \in Nat, NEW values, NEW from, NEW i \in Nat \ {0},
         i <= Len(t), ~Doubled(t, i), ~Placeholder(t, i)
  PROVE  From(t, values, from, i) = <<t[i]>> \o from[i + 1]
<1>1. ~(i > Len(t))
  OBVIOUS
<1> QED BY <1>1, Zenon DEF From

LEMMA FromType ==
  ASSUME NEW S, NEW t \in Seq(S), NEW values, Values(S, values),
         NEW from, NEW i \in 1..(Len(t) + 1),
         \A j \in (i + 1)..(Len(t) + 1) : from[j] \in Seq(S)
  PROVE  From(t, values, from, i) \in Seq(S)
<1> DEFINE n == Len(t)
<1>0. Len(t) \in Nat /\ i \in Nat \ {0}
  OBVIOUS
<1>5. \A j \in 1..n : t[j] \in S
  BY ElementOfSeq
<1>1. CASE i > n
  <2>1. From(t, values, from, i) = <<>>
    BY <1>0, <1>1, FromEnd, Zenon
  <2> QED BY <2>1
<1>2. CASE Doubled(t, i)
  <2>1. i + 1 <= n /\ From(t, values, from, i) = <<t[i]>> \o from[i + 2]
    BY <1>0, <1>2, FromDoubled, Zenon
  <2>2. i \in 1..n /\ i + 2 \in (i + 1)..(n + 1)
    BY <1>0, <2>1
  <2>3. <<t[i]>> \in Seq(S) /\ from[i + 2] \in Seq(S)
    BY <1>5, <2>2, Token
  <2> QED BY <2>1, <2>3, ConcatProperties
<1>3. CASE Placeholder(t, i)
  <2>1. i + 2 <= n /\ From(t, values, from, i) = Inserted(values, t[i + 1]) \o from[i + 3]
    BY <1>0, <1>3, FromPlaceholder, Zenon
  <2>2. i + 1 \in 1..n /\ i + 3 \in (i + 1)..(n + 1)
    BY <1>0, <2>1
  <2>3. Inserted(values, t[i + 1]) \in Seq(S) /\ from[i + 3] \in Seq(S)
    BY <1>5, <2>2, InsertedType
  <2> QED BY <2>1, <2>3, ConcatProperties
<1>4. CASE i <= n /\ ~Doubled(t, i) /\ ~Placeholder(t, i)
  <2>1. From(t, values, from, i) = <<t[i]>> \o from[i + 1]
    BY <1>0, <1>4, FromOther, Zenon
  <2>2. i \in 1..n /\ i + 1 \in (i + 1)..(n + 1)
    BY <1>0, <1>4
  <2>3. <<t[i]>> \in Seq(S) /\ from[i + 1] \in Seq(S)
    BY <1>5, <2>2, Token
  <2> QED BY <2>1, <2>3, ConcatProperties
<1> QED BY <1>0, <1>1, <1>2, <1>3, <1>4

LEMMA FromLocal ==
  ASSUME NEW t, Len(t) \in Nat, NEW values, NEW f, NEW g, NEW i \in 1..(Len(t) + 1)
  PROVE  (\A j \in (i + 1)..(Len(t) + 1) : f[j] = g[j])
           => From(t, values, f, i) = From(t, values, g, i)
<1> DEFINE Same == \A j \in (i + 1)..(Len(t) + 1) : f[j] = g[j]
<1>0. i \in Nat \ {0}
  OBVIOUS
<1>1. CASE i > Len(t)
  <2>1. From(t, values, f, i) = <<>> /\ From(t, values, g, i) = <<>>
    BY <1>0, <1>1, FromEnd, Zenon
  <2> QED BY <2>1, Zenon
<1>2. CASE Doubled(t, i)
  <2>1. i + 1 <= Len(t) /\ From(t, values, f, i) = <<t[i]>> \o f[i + 2]
    BY <1>0, <1>2, FromDoubled, Zenon
  <2>2. From(t, values, g, i) = <<t[i]>> \o g[i + 2]
    BY <1>0, <1>2, FromDoubled, Zenon
  <2>3. Same => f[i + 2] = g[i + 2]
    BY <1>0, <2>1
  <2> QED BY <2>1, <2>2, <2>3, Zenon
<1>3. CASE Placeholder(t, i)
  <2>1. i + 2 <= Len(t) /\ From(t, values, f, i) = Inserted(values, t[i + 1]) \o f[i + 3]
    BY <1>0, <1>3, FromPlaceholder, Zenon
  <2>2. From(t, values, g, i) = Inserted(values, t[i + 1]) \o g[i + 3]
    BY <1>0, <1>3, FromPlaceholder, Zenon
  <2>3. i + 3 \in (i + 1)..(Len(t) + 1)
    BY <1>0, <2>1
  <2>4. Same => f[i + 3] = g[i + 3]
    BY <2>3
  <2> QED BY <2>1, <2>2, <2>4, Zenon
<1>4. CASE i <= Len(t) /\ ~Doubled(t, i) /\ ~Placeholder(t, i)
  <2>1. From(t, values, f, i) = <<t[i]>> \o f[i + 1] /\ From(t, values, g, i) = <<t[i]>> \o g[i + 1]
    BY <1>0, <1>4, FromOther, Zenon
  <2>2. Same => f[i + 1] = g[i + 1]
    BY <1>0, <1>4
  <2> QED BY <2>1, <2>2, Zenon
<1> QED BY <1>0, <1>1, <1>2, <1>3, <1>4

\* The recursion of Rendered defines it at every position of the template.
LEMMA RenderedStep ==
  ASSUME NEW S, NEW t \in Seq(S), NEW values, Values(S, values)
  PROVE  \A i \in 1..(Len(t) + 1) :
           /\ Rendered(t, values)[i] \in Seq(S)
           /\ Rendered(t, values)[i] = From(t, values, Rendered(t, values), i)
<1> DEFINE n == Len(t)
           Fits(k, g) == /\ DOMAIN g = (n + 1 - k)..(n + 1)
                         /\ g = [i \in (n + 1 - k)..(n + 1) |-> g[i]]
                         /\ \A i \in (n + 1 - k)..(n + 1) : g[i] = From(t, values, g, i)
           K == {k \in Nat : k <= n => \E g : Fits(k, g)}
           Is(g) == g = [i \in 1..(n + 1) |-> From(t, values, g, i)]
           R == Rendered(t, values)
<1>0. n \in Nat
  BY ElementOfSeq
<1>1. 0 \in K
  <2> DEFINE g == [i \in (n + 1)..(n + 1) |-> <<>>]
  <2>0. n + 1 \in Nat \ {0} /\ n + 1 > Len(t)
    BY <1>0
  <2>1. From(t, values, g, n + 1) = <<>>
    <3> HIDE DEF g
    <3> QED BY <1>0, <2>0, FromEnd, Zenon
  <2>2. (n + 1 - 0)..(n + 1) = {n + 1} /\ (n + 1)..(n + 1) = {n + 1}
    BY <1>0
  <2>3. Fits(0, g)
    BY <2>1, <2>2
  <2> QED BY <2>3
<1>2. ASSUME NEW k \in Nat, k \in K PROVE k + 1 \in K
  <2> SUFFICES ASSUME k + 1 <= n PROVE \E g : Fits(k + 1, g)
    OBVIOUS
  <2>1. PICK g : Fits(k, g)
    BY <1>0, <1>2
  <2> DEFINE j == n - k
             h == [i \in j..(n + 1) |-> IF i = j THEN From(t, values, g, j) ELSE g[i]]
  <2>2. j \in 1..n /\ n + 1 - (k + 1) = j /\ n + 1 - k = j + 1
    BY <1>0
  <2>5. \A i \in (j + 1)..(n + 1) : h[i] = g[i]
    BY <2>2
  <2>6. \A i \in j..(n + 1) : From(t, values, h, i) = From(t, values, g, i)
    <3> HIDE DEF h, j
    <3> TAKE i \in j..(n + 1)
    <3>1. i \in 1..(n + 1) /\ \A m \in (i + 1)..(n + 1) : h[m] = g[m]
      BY <1>0, <2>2, <2>5
    <3> QED BY <1>0, <3>1, FromLocal
  <2>7. h[j] = From(t, values, g, j)
    BY <1>0, <2>2
  <2>8. ASSUME NEW i \in j..(n + 1) PROVE h[i] = From(t, values, h, i)
    <3> HIDE DEF h
    <3>1. CASE i = j
      BY <2>6, <2>7, <3>1
    <3>2. CASE i # j
      <4>1. i \in (j + 1)..(n + 1)
        BY <2>2, <3>2
      <4>2. g[i] = From(t, values, g, i)
        BY <2>1, <2>2, <4>1
      <4> QED BY <2>5, <2>6, <4>1, <4>2
    <3> QED BY <3>1, <3>2
  <2>9. DOMAIN h = j..(n + 1) /\ h = [i \in j..(n + 1) |-> h[i]]
    OBVIOUS
  <2>10. Fits(k + 1, h)
    <3> HIDE DEF h, j
    <3> QED BY <2>2, <2>8, <2>9
  <2> QED BY <2>10
<1>3. PICK g : Fits(n, g)
  <2> HIDE DEF K
  <2>1. n \in K
    BY <1>0, <1>1, <1>2, SetInduction
  <2> QED BY <1>0, <2>1 DEF K
<1>4. Is(g)
  <2>1. n + 1 - n = 1
    BY <1>0
  <2>2. g = [i \in 1..(n + 1) |-> g[i]]
    BY <1>3, <2>1
  <2>3. \A i \in 1..(n + 1) : g[i] = From(t, values, g, i)
    BY <1>3, <2>1
  <2> HIDE DEF Fits
  <2> QED BY <2>2, <2>3
<1>5. \A i \in 1..(n + 1) : R[i] = From(t, values, R, i)
  <2>1. R = CHOOSE x : Is(x)
    BY Zenon DEF Rendered, From
  <2>2. Is(R)
    <3> HIDE DEF Is
    <3> QED BY <1>4, <2>1, Zenon
  <2> HIDE DEF R
  <2> QED BY <2>2
<1> HIDE DEF R, Is
<1>6. \A i \in 1..(n + 1) : R[i] \in Seq(S)
  <2> DEFINE T == {k \in Nat : \A i \in 1..(n + 1) : i + k > n => R[i] \in Seq(S)}
  <2>1. 0 \in T
    <3>1. ASSUME NEW i \in 1..(n + 1), i + 0 > n PROVE R[i] \in Seq(S)
      <4>1. \A m \in (i + 1)..(n + 1) : R[m] \in Seq(S)
        BY <1>0, <3>1
      <4> QED BY <1>5, <4>1, FromType
    <3> QED BY <3>1
  <2>2. ASSUME NEW k \in Nat, k \in T PROVE k + 1 \in T
    <3>1. ASSUME NEW i \in 1..(n + 1), i + (k + 1) > n PROVE R[i] \in Seq(S)
      <4>1. \A m \in (i + 1)..(n + 1) : R[m] \in Seq(S)
        BY <1>0, <2>2, <3>1
      <4> QED BY <1>5, <4>1, FromType
    <3> QED BY <3>1
  <2> HIDE DEF T
  <2>3. n \in T
    BY <1>0, <2>1, <2>2, SetInduction
  <2> QED BY <1>0, <2>3 DEF T
<1> QED BY <1>5, <1>6 DEF R

-----------------------------------------------------------------------------
\* A token as it is written in a template.
Written(c) == IF c \in Braces THEN <<c, c>> ELSE <<c>>

LEMMA WrittenType ==
  ASSUME NEW S, NEW c \in S
  PROVE  /\ Written(c) \in Seq(S)
         /\ c \in Braces => Len(Written(c)) = 2 /\ Written(c)[1] = c /\ Written(c)[2] = c
         /\ c \notin Braces => Len(Written(c)) = 1 /\ Written(c)[1] = c
BY DEF Written

\* The recursion of Escaped defines it at every length of the text.
LEMMA EscapedStep ==
  ASSUME NEW S, NEW text \in Seq(S)
  PROVE  /\ \A i \in 0..Len(text) : Escaped(text)[i] \in Seq(S)
         /\ Escaped(text)[0] = <<>>
         /\ \A i \in 1..Len(text) : Escaped(text)[i] = Escaped(text)[i - 1] \o Written(text[i])
<1> DEFINE n == Len(text)
           Upto(g, i) == IF i = 0 THEN <<>> ELSE g[i - 1] \o Written(text[i])
           Fits(k, g) == /\ g = [i \in 0..k |-> g[i]]
                         /\ \A i \in 0..k : g[i] = Upto(g, i)
           K == {k \in Nat : k <= n => \E g : Fits(k, g)}
           Is(g) == g = [i \in 0..n |-> Upto(g, i)]
           R == Escaped(text)
<1>0. n \in Nat /\ \A i \in 1..n : text[i] \in S
  BY ElementOfSeq
<1>1. 0 \in K
  <2> DEFINE g == [i \in 0..0 |-> <<>>]
  <2>1. Fits(0, g)
    OBVIOUS
  <2> QED BY <2>1
<1>2. ASSUME NEW k \in Nat, k \in K PROVE k + 1 \in K
  <2> SUFFICES ASSUME k + 1 <= n PROVE \E g : Fits(k + 1, g)
    OBVIOUS
  <2>1. PICK g : Fits(k, g)
    BY <1>0, <1>2
  <2> DEFINE h == [i \in 0..(k + 1) |-> IF i = k + 1 THEN Upto(g, k + 1) ELSE g[i]]
  <2>2. h = [i \in 0..(k + 1) |-> h[i]]
    OBVIOUS
  <2>3. \A i \in 0..k : h[i] = g[i]
    OBVIOUS
  <2>4. h[k + 1] = Upto(g, k + 1)
    OBVIOUS
  <2> HIDE DEF h
  <2>5. \A i \in 0..(k + 1) : Upto(h, i) = Upto(g, i)
    BY <2>3
  <2>6. \A i \in 0..(k + 1) : h[i] = Upto(h, i)
    <3> HIDE DEF Upto
    <3> TAKE i \in 0..(k + 1)
    <3>1. CASE i = k + 1
      BY <2>4, <2>5, <3>1
    <3>2. CASE i # k + 1
      <4>1. i \in 0..k
        BY <3>2
      <4> QED BY <2>1, <2>3, <2>5, <4>1
    <3> QED BY <3>1, <3>2
  <2>7. Fits(k + 1, h)
    BY <2>2, <2>6
  <2> QED BY <2>7
<1>3. PICK g : Fits(n, g)
  <2> HIDE DEF K
  <2>1. n \in K
    BY <1>0, <1>1, <1>2, SetInduction
  <2> QED BY <1>0, <2>1 DEF K
<1>4. Is(g)
  <2> HIDE DEF Upto
  <2> QED BY <1>3
<1>5. \A i \in 0..n : R[i] = Upto(R, i)
  <2>1. R = CHOOSE x : Is(x)
    BY Zenon DEF Escaped, Written
  <2>2. Is(R)
    <3> HIDE DEF Is
    <3> QED BY <1>4, <2>1, Zenon
  <2> HIDE DEF R, Upto
  <2> QED BY <2>2
<1> HIDE DEF R, Is
<1>6. R[0] = <<>>
  BY <1>0, <1>5
<1>7. ASSUME NEW i \in 1..n PROVE R[i] = R[i - 1] \o Written(text[i])
  <2>1. i \in 0..n /\ i # 0
    BY <1>0
  <2> QED BY <1>5, <2>1, Zenon
<1>8. \A i \in 0..n : R[i] \in Seq(S)
  <2> DEFINE T == {i \in Nat : i <= n => R[i] \in Seq(S)}
  <2>1. 0 \in T
    BY <1>6, EmptySeq
  <2>2. ASSUME NEW i \in Nat, i \in T PROVE i + 1 \in T
    <3>1. ASSUME i + 1 <= n PROVE R[i + 1] \in Seq(S)
      <4>1. i + 1 \in 1..n /\ R[i] \in Seq(S) /\ (i + 1) - 1 = i
        BY <1>0, <2>2, <3>1
      <4>2. R[i + 1] = R[i] \o Written(text[i + 1]) /\ Written(text[i + 1]) \in Seq(S)
        BY <1>0, <1>7, <4>1, WrittenType
      <4> QED BY <4>1, <4>2, ConcatProperties
    <3> QED BY <3>1
  <2> HIDE DEF T
  <2>3. Nat \subseteq T
    BY <2>1, <2>2, SetInduction
  <2> QED BY <1>0, <2>3 DEF T
<1> QED BY <1>6, <1>7, <1>8 DEF R

-----------------------------------------------------------------------------
\* What is rendered from a position on depends on nothing before it.
LEMMA BehindSame ==
  ASSUME NEW S, NEW p \in Seq(S), NEW q \in Seq(S), NEW j \in 1..Len(q)
  PROVE  /\ (p \o q)[Len(p) + j] = q[j]
         /\ Doubled(p \o q, Len(p) + j) <=> Doubled(q, j)
         /\ Placeholder(p \o q, Len(p) + j) <=> Placeholder(q, j)
<1> DEFINE m == Len(p)
           n == Len(q)
           t == p \o q
<1>0. m \in Nat /\ n \in Nat /\ Len(t) = m + n
  BY ConcatProperties
<1>1. \A k \in 1..n : t[m + k] = q[k]
  BY <1>0, ConcatProperties
<1> HIDE DEF t
<1>2. t[m + j] = q[j]
  BY <1>1
<1>3. (m + j < Len(t) <=> j < n) /\ (j < n => t[(m + j) + 1] = q[j + 1])
  <2>1. j < n => j + 1 \in 1..n /\ (m + j) + 1 = m + (j + 1)
    BY <1>0
  <2> QED BY <1>0, <1>1, <2>1
<1>4. /\ (m + j) + 2 <= Len(t) <=> j + 2 <= n
      /\ j + 2 <= n => t[(m + j) + 1] = q[j + 1] /\ t[(m + j) + 2] = q[j + 2]
  <2>1. j + 2 <= n => /\ j + 1 \in 1..n /\ (m + j) + 1 = m + (j + 1)
                      /\ j + 2 \in 1..n /\ (m + j) + 2 = m + (j + 2)
    BY <1>0
  <2> QED BY <1>0, <1>1, <2>1
<1>5. Doubled(t, m + j) <=> Doubled(q, j)
  BY <1>2, <1>3, Zenon DEF Doubled
<1>6. Placeholder(t, m + j) <=> Placeholder(q, j)
  BY <1>2, <1>4, Zenon DEF Placeholder
<1> QED BY <1>2, <1>5, <1>6 DEF t

LEMMA RenderedBehind ==
  ASSUME NEW S, NEW p \in Seq(S), NEW q \in Seq(S),
         NEW values, Values(S, values)
  PROVE  \A j \in 1..(Len(q) + 1) : Rendered(p \o q, values)[Len(p) + j] = Rendered(q, values)[j]
<1> DEFINE m == Len(p)
           n == Len(q)
           t == p \o q
           F == Rendered(t, values)
           G == Rendered(q, values)
           T == {k \in Nat : \A j \in 1..(n + 1) : j + k > n => F[m + j] = G[j]}
<1>0. m \in Nat /\ n \in Nat /\ t \in Seq(S) /\ Len(t) = m + n
  BY ConcatProperties
<1>1. \A i \in 1..(Len(t) + 1) : F[i] = From(t, values, F, i)
  BY <1>0, RenderedStep
<1>2. \A j \in 1..(n + 1) : G[j] = From(q, values, G, j)
  BY RenderedStep
<1>3. \A j \in 1..n : /\ t[m + j] = q[j]
                      /\ Doubled(t, m + j) <=> Doubled(q, j)
                      /\ Placeholder(t, m + j) <=> Placeholder(q, j)
  BY BehindSame
<1> HIDE DEF t, F, G
<1>4. \A k \in 1..(n + 1) : m + k \in 1..(Len(t) + 1)
  BY <1>0
<1>5. F[m + (n + 1)] = G[n + 1]
  <2>1. /\ n + 1 \in Nat \ {0} /\ n + 1 > n /\ n + 1 \in 1..(n + 1)
        /\ m + (n + 1) \in Nat \ {0} /\ m + (n + 1) > Len(t) /\ Len(t) \in Nat
        /\ m + (n + 1) \in 1..(Len(t) + 1)
    BY <1>0
  <2>2. From(t, values, F, m + (n + 1)) = <<>>
    BY <2>1, FromEnd, Zenon
  <2>3. From(q, values, G, n + 1) = <<>>
    BY <1>0, <2>1, FromEnd, Zenon
  <2> QED BY <1>1, <1>2, <2>1, <2>2, <2>3, Zenon
<1>6. ASSUME NEW j \in 1..n, \A k \in (j + 1)..(n + 1) : F[m + k] = G[k] PROVE F[m + j] = G[j]
  <2>1. /\ j \in Nat \ {0} /\ j <= n /\ j \in 1..(n + 1)
        /\ m + j \in Nat \ {0} /\ m + j <= Len(t) /\ Len(t) \in Nat /\ m + j \in 1..(Len(t) + 1)
    BY <1>0
  <2>2. F[m + j] = From(t, values, F, m + j) /\ G[j] = From(q, values, G, j)
    BY <1>1, <1>2, <2>1
  <2>3. CASE Doubled(q, j)
    <3>0. Doubled(t, m + j)
      BY <1>3, <2>3
    <3>1. From(q, values, G, j) = <<q[j]>> \o G[j + 2] /\ j + 1 <= n
      BY <1>0, <2>1, <2>3, FromDoubled
    <3>2. From(t, values, F, m + j) = <<t[m + j]>> \o F[(m + j) + 2]
      BY <2>1, <3>0, FromDoubled, Zenon
    <3>3. j + 2 \in (j + 1)..(n + 1) /\ (m + j) + 2 = m + (j + 2)
      BY <1>0, <3>1
    <3> QED BY <1>3, <1>6, <2>2, <3>1, <3>2, <3>3
  <2>4. CASE Placeholder(q, j)
    <3>0. Placeholder(t, m + j)
      BY <1>3, <2>4
    <3>1. From(q, values, G, j) = Inserted(values, q[j + 1]) \o G[j + 3] /\ j + 2 <= n
      BY <1>0, <2>1, <2>4, FromPlaceholder
    <3>2. From(t, values, F, m + j) = Inserted(values, t[(m + j) + 1]) \o F[(m + j) + 3]
      BY <2>1, <3>0, FromPlaceholder, Zenon
    <3>3. /\ j + 3 \in (j + 1)..(n + 1) /\ (m + j) + 3 = m + (j + 3)
          /\ j + 1 \in 1..n /\ (m + j) + 1 = m + (j + 1)
      BY <1>0, <3>1
    <3> QED BY <1>3, <1>6, <2>2, <3>1, <3>2, <3>3
  <2>5. CASE ~Doubled(q, j) /\ ~Placeholder(q, j)
    <3>0. ~Doubled(t, m + j) /\ ~Placeholder(t, m + j)
      BY <1>3, <2>5
    <3>1. From(q, values, G, j) = <<q[j]>> \o G[j + 1]
      BY <1>0, <2>1, <2>5, FromOther
    <3>2. From(t, values, F, m + j) = <<t[m + j]>> \o F[(m + j) + 1]
      BY <2>1, <3>0, FromOther, Zenon
    <3>3. j + 1 \in (j + 1)..(n + 1) /\ (m + j) + 1 = m + (j + 1)
      BY <1>0
    <3> QED BY <1>3, <1>6, <2>2, <3>1, <3>2, <3>3
  <2> QED BY <2>3, <2>4, <2>5
<1>7. 0 \in T
  <2>1. ASSUME NEW j \in 1..(n + 1), j + 0 > n PROVE F[m + j] = G[j]
    <3>1. j = n + 1
      BY <1>0, <2>1
    <3> QED BY <1>5, <3>1
  <2> QED BY <2>1
<1>8. ASSUME NEW k \in Nat, k \in T PROVE k + 1 \in T
  <2>1. ASSUME NEW j \in 1..(n + 1), j + (k + 1) > n PROVE F[m + j] = G[j]
    <3>1. CASE j = n + 1
      BY <1>5, <3>1
    <3>2. CASE j # n + 1
      <4>1. j \in 1..n /\ \A l \in (j + 1)..(n + 1) : F[m + l] = G[l]
        BY <1>0, <1>8, <2>1, <3>2
      <4> QED BY <1>6, <4>1
    <3> QED BY <3>1, <3>2
  <2> QED BY <2>1
<1> HIDE DEF T
<1>9. n \in T
  BY <1>0, <1>7, <1>8, SetInduction
<1>10. \A j \in 1..(n + 1) : F[m + j] = G[j]
  BY <1>0, <1>9 DEF T
<1> QED BY <1>10 DEF F, G, t

-----------------------------------------------------------------------------
\* From here on a text is opaque, and these are the facts about it.
Text(S) == Seq(S)

LEMMA TextEmpty == ASSUME NEW S, NEW s \in Text(S)
                   PROVE  <<>> \in Text(S) /\ s \o <<>> = s /\ <<>> \o s = s
BY EmptySeq, ConcatEmptySeq DEF Text

LEMMA TextConcat == ASSUME NEW S, NEW s \in Text(S), NEW t \in Text(S)
                    PROVE  s \o t \in Text(S)
BY ConcatProperties DEF Text

LEMMA TextAssoc == ASSUME NEW S, NEW s \in Text(S), NEW t \in Text(S), NEW u \in Text(S)
                   PROVE  (s \o t) \o u = s \o (t \o u)
BY ConcatAssociative DEF Text

LEMMA TextToken == ASSUME NEW S, NEW c \in S PROVE <<c>> \in Text(S) /\ Written(c) \in Text(S)
BY Token, WrittenType DEF Text

LEMMA RenderText ==
  ASSUME NEW S, NEW q \in Text(S), NEW values, Values(S, values)
  PROVE  Render(q, values) \in Text(S)
<1>1. 1 \in 1..(Len(q) + 1)
  BY DEF Text
<1> QED BY <1>1, RenderedStep DEF Render, Text

\* What is rendered behind a text is what is rendered of the rest.
LEMMA RenderRest ==
  ASSUME NEW S, NEW p \in Text(S), NEW q \in Text(S), NEW values, Values(S, values)
  PROVE  /\ Len(p \o q) = Len(p) + Len(q) /\ Len(p) \in Nat /\ Len(q) \in Nat
         /\ \A i \in 1..Len(p) : (p \o q)[i] = p[i]
         /\ Rendered(p \o q, values)[Len(p) + 1] = Render(q, values)
         /\ Render(p \o q, values) = From(p \o q, values, Rendered(p \o q, values), 1)
<1>1. 1 \in 1..(Len(q) + 1) /\ Len(q) \in Nat /\ Len(p) \in Nat
  BY DEF Text
<1>2. p \o q \in Seq(S) /\ Len(p \o q) = Len(p) + Len(q) /\ \A i \in 1..Len(p) : (p \o q)[i] = p[i]
  BY ConcatProperties DEF Text
<1>3. Rendered(p \o q, values)[Len(p) + 1] = Rendered(q, values)[1]
  BY <1>1, RenderedBehind DEF Text
<1>4. 1 \in 1..(Len(p \o q) + 1)
  BY <1>1, <1>2
<1>5. Rendered(p \o q, values)[1] = From(p \o q, values, Rendered(p \o q, values), 1)
  <2> DEFINE t == p \o q
  <2>1. t \in Seq(S) /\ 1 \in 1..(Len(t) + 1)
    BY <1>2, <1>4
  <2> HIDE DEF t
  <2>2. Rendered(t, values)[1] = From(t, values, Rendered(t, values), 1)
    BY <2>1, RenderedStep
  <2> QED BY <2>2 DEF t
<1> QED BY <1>1, <1>2, <1>3, <1>5 DEF Render

\* Nothing is rendered of nothing.
LEMMA RenderEmpty ==
  ASSUME NEW S, NEW values, Values(S, values)
  PROVE  Render(<<>>, values) = <<>>
<1> DEFINE t == <<>>
<1>1. t \in Seq(S) /\ Len(t) \in Nat /\ 1 \in Nat \ {0} /\ 1 > Len(t) /\ 1 \in 1..(Len(t) + 1)
  BY EmptySeq
<1> HIDE DEF t
<1>2. Rendered(t, values)[1] = From(t, values, Rendered(t, values), 1)
  BY <1>1, RenderedStep
<1>3. From(t, values, Rendered(t, values), 1) = <<>>
  BY <1>1, FromEnd
<1> QED BY <1>2, <1>3 DEF Render, t

\* A token comes out as it was, whatever stands behind it.
LEMMA RenderWritten ==
  ASSUME NEW S, NEW q \in Text(S), NEW values, Values(S, values), NEW c \in S
  PROVE  Render(Written(c) \o q, values) = <<c>> \o Render(q, values)
<1> DEFINE p == Written(c)
           t == p \o q
           F == Rendered(t, values)
<1>3. p \in Text(S)
  BY TextToken
<1>0. /\ Len(t) = Len(p) + Len(q) /\ Len(p) \in Nat /\ Len(q) \in Nat
      /\ \A i \in 1..Len(p) : t[i] = p[i]
      /\ F[Len(p) + 1] = Render(q, values)
      /\ Render(t, values) = From(t, values, F, 1)
  <2> HIDE DEF p
  <2> QED BY <1>3, RenderRest
<1>1. CASE c \in Braces
  <2>1. Len(p) = 2 /\ p[1] = c /\ p[2] = c
    BY <1>1, WrittenType
  <2> HIDE DEF p, t, F
  <2>2. t[1] = c /\ t[1 + 1] = c /\ 1 < Len(t) /\ Len(t) \in Nat /\ 1 \in Nat \ {0} /\ 2 + 1 = 1 + 2
    BY <1>0, <2>1
  <2>3. Doubled(t, 1)
    BY <1>1, <2>2, Zenon DEF Doubled
  <2>4. From(t, values, F, 1) = <<t[1]>> \o F[1 + 2]
    BY <2>2, <2>3, FromDoubled, Zenon
  <2>5. Render(t, values) = <<c>> \o Render(q, values)
    BY <1>0, <2>1, <2>2, <2>4, Zenon
  <2> QED BY <2>5 DEF t, p
<1>2. CASE c \notin Braces
  <2>1. Len(p) = 1 /\ p[1] = c
    BY <1>2, WrittenType
  <2> HIDE DEF p, t, F
  <2>2. t[1] = c /\ 1 <= Len(t) /\ Len(t) \in Nat /\ 1 \in Nat \ {0}
    BY <1>0, <2>1
  <2>3. ~Doubled(t, 1) /\ ~Placeholder(t, 1)
    BY <1>2, <2>2, Zenon DEF Doubled, Placeholder, Braces
  <2>4. From(t, values, F, 1) = <<t[1]>> \o F[1 + 1]
    BY <2>2, <2>3, FromOther, Zenon
  <2>5. Render(t, values) = <<c>> \o Render(q, values)
    BY <1>0, <2>1, <2>2, <2>4, Zenon
  <2> QED BY <2>5 DEF t, p
<1> QED BY <1>1, <1>2

\* The text of a placeholder.
Named(name) == <<"{", name, "}">>

LEMMA NamedType ==
  ASSUME NEW S, "{" \in S, "}" \in S, NEW name \in S
  PROVE  /\ Named(name) \in Text(S) /\ Len(Named(name)) = 3
         /\ Named(name)[1] = "{" /\ Named(name)[2] = name /\ Named(name)[3] = "}"
BY Tokens DEF Named, Text

\* A placeholder becomes what is inserted for it, whatever stands behind it.
LEMMA RenderPlaceholder ==
  ASSUME NEW S, NEW q \in Text(S), NEW values, Values(S, values), NEW name \in S \ Signs
  PROVE  /\ Render(Named(name) \o q, values) = Inserted(values, name) \o Render(q, values)
         /\ Named(name) \in Text(S)
<1> DEFINE p == Named(name)
           t == p \o q
           F == Rendered(t, values)
<1>1. "{" \in S /\ "}" \in S
  BY DEF Values, Braces
<1>2. p \in Text(S)
  BY <1>1, NamedType
<1>3. Len(p) = 3
  BY <1>1, NamedType
<1>4. p[1] = "{" /\ p[2] = name /\ p[3] = "}"
  BY <1>1, NamedType
<1> HIDE DEF p
<1>5. /\ Len(t) = Len(p) + Len(q) /\ Len(p) \in Nat /\ Len(q) \in Nat
      /\ \A i \in 1..Len(p) : t[i] = p[i]
      /\ F[Len(p) + 1] = Render(q, values)
      /\ Render(t, values) = From(t, values, F, 1)
  BY <1>2, RenderRest
<1> HIDE DEF t, F
<1>6. /\ t[1] = p[1] /\ t[1 + 1] = p[2] /\ t[1 + 2] = p[3]
      /\ 1 + 2 <= Len(t) /\ Len(t) \in Nat /\ 1 \in Nat \ {0} /\ 3 + 1 = 1 + 3
  BY <1>3, <1>5
<1>7. Placeholder(t, 1)
  BY <1>4, <1>6, Zenon DEF Placeholder
<1>8. From(t, values, F, 1) = Inserted(values, t[1 + 1]) \o F[1 + 3]
  BY <1>6, <1>7, FromPlaceholder, ZenonT(30)
<1>9. Render(t, values) = Inserted(values, name) \o Render(q, values)
  BY <1>3, <1>4, <1>5, <1>6, <1>8, Zenon
<1> QED BY <1>2, <1>9 DEF t, p

LEMMA TextBegins ==
  ASSUME NEW S, NEW text \in Text(S)
  PROVE  /\ Len(text) \in Nat
         /\ SubSeq(text, 1, 0) = <<>>
         /\ SubSeq(text, 1, Len(text)) = text
         /\ \A i \in 0..Len(text) : SubSeq(text, 1, i) \in Text(S)
         /\ \A i \in 1..Len(text) : /\ text[i] \in S
                                    /\ SubSeq(text, 1, i) = SubSeq(text, 1, i - 1) \o <<text[i]>>
<1>1. Len(text) \in Nat /\ \A i \in 1..Len(text) : text[i] \in S
  BY ElementOfSeq DEF Text
<1>2. SubSeq(text, 1, 0) = <<>> /\ SubSeq(text, 1, Len(text)) = text
  BY SubSeqEmpty, SubSeqFull DEF Text
<1>3. ASSUME NEW i \in 0..Len(text) PROVE SubSeq(text, 1, i) \in Seq(S)
  <2>1. \A j \in 1..i : text[j] \in S
    BY <1>1
  <2> QED BY <2>1, SubSeqProperties
<1>4. ASSUME NEW i \in 1..Len(text)
      PROVE  SubSeq(text, 1, i) = SubSeq(text, 1, i - 1) \o <<text[i]>>
  <2>1. 1 \in 1..Len(text) /\ i \in 1..Len(text)
    BY <1>1
  <2> QED BY <2>1, SubSeqRecursiveSecond DEF Text
<1> QED BY <1>1, <1>2, <1>3, <1>4 DEF Text

\* So a whole text comes out as it was.
LEMMA RenderEscaped ==
  ASSUME NEW S, NEW text \in Text(S), NEW values, Values(S, values)
  PROVE  /\ Escape(text) \in Text(S)
         /\ \A q \in Text(S) : Render(Escape(text) \o q, values) = text \o Render(q, values)
<1> DEFINE n == Len(text)
           E == Escaped(text)
           Begins(i) == SubSeq(text, 1, i)
           Kept(i) == \A q \in Text(S) : Render(E[i] \o q, values) = Begins(i) \o Render(q, values)
           T == {i \in Nat : i <= n => Kept(i)}
<1>0. /\ n \in Nat /\ \A i \in 1..n : text[i] \in S
      /\ Begins(0) = <<>> /\ Begins(n) = text
      /\ \A i \in 0..n : Begins(i) \in Text(S)
      /\ \A i \in 1..n : Begins(i) = Begins(i - 1) \o <<text[i]>>
  BY TextBegins
<1>1. /\ \A i \in 0..n : E[i] \in Text(S)
      /\ E[0] = <<>>
      /\ \A i \in 1..n : E[i] = E[i - 1] \o Written(text[i])
  BY EscapedStep DEF Text
<1> HIDE DEF E, Begins
<1>2. 0 \in T
  <2>1. ASSUME NEW q \in Text(S) PROVE Render(E[0] \o q, values) = Begins(0) \o Render(q, values)
    <3>1. <<>> \o q = q
      BY TextEmpty
    <3>2. Render(q, values) \in Text(S)
      BY RenderText
    <3>3. <<>> \o Render(q, values) = Render(q, values)
      BY <3>2, TextEmpty
    <3> QED BY <1>0, <1>1, <3>1, <3>3
  <2> QED BY <2>1
<1>3. ASSUME NEW i \in Nat, i \in T PROVE i + 1 \in T
  <2>1. ASSUME i + 1 <= n, NEW q \in Text(S)
        PROVE  Render(E[i + 1] \o q, values) = Begins(i + 1) \o Render(q, values)
    <3> DEFINE c == text[i + 1]
               r == Render(q, values)
               w == Written(c)
    <3>1. i + 1 \in 1..n /\ i \in 0..n /\ (i + 1) - 1 = i /\ i <= n
      BY <1>0, <2>1
    <3>2. c \in S /\ Begins(i) \in Text(S) /\ Begins(i + 1) = Begins(i) \o <<c>>
      BY <1>0, <3>1
    <3>3. E[i + 1] = E[i] \o w /\ E[i] \in Text(S)
      BY <1>1, <3>1
    <3>4. w \in Text(S) /\ <<c>> \in Text(S) /\ r \in Text(S)
      BY <3>2, TextToken, RenderText
    <3>5. Render(w \o q, values) = <<c>> \o r
      BY <3>2, RenderWritten
    <3> HIDE DEF c, r, w
    <3>6. w \o q \in Text(S) /\ (E[i] \o w) \o q = E[i] \o (w \o q)
      <4>1. w \o q \in Text(S)
        BY <3>4, TextConcat
      <4> DEFINE e == E[i]
      <4>2. e \in Text(S) /\ w \in Text(S) /\ q \in Text(S)
        BY <3>3, <3>4
      <4> HIDE DEF e
      <4>3. (e \o w) \o q = e \o (w \o q)
        BY <4>2, TextAssoc
      <4> QED BY <4>1, <4>3 DEF e
    <3>7. Render(E[i] \o (w \o q), values) = Begins(i) \o Render(w \o q, values)
      <4>1. Kept(i)
        BY <1>3, <3>1
      <4> QED BY <3>6, <4>1
    <3>8. (Begins(i) \o <<c>>) \o r = Begins(i) \o (<<c>> \o r)
      BY <3>2, <3>4, TextAssoc
    <3>9. Render(E[i + 1] \o q, values) = Begins(i + 1) \o r
      BY <3>2, <3>3, <3>5, <3>6, <3>7, <3>8
    <3> QED BY <3>9 DEF r
  <2> QED BY <2>1
<1>4. n \in T
  <2> HIDE DEF T
  <2> QED BY <1>0, <1>2, <1>3, SetInduction
<1>5. n \in 0..n /\ n <= n
  BY <1>0
<1>6. Escape(text) = E[n]
  BY DEF Escape, E
<1>7. Kept(n)
  BY <1>4, <1>5
<1> QED BY <1>0, <1>1, <1>5, <1>6, <1>7

\* Every text that is written with its braces doubled reaches the executor as it
\* was, before and behind a placeholder too, and every placeholder becomes the value
\* of its name and nothing that was in that value is taken for one (core/templating.py:53-75).
THEOREM EveryTextIsKept ==
  ASSUME NEW S, NEW before \in Seq(S), NEW after \in Seq(S),
         NEW name \in S \ Signs, NEW values, Values(S, values)
  PROVE  TemplateIsKept(before, name, after, values)
<1> DEFINE p == Named(name)
           a == Escape(before)
           b == Escape(after)
           v == Inserted(values, name)
<1>0. before \in Text(S) /\ after \in Text(S)
  BY DEF Text
<1>1. a \in Text(S) /\ \A q \in Text(S) : Render(a \o q, values) = before \o Render(q, values)
  BY <1>0, RenderEscaped
<1>2. b \in Text(S) /\ \A q \in Text(S) : Render(b \o q, values) = after \o Render(q, values)
  BY <1>0, RenderEscaped
<1>3. v \in Text(S)
  BY InsertedType DEF Text
<1>4. p \in Text(S) /\ Render(p \o b, values) = v \o Render(b, values)
  BY <1>2, RenderPlaceholder
<1> HIDE DEF a, b, p, v
<1>5. /\ <<>> \in Text(S) /\ a \o <<>> = a /\ b \o <<>> = b
      /\ before \o <<>> = before /\ after \o <<>> = after
  BY <1>0, <1>1, <1>2, TextEmpty
<1>6. Render(<<>>, values) = <<>>
  BY RenderEmpty
<1>7. Render(a, values) = before /\ Render(b, values) = after
  <2>1. Render(a \o <<>>, values) = before \o <<>> /\ Render(b \o <<>>, values) = after \o <<>>
    BY <1>1, <1>2, <1>5, <1>6, Zenon
  <2> QED BY <1>5, <2>1, Zenon
<1>8. p \o b \in Text(S) /\ (a \o p) \o b = a \o (p \o b)
  <2>1. p \o b \in Text(S)
    BY <1>2, <1>4, TextConcat
  <2>2. a \in Text(S) /\ p \in Text(S) /\ b \in Text(S)
    BY <1>1, <1>2, <1>4
  <2>3. (a \o p) \o b = a \o (p \o b)
    BY <2>2, TextAssoc
  <2> QED BY <2>1, <2>3
<1>9. Render((a \o p) \o b, values) = before \o (v \o after)
  BY <1>1, <1>4, <1>7, <1>8, Zenon
<1>10. before \o (v \o after) = (before \o v) \o after
  BY <1>0, <1>3, TextAssoc
<1> QED BY <1>7, <1>9, <1>10, Zenon DEF p, a, b, v, Named, TemplateIsKept
=============================================================================
