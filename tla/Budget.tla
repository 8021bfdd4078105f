------------------------------- MODULE Budget -------------------------------
(***************************************************************************)
(* The cost and wall-clock caps (engine/budget.py), the places where the   *)
(* run loop consults them (orchestrator.py:868-917), and the tool loop of  *)
(* the api executor, which spends the money and the time                   *)
(* (executors/api_loop.py).                                                *)
(*                                                                         *)
(* Time and money are small integers: a model call costs at most TurnCost, *)
(* a turn (the call and its tools) lasts at most TurnTime.                 *)
(***************************************************************************)
EXTENDS Naturals

CONSTANTS
  MaxCost,        \* budget.max_cost_usd
  MaxWall,        \* budget.max_wall_clock_s
  MinTimeout,     \* MIN_STEP_TIMEOUT_S
  Requested,      \* the step's timeout_s
  MaxIterations,  \* max_iterations of the executor
  TurnCost, TurnTime,
  Spawns,         \* bound: fixers, each of them a run of the executor too
  Resumes         \* bound: resumes of the run

ASSUME BudgetConstants ==
  /\ MaxCost \in Nat /\ MaxWall \in Nat
  /\ MinTimeout \in Nat /\ Requested \in Nat \ {0} /\ MaxIterations \in Nat \ {0}
  /\ TurnCost \in Nat /\ TurnTime \in Nat
  /\ Spawns \in Nat /\ Resumes \in Nat

VARIABLES
  pc,
  elapsed,   \* Budget.elapsed_s
  spent,     \* Budget.spent_usd
  total,     \* what the answers cost the run, in all its processes
  deadline,  \* of the executor call, on the clock of elapsed
  maxCost,   \* ExecRequest.max_cost_usd; Uncapped for a fixer
  usage,     \* what the executor call cost so far
  turns,     \* iterations of the tool loop left
  failed,    \* the result has an error
  spawned, resumed

vars == <<pc, elapsed, spent, total, deadline, maxCost, usage, turns, failed, spawned, resumed>>
request == <<deadline, maxCost, usage, turns, failed>>

Lesser(a, b) == IF a <= b THEN a ELSE b
Greater(a, b) == IF a >= b THEN a ELSE b

Uncapped == MaxCost + (MaxIterations + 1) * TurnCost + 1

Point == {"between", "turn", "charge", "served", "fixing", "stopped"}

TypeOK ==
  /\ pc \in Point
  /\ elapsed \in Nat /\ spent \in Nat /\ total \in Nat
  /\ deadline \in Nat /\ maxCost \in Nat /\ usage \in Nat
  /\ turns \in 0..MaxIterations
  /\ failed \in BOOLEAN
  /\ spawned \in 0..Spawns /\ resumed \in 0..Resumes

\* Budget.start()
Init ==
  /\ pc = "between"
  /\ elapsed = 0 /\ spent = 0 /\ total = 0
  /\ deadline = 0 /\ maxCost = 0 /\ usage = 0 /\ turns = 0
  /\ failed = FALSE
  /\ spawned = 0 /\ resumed = 0

-----------------------------------------------------------------------------
(* The run loop                                                            *)

\* budget.step_timeout()
NoTimeLeft == elapsed >= MaxWall

StepTimeout == Greater(MinTimeout, Lesser(Requested, MaxWall - elapsed))

Idle == pc \in {"between", "served"}

\* Commits, saves and calls to the ticket take time too.  (Once the cap is
\* passed more of it changes nothing.)
Elapse ==
  /\ Idle /\ elapsed <= MaxWall
  /\ \E d \in 1..TurnTime : elapsed' = elapsed + d
  /\ UNCHANGED <<pc, spent, total, request, spawned, resumed>>

Refuse ==
  /\ Idle /\ NoTimeLeft
  /\ pc' = "stopped"
  /\ UNCHANGED <<elapsed, spent, total, request, spawned, resumed>>

\* Mutant: every step is handed the whole cap.
BeginWithAll ==
  /\ Idle /\ ~NoTimeLeft
  /\ deadline' = elapsed + StepTimeout
  /\ maxCost' = MaxCost
  /\ usage' = 0 /\ turns' = MaxIterations /\ failed' = FALSE
  /\ pc' = "turn"
  /\ UNCHANGED <<elapsed, spent, total, spawned, resumed>>

\* executor.run(req) is entered: the call's deadline starts with it.
BeginStep ==
  /\ Idle /\ ~NoTimeLeft
  /\ deadline' = elapsed + StepTimeout
  /\ maxCost' = IF spent <= MaxCost THEN MaxCost - spent ELSE 0
  /\ usage' = 0 /\ turns' = MaxIterations /\ failed' = FALSE
  /\ pc' = "turn"
  /\ UNCHANGED <<elapsed, spent, total, spawned, resumed>>

\* budget.charge() and budget.check(); a failed mandatory step stops the run
\* too, a failed optional one does not.
Exceeded == spent' > MaxCost \/ NoTimeLeft
Charge ==
  /\ pc = "charge"
  /\ spent' = spent + usage
  /\ \/ (Exceeded \/ failed) /\ pc' = "stopped"
     \/ ~Exceeded /\ failed /\ pc' = "between"
     \/ ~Exceeded /\ ~failed /\ pc' = "served"
  /\ UNCHANGED <<elapsed, total, request, spawned, resumed>>

\* _spawn_fixer(): no budget is asked, no max_cost_usd is given, and what the
\* fixer used is charged to nobody.
SpawnFixer ==
  /\ pc = "served" /\ spawned < Spawns
  /\ spawned' = spawned + 1
  /\ deadline' = elapsed + Requested
  /\ maxCost' = Uncapped
  /\ usage' = 0 /\ turns' = MaxIterations /\ failed' = FALSE
  /\ pc' = "fixing"
  /\ UNCHANGED <<elapsed, spent, total, resumed>>

\* A new process, a new Budget: nothing of the old one's is read back.
Resume ==
  /\ pc = "stopped" /\ resumed < Resumes
  /\ resumed' = resumed + 1
  /\ elapsed' = 0 /\ spent' = 0
  /\ pc' = "between"
  /\ UNCHANGED <<total, request, spawned>>

-----------------------------------------------------------------------------
(* The tool loop of ApiLoopExecutor.run                                    *)

InCall == pc \in {"turn", "fixing"}

\* The call returns its result, with or without an error.
Return == pc' = IF pc = "fixing" THEN "served" ELSE "charge"

\* Mutant: max_iterations is an error only when the time is up as well.
OutOfTurnsAndTime ==
  /\ InCall /\ turns = 0 /\ elapsed > deadline
  /\ failed' = TRUE
  /\ Return
  /\ UNCHANGED <<elapsed, spent, total, deadline, maxCost, usage, turns, spawned, resumed>>

OutOfTurns ==
  /\ InCall /\ turns = 0
  /\ failed' = TRUE
  /\ Return
  /\ UNCHANGED <<elapsed, spent, total, deadline, maxCost, usage, turns, spawned, resumed>>

PastDeadline ==
  /\ InCall /\ turns > 0 /\ elapsed > deadline
  /\ failed' = TRUE
  /\ Return
  /\ UNCHANGED <<elapsed, spent, total, deadline, maxCost, usage, turns, spawned, resumed>>

\* A call that fails is in no account, also when the provider bills a refusal.
ProviderFails ==
  /\ InCall /\ turns > 0 /\ elapsed <= deadline
  /\ failed' = TRUE
  /\ \E d \in 0..TurnTime : elapsed' = elapsed + d
  /\ Return
  /\ UNCHANGED <<spent, total, deadline, maxCost, usage, turns, spawned, resumed>>

\* provider.complete() answers; over the cap the call ends, with a final answer
\* it ends well, otherwise the tools run and the loop goes on.
ProviderAnswers ==
  /\ InCall /\ turns > 0 /\ elapsed <= deadline
  /\ turns' = turns - 1
  /\ \E c \in 0..TurnCost : usage' = usage + c /\ total' = total + c
  /\ \E d \in 0..TurnTime : elapsed' = elapsed + d
  /\ IF usage' > maxCost
     THEN failed' = TRUE /\ Return
     ELSE failed' = FALSE /\ (Return \/ UNCHANGED pc)
  /\ UNCHANGED <<spent, deadline, maxCost, spawned, resumed>>

Loop == OutOfTurns \/ PastDeadline \/ ProviderFails \/ ProviderAnswers
Next == Elapse \/ Refuse \/ BeginStep \/ Charge \/ SpawnFixer \/ Resume \/ Loop

Spec == Init /\ [][Next]_vars

\* Every call the executor makes has a timeout of its own.
FairSpec == Spec /\ WF_vars(Loop \/ Charge)

-----------------------------------------------------------------------------
(* Properties                                                              *)

\* What a run costs is bounded by its processes, each of which overshoots its
\* cap by one model call at most, and by its fixers, which no cap holds back but
\* max_iterations (orchestrator.py:868-917, 1097).
FixerCost == MaxIterations * TurnCost
CostBounded == total <= (resumed + 1) * (MaxCost + TurnCost) + spawned * FixerCost

\* One Budget is never exceeded by more than the price of one model call: the
\* cap handed to the executor and the check after it overlap by one call only.
Overshoot == spent + (IF pc \in {"turn", "charge"} THEN usage ELSE 0) <= MaxCost + TurnCost

\* A step never outlives the wall-clock cap by more than the 30-second floor of
\* its timeout and the turn during which it passes.
Overrun == pc \in {"turn", "charge"} => elapsed <= MaxWall + MinTimeout + TurnTime

\* Both caps hold, each but for its overshoot, across fixers and resumes.
CapsHold == CostBounded /\ Overrun

\* A call of the executor ends, and with it the step.
CallsEnd == pc \in {"turn", "fixing"} ~> pc \notin {"turn", "fixing"}
=============================================================================
