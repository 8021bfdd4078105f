---------------------------- MODULE RunPromise ----------------------------
(***************************************************************************)
(* What run.json promises to whoever reads it, at any moment and after any *)
(* number of crashes, interrupts and resumes: the steps recorded as        *)
(* complete only grow, each one follows every mandatory step before it,    *)
(* and the run is called done only when no mandatory step is missing.      *)
(* PipelineRun implements this module.                                     *)
(***************************************************************************)
EXTENDS Naturals

CONSTANTS StepCount, Optional

Step == 1..StepCount

VARIABLES
  done,    \* steps recorded "ok" or "skipped"
  verdict  \* "open", "blocked", "failed" or "done"

TypeOK == done \subseteq Step /\ verdict \in {"open", "blocked", "failed", "done"}

Init == done = {} /\ verdict = "open"

\* A step is recorded complete; its phase may reopen the run, and the PR gate
\* may block it.
Complete(s) ==
  /\ s \in Step \ done
  /\ \A t \in 1..(s - 1) : t \in done \cup Optional
  /\ done' = done \cup {s}
  /\ verdict' \in {verdict, "open", "blocked"}

\* The run stops for a human, or gives up.
Stop ==
  /\ verdict' \in {"blocked", "failed"}
  /\ UNCHANGED done

Finish ==
  /\ Step \subseteq done \cup Optional
  /\ verdict' = "done"
  /\ UNCHANGED done

Next == (\E s \in Step : Complete(s)) \/ Stop \/ Finish

Spec == Init /\ [][Next]_<<done, verdict>>
=============================================================================
