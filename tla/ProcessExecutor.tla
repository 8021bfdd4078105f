-------------------------- MODULE ProcessExecutor --------------------------
(***************************************************************************)
(* executors/process.py, and the commands that shell.run starts without a  *)
(* runtime (executors/tools.py) or with the local one.                     *)
(*                                                                         *)
(* A call spawns a child, which may start a helper process and end before  *)
(* it.  The helper may hold the child's pipes, so the end of the output    *)
(* does not come with the end of the child, or it may have cut itself off  *)
(* from pipes and process tree.  Both work on the files of the workspace.  *)
(***************************************************************************)
EXTENDS Integers, FiniteSets

CONSTANTS
  MaxCalls,    \* bound: the calls made one after the other
  MaxStops     \* bound: Ctrl-C

ASSUME CallAssumption == MaxCalls \in Nat \ {0} /\ MaxStops \in Nat

Calls == 1..MaxCalls

VARIABLES
  nt,        \* os.name == "nt"
  call,      \* how many calls were made
  tool,      \* what the call is: "process" or "shell"
  phase,     \* of the latest call
  child,     \* of each call
  helper,    \* of each call
  touched,   \* earlier calls with changes since the snapshot before this one
  result,    \* of each call: its outcome, and touched when it came back
  untaken,   \* the calls whose taskkill failed
  stops
processVars == <<nt, call, tool, phase, child, helper, touched, result, untaken, stops>>

ProcessTypeOK ==
  /\ nt \in BOOLEAN /\ call \in 0..MaxCalls /\ tool \in {"process", "shell"}
  /\ phase \in {"idle", "communicate", "taskkill", "kill", "drain", "cut"}
  /\ child \in [Calls -> {"none", "alive", "failed", "ok", "killed"}]
  /\ helper \in [Calls -> {"none", "attached", "detached", "dead", "left"}]
  /\ touched \subseteq Calls
  /\ result \in [Calls -> [outcome : {"none", "ok", "failed", "timed_out", "raised"},
                           files : SUBSET Calls]]
  /\ untaken \subseteq 0..MaxCalls
  /\ stops \in 0..MaxStops

ProcessInit ==
  /\ nt \in BOOLEAN /\ tool = "process"
  /\ call = 0 /\ phase = "idle" /\ stops = 0
  /\ child = [c \in Calls |-> "none"] /\ helper = [c \in Calls |-> "none"]
  /\ touched = {} /\ untaken = {}
  /\ result = [c \in Calls |-> [outcome |-> "none", files |-> {}]]

Alive(c) == helper[c] \in {"attached", "detached"}
\* EOF on the pipes: nobody holds their other end.
AtEof == child[call] # "alive" /\ helper[call] # "attached"

-----------------------------------------------------------------------------
(* The processes.                                                          *)

\* With its last line, a child that succeeds has written its whole text.
ChildEnds ==
  /\ call > 0 /\ child[call] = "alive"
  /\ \E how \in {"ok", "failed"} : child' = [child EXCEPT ![call] = how]
  /\ UNCHANGED <<nt, call, tool, phase, helper, touched, result, untaken, stops>>

ChildStartsHelper ==
  /\ call > 0 /\ child[call] = "alive" /\ helper[call] = "none"
  /\ \E how \in {"attached", "detached"} : helper' = [helper EXCEPT ![call] = how]
  /\ UNCHANGED <<nt, call, tool, phase, child, touched, result, untaken, stops>>

HelperEnds ==
  /\ \E c \in Calls :
       /\ Alive(c)
       /\ helper' = [helper EXCEPT ![c] = IF @ = "detached" THEN "left" ELSE "dead"]
  /\ UNCHANGED <<nt, call, tool, phase, child, touched, result, untaken, stops>>

\* Files change under a call by what an earlier one has left.
StrayEdit ==
  /\ \E c \in 1..(call - 1) : (child[c] = "alive" \/ Alive(c)) /\ touched' = touched \cup {c}
  /\ UNCHANGED <<nt, call, tool, phase, child, helper, result, untaken, stops>>

-----------------------------------------------------------------------------
(* The call.                                                               *)

Finish(outcome) ==
  /\ phase' = "idle"
  /\ result' = [result EXCEPT ![call] = [outcome |-> outcome, files |-> touched]]
  /\ UNCHANGED <<nt, call, tool, child, helper, touched, untaken, stops>>

Spawn ==
  /\ phase = "idle" /\ call < MaxCalls
  /\ call' = call + 1 /\ touched' = {}
  /\ tool' \in {"process", "shell"}
  /\ \/ phase' = "communicate" /\ child' = [child EXCEPT ![call + 1] = "alive"] /\ UNCHANGED result
     \/ phase' = "idle" /\ result' = [result EXCEPT ![call + 1].outcome = "raised"] /\ UNCHANGED child
  /\ UNCHANGED <<nt, helper, untaken, stops>>

\* Mutant: a child that succeeds is enough, its output need not be at the end.
ChildSucceeds ==
  /\ phase = "communicate" /\ (AtEof \/ child[call] = "ok")
  /\ Finish(IF child[call] = "ok" THEN "ok" ELSE "failed")

\* communicate() comes back: the output is at its end and the child is dead.
Communicated ==
  /\ phase = "communicate" /\ AtEof
  /\ Finish(IF child[call] = "ok" THEN "ok" ELSE "failed")

\* Mutant: the child is killed before its tree is looked for.
TimesOutToKill ==
  /\ phase = "communicate"
  /\ phase' = "kill"
  /\ UNCHANGED <<nt, call, tool, child, helper, touched, result, untaken, stops>>

\* The time is up while the child runs, or while something holds its pipes.
TimesOut ==
  /\ phase = "communicate"
  /\ phase' = IF nt /\ tool = "process" THEN "taskkill" ELSE "kill"
  /\ UNCHANGED <<nt, call, tool, child, helper, touched, result, untaken, stops>>

Slain == [child EXCEPT ![call] = IF @ = "alive" THEN "killed" ELSE @]

\* taskkill /T walks the tree from the child's pid, if there is still one.
TaskKill ==
  /\ phase = "taskkill"
  /\ phase' = "kill"
  /\ IF child[call] = "alive"
     THEN /\ child' = [child EXCEPT ![call] = "killed"]
          /\ helper' = IF helper[call] = "attached" THEN [helper EXCEPT ![call] = "dead"] ELSE helper
     ELSE UNCHANGED <<child, helper>>
  /\ UNCHANGED <<nt, call, tool, touched, result, untaken, stops>>

\* Its exit code is not looked at and its OSError is swallowed: it may take
\* the child and leave what the child has started, or take nothing.
TaskKillFails ==
  /\ phase = "taskkill"
  /\ phase' = "kill"
  /\ untaken' = untaken \cup {call}
  /\ child' \in {child, Slain}
  /\ UNCHANGED <<nt, call, tool, helper, touched, result, stops>>

\* proc.kill() of a child that may be dead already.
Kill ==
  /\ phase = "kill"
  /\ phase' = "drain"
  /\ child' = Slain
  /\ UNCHANGED <<nt, call, tool, helper, touched, result, untaken, stops>>

\* process.py reads the rest for five seconds at most.  subprocess.run(),
\* which shell.run uses, reads on to the end on Windows, and not at all
\* elsewhere.
Drained ==
  /\ phase = "drain" /\ AtEof
  /\ Finish("timed_out")

\* Mutant: process.py reads the rest without a timeout.
GiveUpElsewhere ==
  /\ phase = "drain" /\ ~AtEof
  /\ ~nt
  /\ Finish("timed_out")

GiveUp ==
  /\ phase = "drain" /\ ~AtEof
  /\ tool = "process" \/ ~nt
  /\ Finish("timed_out")

\* Ctrl-C in process.py leaves the child; subprocess.run() kills it.
CutShort ==
  /\ phase \in {"communicate", "taskkill", "drain"} /\ stops < MaxStops
  /\ stops' = stops + 1 /\ phase' = "cut"
  /\ child' = IF tool = "shell" THEN Slain ELSE child
  /\ UNCHANGED <<nt, call, tool, helper, touched, result, untaken>>

\* The run is resumed, by another process.
Resumed ==
  /\ phase = "cut" /\ phase' = "idle"
  /\ UNCHANGED <<nt, call, tool, child, helper, touched, result, untaken, stops>>

Processes == ChildEnds \/ ChildStartsHelper \/ HelperEnds \/ StrayEdit
Caller == Communicated \/ TimesOut \/ TaskKill \/ Kill \/ Drained \/ GiveUp
ProcessNext == Processes \/ Spawn \/ Caller \/ TaskKillFails \/ CutShort \/ Resumed
ProcessSpec == ProcessInit /\ [][ProcessNext]_processVars /\ WF_processVars(Caller)

-----------------------------------------------------------------------------

\* A call succeeds only after its child, and whoever held the pipes, is gone
\* (process.py:150-177).  So the processes of a successful call change nothing
\* under a later one, but for a helper that had cut itself off; those of a
\* call that timed out or was cut short may.
EditsAreOwn ==
  \A c \in Calls :
    result[c].outcome = "ok" =>
      /\ child[c] = "ok" /\ helper[c] # "attached"
      /\ \A d \in (c + 1)..MaxCalls :
           c \in result[d].files => helper[c] \in {"detached", "left"}

\* A helper outlives the return of its call only off Windows, or after its
\* child had ended before the timeout, or cut off from its child, or where
\* taskkill itself has failed: it comes while the child still holds the tree
\* together (process.py:232), but nobody asks what has become of it (236-243).
TreeIsKilled ==
  \A c \in Calls :
    result[c].outcome \notin {"none", "raised"} =>
      /\ child[c] # "alive"
      /\ helper[c] = "attached" =>
           /\ result[c].outcome = "timed_out"
           /\ nt => child[c] \in {"ok", "failed"} \/ c \in untaken

\* A call comes back, whatever its processes do: the timeout kills, and the
\* wait for the rest of the output is bounded.  The exception is shell.run on
\* Windows, which waits for a helper that holds the pipe (tools.py:326).
CallComesBack ==
  phase = "communicate" ~>
    \/ phase \in {"idle", "cut"}
    \/ phase = "drain" /\ nt /\ tool = "shell" /\ helper[call] = "attached"

=============================================================================
