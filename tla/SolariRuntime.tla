--------------------------- MODULE SolariRuntime ---------------------------
(***************************************************************************)
(* adapters/runtimes/solari.py: a runtime in a cloud VM.                   *)
(*                                                                         *)
(* The main thread hands coroutines to an event loop on a thread of its    *)
(* own and waits for each; Ctrl-C ends the waiting and not the coroutine.  *)
(* work is the coroutine of start(), exec() or screenshot(), teardown the  *)
(* one of stop(); each await is a step, and every call to the service may  *)
(* fail.  lost says by which way a VM escaped stop().                      *)
(***************************************************************************)
EXTENDS Integers, FiniteSets

CONSTANTS
  MaxVMs,          \* bound: the machines the service creates, one a start
  ReadyTimeout,    \* ready_timeout_s
  MaxFaults,       \* bound: failures of the service
  MaxInterrupts    \* bound: Ctrl-C

ASSUME RuntimeAssumption ==
  MaxVMs \in Nat /\ ReadyTimeout \in Nat /\ MaxFaults \in Nat /\ MaxInterrupts \in Nat

VM == 1..MaxVMs
None == 0

VARIABLES
  mode,         \* sandbox, desktop or browser
  main,         \* where the main thread is
  work,         \* [at, vm, polls]: the coroutine it started last
  teardown,     \* the place of the coroutine of stop()
  loop,         \* the event loop runs
  started, client, session, page, codeCtx,    \* the fields of the object
  fate,         \* of each VM: unborn, alive or dead
  lost,         \* of each VM: no, or why nobody tears it down
  faults, interrupts
handles == <<client, session, page, codeCtx>>
vms == <<fate, lost>>
bounds == <<faults, interrupts>>
runtimeVars == <<mode, main, work, teardown, loop, started, handles, vms, bounds>>

NoWork == [at |-> "none", vm |-> None, polls |-> 0]
Awaits == {"begin", "enter", "create", "connect", "health", "launch",
           "context", "run", "page", "shot"}
Coroutine == [at : Awaits \cup {"none", "done", "failed"}, vm : VM \cup {None}, polls : 0..ReadyTimeout]

RuntimeTypeOK ==
  /\ mode \in {"sandbox", "desktop", "browser"}
  /\ main \in {"down", "starting", "up", "calling", "stop", "stopping", "clear", "close", "gone"}
  /\ work \in Coroutine
  /\ teardown \in {"none", "begin", "kill", "close", "destroy", "exit", "done"}
  /\ loop \in BOOLEAN /\ started \in BOOLEAN /\ client \in BOOLEAN
  /\ session \in VM \cup {None} /\ page \in VM \cup {None} /\ codeCtx \in VM \cup {None}
  /\ fate \in [VM -> {"unborn", "alive", "dead"}]
  /\ lost \in [VM -> {"no", "connect", "teardown", "ctrl_c"}]
  /\ faults \in 0..MaxFaults /\ interrupts \in 0..MaxInterrupts

\* The object as __init__ leaves it.
Fresh ==
  /\ work = NoWork /\ teardown = "none"
  /\ loop = FALSE /\ started = FALSE /\ client = FALSE
  /\ session = None /\ page = None /\ codeCtx = None

RuntimeInit ==
  /\ mode \in {"sandbox", "desktop", "browser"}
  /\ main = "down" /\ Fresh
  /\ fate = [v \in VM |-> "unborn"] /\ lost = [v \in VM |-> "no"]
  /\ faults = 0 /\ interrupts = 0

Fails == faults < MaxFaults /\ faults' = faults + 1
Lose(v, why) == lost' = IF v \in VM THEN [lost EXCEPT ![v] = why] ELSE lost

-----------------------------------------------------------------------------
(* start(), on the main thread and then on the loop.                       *)

Start ==
  /\ main = "down" /\ \E v \in VM : fate[v] = "unborn"
  /\ main' = "starting" /\ loop' = TRUE
  /\ work' = [NoWork EXCEPT !.at = "begin"]
  /\ UNCHANGED <<mode, teardown, started, handles, vms, bounds>>

\* The SDK or the API key is missing: there is no loop yet.
StartRaises ==
  /\ main = "down" /\ Fails
  /\ main' = "stop"
  /\ UNCHANGED <<mode, work, teardown, loop, started, handles, fate, lost, interrupts>>

Running(at) == loop /\ main # "gone" /\ work.at = at
Begin ==
  /\ Running("begin")
  /\ client' = (mode = "browser")
  /\ work' = [work EXCEPT !.at = IF mode = "browser" THEN "launch" ELSE "enter"]
  /\ UNCHANGED <<mode, main, teardown, loop, started, session, page, codeCtx, vms, bounds>>

Enter ==
  /\ Running("enter")
  /\ client' = TRUE
  /\ work' = [work EXCEPT !.at = "create"]
  /\ UNCHANGED <<mode, main, teardown, loop, started, session, page, codeCtx, vms, bounds>>

\* A VM that comes when nobody waits for start() any more may find no stop().
Born(v) ==
  /\ fate[v] = "unborn" /\ \A w \in 1..(v - 1) : fate[w] # "unborn"
  /\ fate' = [fate EXCEPT ![v] = "alive"]
  /\ IF main = "starting" THEN lost' = lost ELSE Lose(v, "ctrl_c")
Create ==
  /\ Running("create")
  /\ \E v \in VM : Born(v) /\ work' = [work EXCEPT !.at = "connect", !.vm = v]
  /\ UNCHANGED <<mode, main, teardown, loop, started, handles, bounds>>

Connect ==
  /\ Running("connect")
  /\ session' = work.vm
  /\ work' = [work EXCEPT !.at = IF mode = "desktop" THEN "health" ELSE "done"]
  /\ UNCHANGED <<mode, main, teardown, loop, started, client, page, codeCtx, vms, bounds>>

Launch ==
  /\ Running("launch")
  /\ \E v \in VM : Born(v) /\ session' = v
  /\ work' = [work EXCEPT !.at = "done"]
  /\ UNCHANGED <<mode, main, teardown, loop, started, client, page, codeCtx, bounds>>

Health ==
  /\ Running("health")
  /\ \/ work.polls < ReadyTimeout /\ work' = [work EXCEPT !.at = "done"]
     \/ work.polls < ReadyTimeout /\ work' = [work EXCEPT !.polls = @ + 1]
     \/ work.polls = ReadyTimeout /\ work' = [work EXCEPT !.at = "failed"]
  /\ UNCHANGED <<mode, main, teardown, loop, started, handles, vms, bounds>>

\* The session is set after connect(), so a VM whose connect() fails is in
\* no field.
CallFails ==
  /\ \E at \in Awaits \ {"begin"} : Running(at)
  /\ Fails
  /\ work' = [work EXCEPT !.at = "failed"]
  /\ IF work.at = "connect" THEN Lose(work.vm, "connect") ELSE lost' = lost
  /\ UNCHANGED <<mode, main, teardown, loop, started, handles, fate, interrupts>>

StartReturns ==
  /\ main = "starting" /\ work.at \in {"done", "failed"}
  /\ started' = (work.at = "done")
  /\ main' = IF work.at = "done" THEN "up" ELSE "stop"
  /\ work' = NoWork
  /\ UNCHANGED <<mode, teardown, loop, handles, vms, bounds>>

-----------------------------------------------------------------------------
(* exec() and screenshot() of a started runtime.                           *)

Call(at) ==
  /\ main = "up"
  /\ main' = "calling"
  /\ work' = [NoWork EXCEPT !.at = at, !.vm = session]
  /\ UNCHANGED <<mode, teardown, loop, started, handles, vms, bounds>>

\* The SDK runs commands itself, or a code context has to be made once.
Exec ==
  /\ mode = "sandbox"
  /\ \/ Call("run")
     \/ codeCtx = None /\ Call("context")

Screenshot ==
  \/ mode = "desktop" /\ Call("shot")
  \/ mode = "browser" /\ Call(IF page = None THEN "page" ELSE "shot")

Context ==
  /\ Running("context")
  /\ codeCtx' = work.vm
  /\ work' = [work EXCEPT !.at = "run"]
  /\ UNCHANGED <<mode, main, teardown, loop, started, client, session, page, vms, bounds>>

NewPage ==
  /\ Running("page")
  /\ page' = work.vm
  /\ work' = [work EXCEPT !.at = "shot"]
  /\ UNCHANGED <<mode, main, teardown, loop, started, client, session, codeCtx, vms, bounds>>

Answer ==
  /\ Running("run") \/ Running("shot")
  /\ work' = [work EXCEPT !.at = "done"]
  /\ UNCHANGED <<mode, main, teardown, loop, started, handles, vms, bounds>>

\* A failed exec() is a failed tool call; a failed screenshot() of the run
\* loop is an exception, on which the run stops the runtime.
CallReturns ==
  /\ main = "calling" /\ work.at \in {"done", "failed"}
  /\ main' \in IF work.at = "failed" /\ mode # "sandbox" THEN {"stop"} ELSE {"up"}
  /\ work' = NoWork
  /\ UNCHANGED <<mode, teardown, loop, started, handles, vms, bounds>>

-----------------------------------------------------------------------------
(* stop(), which always comes: it is in the finally of the run.            *)

RunEnds ==
  /\ main = "up" /\ main' = "stop"
  /\ UNCHANGED <<mode, work, teardown, loop, started, handles, vms, bounds>>

Stop ==
  /\ main = "stop"
  /\ IF loop /\ (session # None \/ client)
     THEN main' = "stopping" /\ teardown' = "begin"
     ELSE main' = "clear" /\ UNCHANGED teardown
  /\ UNCHANGED <<mode, work, loop, started, handles, vms, bounds>>

Tearing(at) == loop /\ main # "gone" /\ teardown = at
TeardownBegins ==
  /\ Tearing("begin")
  /\ teardown' = CASE session = None -> IF mode = "browser" THEN "done" ELSE "exit"
                   [] session # None -> IF mode = "sandbox" THEN "kill" ELSE "close"
  /\ UNCHANGED <<mode, main, work, loop, started, handles, vms, bounds>>

\* kill() of a sandbox, client.destroy() of a desktop, close() of a browser.
Ends == \/ Tearing("kill") \/ Tearing("destroy")
        \/ Tearing("close") /\ mode = "browser"
AfterEnd == IF mode = "browser" THEN "done" ELSE "exit"
Destroy ==
  /\ Ends
  /\ fate' = [fate EXCEPT ![session] = "dead"]
  /\ teardown' = AfterEnd
  /\ UNCHANGED <<mode, main, work, loop, started, handles, lost, bounds>>

DestroyFails ==
  /\ Ends /\ Fails
  /\ Lose(session, "teardown")
  /\ teardown' = AfterEnd
  /\ UNCHANGED <<mode, main, work, loop, started, handles, fate, interrupts>>

\* Mutant: when close() fails the machine is not destroyed any more.
CloseSessionRaises ==
  /\ Tearing("close") /\ mode = "desktop"
  /\ \/ teardown' = "destroy" /\ UNCHANGED faults
     \/ teardown' = "exit" /\ Fails
  /\ UNCHANGED <<mode, main, work, loop, started, handles, fate, lost, interrupts>>

\* close() of a desktop only closes the connection, and may fail.
CloseSession ==
  /\ Tearing("close") /\ mode = "desktop"
  /\ teardown' = "destroy"
  /\ Fails \/ UNCHANGED faults
  /\ UNCHANGED <<mode, main, work, loop, started, handles, fate, lost, interrupts>>

ExitClient ==
  /\ Tearing("exit")
  /\ teardown' = "done"
  /\ Fails \/ UNCHANGED faults
  /\ UNCHANGED <<mode, main, work, loop, started, handles, fate, lost, interrupts>>

StopReturns ==
  /\ main = "stopping" /\ teardown = "done"
  /\ main' = "clear" /\ teardown' = "none"
  /\ UNCHANGED <<mode, work, loop, started, handles, vms, bounds>>

\* Mutant: the page and the code context of a stopped machine are kept.
ClearSession ==
  /\ main = "clear"
  /\ session' = None /\ client' = FALSE
  /\ main' = "close"
  /\ UNCHANGED <<mode, work, teardown, loop, started, page, codeCtx, vms, bounds>>

Clear ==
  /\ main = "clear"
  /\ session' = None /\ client' = FALSE /\ page' = None /\ codeCtx' = None
  /\ main' = "close"
  /\ UNCHANGED <<mode, work, teardown, loop, started, vms, bounds>>

\* What is left on the loop when it is closed never runs again.  After a
\* Ctrl-C the exception goes on, out of the program.
Close ==
  /\ main = "close"
  /\ loop' = FALSE /\ work' = NoWork /\ started' = FALSE
  /\ main' = IF interrupts = 0 THEN "down" ELSE "gone"
  /\ UNCHANGED <<mode, teardown, handles, vms, bounds>>

Interrupt ==
  /\ interrupts < MaxInterrupts /\ interrupts' = interrupts + 1
  /\ CASE main \in {"starting", "up", "calling"} ->
            /\ main' = "stop"
            /\ IF work.at = "connect" THEN Lose(work.vm, "ctrl_c") ELSE lost' = lost
       [] main \in {"stop", "stopping"} -> main' = "gone" /\ Lose(session, "ctrl_c")
       [] main \in {"clear", "close"} -> main' = "gone" /\ lost' = lost
       [] OTHER -> FALSE
  /\ UNCHANGED <<mode, work, teardown, loop, started, handles, fate, faults>>

\* The user starts the program again.
Relaunch ==
  /\ main = "gone"
  /\ main' = "down" /\ interrupts' = 0
  /\ work' = NoWork /\ teardown' = "none"
  /\ loop' = FALSE /\ started' = FALSE /\ client' = FALSE
  /\ session' = None /\ page' = None /\ codeCtx' = None
  /\ UNCHANGED <<mode, fate, lost, faults>>

OnLoop ==
  \/ Begin \/ Enter \/ Create \/ Connect \/ Launch \/ Health \/ CallFails
  \/ Context \/ NewPage \/ Answer
  \/ TeardownBegins \/ Destroy \/ DestroyFails \/ CloseSession \/ ExitClient
OnMain ==
  \/ StartReturns \/ CallReturns \/ Stop \/ StopReturns \/ Clear \/ Close
RuntimeNext ==
  \/ Start \/ StartRaises \/ Exec \/ Screenshot \/ RunEnds
  \/ OnLoop \/ OnMain \/ Interrupt \/ Relaunch
RuntimeSpec ==
  /\ RuntimeInit /\ [][RuntimeNext]_runtimeVars
  /\ WF_runtimeVars(OnLoop) /\ WF_runtimeVars(OnMain)

-----------------------------------------------------------------------------

\* A VM outlives stop() in three ways only: its connect() failed, the call
\* that destroys it failed, or Ctrl-C cut start() or stop() short
\* (solari.py:257-284: teardown is always attempted).
TornDown ==
  main \in {"down", "gone"} =>
    \A v \in VM : fate[v] = "alive" => lost[v] # "no"

\* A runtime in use is connected to a living VM, and no page or code context
\* of an earlier VM is used with it; a stopped one holds nothing.
HandlesAreCurrent ==
  /\ main \in {"up", "calling"} =>
       /\ started /\ loop /\ session # None /\ fate[session] = "alive"
       /\ page \in {None, session} /\ codeCtx \in {None, session}
  /\ main = "down" => Fresh

=============================================================================
