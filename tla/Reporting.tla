----------------------------- MODULE Reporting -----------------------------
(***************************************************************************)
(* How a run speaks to the outside: questions of its steps, and, at its    *)
(* end, the branch, the pull request and the report.                       *)
(*                                                                         *)
(* adapters/sinks/ (the primary sink, the `also:` list behind MultiSink,   *)
(* DryRunSink), the forge (adapters/repos/github.py) and the callers in    *)
(* engine/orchestrator.py (_handle_question, _after_reporter).  A call of  *)
(* one sink is a step; a call that fails may have had its effect.          *)
(***************************************************************************)
EXTENDS Naturals, Sequences

CONSTANTS
  Settings,      \* the configurations a run may have, see Setting
  MaxAsks,       \* bound: questions that block the run
  MaxAttempts,   \* bound: executions of the reporter
  MaxFaults      \* bound: calls that fail, Ctrl-C and crashes

Sink == {"file", "jira", "github_pr"}
Setting ==
  [primary  : Sink,
   also     : Seq(Sink),
   here     : BOOLEAN,            \* the file sink has no dir: it writes into the run directory
   forge    : BOOLEAN,            \* the repo is github, not git_local
   jira     : BOOLEAN,            \* the ticket comes from Jira
   unassign : BOOLEAN,            \* on_unclear: comment_and_unassign
   onBlock  : BOOLEAN]            \* the step has an on_block: state

ASSUME ReportingConstants ==
  /\ \A s \in Settings : s \in Setting /\ \A i \in DOMAIN s.also : s.also[i] # s.primary
  /\ MaxAsks \in Nat /\ MaxAttempts \in Nat /\ MaxFaults \in Nat

\* What is written somewhere: the questions and reports it strings together,
\* and whether the URL of the pull request is in it.
Text == [parts : Seq({"question", "report"} \X Nat), url : BOOLEAN]
Question(n) == [parts |-> << <<"question", n>> >>, url |-> FALSE]
Report(n) == [parts |-> << <<"report", n>> >>, url |-> FALSE]
Empty == [parts |-> <<>>, url |-> FALSE]

Method == {"comment", "unassign", "on_block", "link", "in_review"}

VARIABLES
  setting,
  dry,       \* --dry-run, which resume does not have
  pc,        \* "new", "work", "push", "open_pr", "calls", "record", "raise";
             \* no process: "off", "blocked", "done"; "gone": not even a run
  phase,     \* whose calls: "ask" or "report"
  todo,      \* the methods of the sink still to be called
  queue,     \* the sinks the first of them still has to be called on
  text,      \* the comment of these calls
  told,      \* the github_pr sink has the URL
  file,      \* ticket_comment.md in the run directory
  asks, attempt,
  failed,    \* sinks that failed since the reporter was executed
  posted,    \* [call, text] that took effect, of each sink
  claimed,   \* the Jira issue was assigned and moved by claim()
  pushed, pr,  \* at the forge: the branch, the open pull request
  faults

outside == <<posted, claimed, pushed, pr>>
calls == <<phase, todo, queue, text>>
bounds == <<asks, attempt, faults>>
vars == <<setting, dry, pc, calls, told, file, failed, outside, bounds>>

\* Mutant: the others are called before the primary sink.
SinksLast == setting.also \o <<setting.primary>>

Sinks == <<setting.primary>> \o setting.also
Has(s) == \E i \in DOMAIN Sinks : Sinks[i] = s

ReportingTypeOK ==
  /\ setting \in Settings /\ dry \in BOOLEAN /\ phase \in {"ask", "report"}
  /\ pc \in {"new", "work", "push", "open_pr", "calls", "record", "raise",
             "off", "blocked", "done", "gone"}
  /\ todo \in Seq(Method) /\ queue \in Seq(Sink)
  /\ text \in Text /\ file \in Text
  /\ told \in BOOLEAN
  /\ asks \in 0..MaxAsks /\ attempt \in 0..MaxAttempts /\ faults \in 0..MaxFaults
  /\ failed \subseteq Sink /\ posted \in [Sink -> SUBSET [call : Method, text : Text]]
  /\ claimed \in BOOLEAN /\ pushed \in BOOLEAN /\ pr \in BOOLEAN

Init ==
  /\ setting \in Settings /\ dry \in BOOLEAN
  /\ pc = "new" /\ phase = "ask" /\ todo = <<>> /\ queue = <<>> /\ text = Empty
  /\ told = FALSE /\ file = Empty /\ failed = {}
  /\ posted = [s \in Sink |-> {}]
  /\ claimed = FALSE /\ pushed = FALSE /\ pr = FALSE
  /\ asks = 0 /\ attempt = 0 /\ faults = 0

Fails == faults < MaxFaults /\ faults' = faults + 1

-----------------------------------------------------------------------------
(* The run up to its report.                                               *)

\* The claim, then the checkout; if that raises, no run was saved.  --dry-run
\* stands in the way of neither.
Begin ==
  /\ pc = "new"
  /\ claimed' = setting.jira
  /\ \/ pc' = "work" /\ UNCHANGED faults
     \/ pc' = "gone" /\ Fails
  /\ UNCHANGED <<setting, dry, calls, told, file, failed, posted, pushed, pr, asks, attempt>>

\* The methods are called one after the other, each on all sinks; by
\* DryRunSink on none.
Call(what, methods, markdown) ==
  /\ phase' = what /\ text' = markdown
  /\ IF dry
     THEN todo' = <<>> /\ queue' = <<>> /\ pc' = (IF what = "ask" THEN "blocked" ELSE "record")
     ELSE todo' = methods /\ queue' = Sinks /\ pc' = "calls"

When(condition, method) == IF condition THEN <<method>> ELSE <<>>

\* Mutant: the ticket is given back before it is commented on.
UnassignFirst ==
  /\ pc = "work" /\ asks < MaxAsks
  /\ asks' = asks + 1
  /\ Call("ask", When(setting.unassign, "unassign") \o <<"comment">> \o When(setting.onBlock, "on_block"),
          Question(asks + 1))
  /\ UNCHANGED <<setting, dry, told, file, failed, outside, attempt, faults>>

\* A step raises a question, and on_unclear is to comment.
Ask ==
  /\ pc = "work" /\ asks < MaxAsks
  /\ asks' = asks + 1
  /\ Call("ask", <<"comment">> \o When(setting.unassign, "unassign") \o When(setting.onBlock, "on_block"),
          Question(asks + 1))
  /\ UNCHANGED <<setting, dry, told, file, failed, outside, attempt, faults>>

\* The reporter writes ticket_comment.md; if it does not, its answer is put
\* there, but only where no such file is left from before.
Reported(own) == {own, IF file = Empty THEN own ELSE file}
RunReporter ==
  /\ pc = "work" /\ attempt < MaxAttempts
  /\ attempt' = attempt + 1
  /\ file' \in Reported(Report(attempt + 1))
  /\ failed' = {} /\ pc' = "push"
  /\ UNCHANGED <<setting, dry, calls, told, outside, asks, faults>>

\* Mutant: the repo is not wrapped for a dry run.
PushAlways ==
  /\ pc = "push"
  /\ pushed' = (pushed \/ setting.forge)
  /\ pc' = "open_pr"
  /\ UNCHANGED <<setting, dry, calls, told, file, failed, posted, claimed, pr, bounds>>

Push ==
  /\ pc = "push"
  /\ pushed' = (pushed \/ (setting.forge /\ ~dry))
  /\ pc' = "open_pr"
  /\ UNCHANGED <<setting, dry, calls, told, file, failed, posted, claimed, pr, bounds>>

ReportCalls(url) == When(url, "link") \o <<"comment", "in_review">>

\* Mutant: only the primary sink learns the URL.
OpenPrTellsPrimary ==
  /\ pc = "open_pr"
  /\ LET url == setting.forge /\ ~dry IN
       /\ pr' = (pr \/ url)
       /\ told' = (url /\ setting.primary = "github_pr")
       /\ Call("report", ReportCalls(url), [file EXCEPT !.url = @ \/ url])
  /\ UNCHANGED <<setting, dry, file, failed, posted, claimed, pushed, bounds>>

\* A pull request that is already open is found again.  Its URL is handed to
\* the sinks and put into the comment.
OpenPr ==
  /\ pc = "open_pr"
  /\ LET url == setting.forge /\ ~dry IN
       /\ pr' = (pr \/ url)
       /\ told' = (url /\ Has("github_pr"))
       /\ Call("report", ReportCalls(url), [file EXCEPT !.url = @ \/ url])
  /\ UNCHANGED <<setting, dry, file, failed, posted, claimed, pushed, bounds>>

ForgeFails ==
  /\ setting.forge /\ ~dry /\ Fails
  /\ \/ pc = "push" /\ pushed' \in {pushed, TRUE} /\ UNCHANGED pr
     \/ pc = "open_pr" /\ pr' \in {pr, TRUE} /\ UNCHANGED pushed
  /\ pc' = "off"
  /\ UNCHANGED <<setting, dry, calls, told, file, failed, posted, claimed, asks, attempt>>

-----------------------------------------------------------------------------
(* MultiSink._fan_out.                                                     *)

\* The effect of a call: github_pr posts comments and links, on the pull
\* request it knows of; file appends comments to ticket_comment.md.
Effect(s, method) ==
  /\ posted' = IF s = "github_pr" /\ ~(told /\ method \in {"comment", "link"})
               THEN posted
               ELSE [posted EXCEPT ![s] = @ \cup {[call |-> method, text |-> text]}]
  /\ file' = IF s = "file" /\ setting.here /\ method = "comment"
             THEN [parts |-> file.parts \o text.parts, url |-> file.url \/ text.url]
             ELSE file
NoEffect == UNCHANGED <<posted, file>>

After == IF phase = "ask" THEN "blocked" ELSE "record"
NextCall ==
  IF Len(queue) > 1 THEN queue' = Tail(queue) /\ UNCHANGED <<todo, pc>>
  ELSE /\ todo' = Tail(todo)
       /\ queue' = IF Len(todo) > 1 THEN Sinks ELSE <<>>
       /\ pc' = IF Len(todo) > 1 THEN "calls" ELSE After

Deliver ==
  /\ pc = "calls"
  /\ Effect(Head(queue), Head(todo))
  /\ NextCall
  /\ UNCHANGED <<setting, dry, phase, text, told, failed, claimed, pushed, pr, bounds>>

SecondaryFails ==
  /\ pc = "calls" /\ Head(queue) # setting.primary /\ Fails
  /\ Effect(Head(queue), Head(todo)) \/ NoEffect
  /\ failed' = failed \cup {Head(queue)}
  /\ NextCall
  /\ UNCHANGED <<setting, dry, phase, text, told, claimed, pushed, pr, asks, attempt>>

\* The primary sink fails, or Ctrl-C: the exception goes through the callers,
\* of which the last part of _after_reporter has a finally.
Raise ==
  /\ pc = "calls" /\ Fails
  /\ \/ NoEffect
     \/ Head(queue) = setting.primary /\ Effect(Head(queue), Head(todo))
  /\ pc' = IF phase = "report" /\ Head(todo) # "link" THEN "raise" ELSE "off"
  /\ todo' = <<>> /\ queue' = <<>>
  /\ UNCHANGED <<setting, dry, phase, text, told, failed, claimed, pushed, pr, asks, attempt>>

\* ticket_comment.md is set to what was to be posted.
Record ==
  /\ pc \in {"record", "raise"}
  /\ file' = text
  /\ pc' = IF pc = "record" THEN "done" ELSE "off"
  /\ UNCHANGED <<setting, dry, calls, told, failed, outside, bounds>>

-----------------------------------------------------------------------------

Crash ==
  /\ pc \in {"work", "push", "open_pr", "calls", "record", "raise"} /\ Fails
  /\ pc' = "off" /\ todo' = <<>> /\ queue' = <<>>
  /\ UNCHANGED <<setting, dry, phase, text, told, file, failed, outside, asks, attempt>>

\* resume, in a new process with new sinks.
Resume ==
  /\ pc \in {"off", "blocked"}
  /\ pc' = "work" /\ told' = FALSE /\ dry' = FALSE
  /\ UNCHANGED <<setting, calls, file, failed, outside, bounds>>

Next ==
  \/ Begin \/ Ask \/ RunReporter \/ Push \/ OpenPr \/ ForgeFails
  \/ Deliver \/ SecondaryFails \/ Raise \/ Record \/ Crash \/ Resume

Spec == Init /\ [][Next]_vars

-----------------------------------------------------------------------------

Got(s, method, markdown) == [call |-> method, text |-> markdown] \in posted[s]

\* No other sink says what the primary sink has not been told
\* (sinks/base.py:43-49): all of it, or, where the primary is github_pr, which
\* has nowhere to put the rest, what is about the pull request.
PrimaryLeads ==
  \A i \in DOMAIN setting.also :
    \A e \in posted[setting.also[i]] :
      \/ e \in posted[setting.primary]
      \/ setting.primary = "github_pr" /\ (e.call \in {"comment", "link"} => ~e.text.url)

\* The ticket is never left in a state that its comments do not explain.  At no
\* moment, where a call raised and the run stopped in the middle of them neither,
\* is anybody unassigned or the ticket moved, to the state of a blocked step or
\* to review, on any sink, before the primary sink has the comment that says why
\* (a github_pr sink drops a question: this process has opened no pull request).
\* A run that waits for an answer has all of its calls on the primary sink; and
\* what speaks of the pull request comes after it was opened and linked, from a
\* branch that was pushed (orchestrator.py:1051-1064 and 1177-1202).
TicketIsTold ==
  /\ pc = "blocked" /\ ~dry /\ setting.primary # "github_pr" =>
       /\ Got(setting.primary, "comment", text)
       /\ setting.unassign => Got(setting.primary, "unassign", text)
       /\ setting.onBlock => Got(setting.primary, "on_block", text)
  /\ \A s \in Sink : \A e \in posted[s] :
       /\ e.call \in {"unassign", "on_block", "in_review"} /\ setting.primary # "github_pr" =>
            Got(setting.primary, "comment", e.text)
       /\ e.text.url =>
            /\ pr /\ pushed
            /\ s = setting.primary => \E f \in posted[s] : f.call = "link"

Reports(markdown) == \E i \in DOMAIN markdown.parts : markdown.parts[i][1] = "report"

\* The file sink has appended a question to ticket_comment.md of the run.
Asked == setting.here /\ Has("file") /\ asks > 0

\* A run that is over has reported.  There is a report in ticket_comment.md, of
\* the last execution of the reporter or of one before it; the exception is a
\* question that the file sink has put there, which passes for the reporter's
\* file where the reporter writes none (orchestrator.py:1174-1178).  The primary
\* sink was given this text as it stands, not what the file sink made of it, a
\* github_pr sink if there is a pull request; and so was the pull request,
\* wherever github_pr stands among the sinks, unless a call of that sink failed
\* (orchestrator.py:1184-1213, sinks/base.py:89).
ReportIsOut ==
  pc = "done" =>
    /\ Reports(file) \/ Asked
    /\ dry \/ setting.primary = "github_pr" \/ Got(setting.primary, "comment", file)
    /\ ~dry /\ setting.forge /\ Has("github_pr") =>
         "github_pr" \in failed \/ Got("github_pr", "comment", file)

\* A dry run pushes nothing, opens nothing and posts nothing, on any sink
\* (orchestrator.py:273-279, sinks/base.py:120-127).
DryRunPostsNothing == [][dry => UNCHANGED <<posted, pushed, pr>>]_vars
=============================================================================
