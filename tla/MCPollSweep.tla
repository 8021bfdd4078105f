---------------------------- MODULE MCPollSweep ----------------------------
(* PollSweep with one or two pollers on a folder or a Jira query.          *)
EXTENDS PollSweep, TLC
CONSTANTS p1, p2
MCPollers == {p1, p2}

Together ==
  [pollers |-> {p1, p2}, source |-> "file", jqlMine |-> FALSE, hasAccount |-> TRUE,
   canTransition |-> TRUE, once |-> FALSE, crashes |-> TRUE, raises |-> TRUE, fails |-> FALSE]
Alone ==
  [pollers : {{p1}}, source : {"jira"}, jqlMine : BOOLEAN, hasAccount : BOOLEAN,
   canTransition : BOOLEAN, once : BOOLEAN, crashes : {FALSE}, raises : {TRUE}, fails : BOOLEAN]
MCSettings ==
  {Together, [Together EXCEPT !.pollers = {p1}, !.fails = TRUE],
   [Together EXCEPT !.source = "jira", !.jqlMine = TRUE, !.crashes = FALSE]} \cup Alone
=============================================================================
