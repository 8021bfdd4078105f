---------------------------- MODULE MCReporting ----------------------------
(* Reporting for TLC: every primary sink with none, one or both others.    *)
EXTENDS Reporting

Also(primary) ==
  {<<>>} \cup {<<s>> : s \in Sink \ {primary}}
         \cup {p \in (Sink \ {primary}) \X (Sink \ {primary}) : p[1] # p[2]}

MCSettings ==
  UNION {[primary : {p}, also : Also(p), here : BOOLEAN, forge : BOOLEAN, jira : {TRUE},
          unassign : {FALSE}, onBlock : {FALSE}] : p \in Sink}
  \cup [primary : {"jira"}, also : {<<"file">>}, here : {TRUE}, forge : {TRUE}, jira : BOOLEAN,
        unassign : BOOLEAN, onBlock : BOOLEAN]
=============================================================================
