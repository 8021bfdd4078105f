---------------------------- MODULE MCWhenFacts ----------------------------
(* WhenFacts for TLC: standard.yaml up to its last step, a pipeline with   *)
(* two planners and a tester that does not commit, and one whose intake is *)
(* repeated while the ticket is unclear.                                   *)
EXTENDS WhenFacts

S(role, commit, when) == [role |-> role, commit |-> commit, when |-> when]
Standard ==
  <<S("ingest", FALSE, ""), S("clarifier", FALSE, "unclear"), S("planner", FALSE, ""),
    S("coder", TRUE, ""), S("reviewer", TRUE, ""), S("security", TRUE, "security")>>
Researched ==
  <<S("planner", FALSE, ""), S("planner", FALSE, ""), S("coder", FALSE, ""),
    S("reviewer", FALSE, ""), S("security", FALSE, "security")>>

Again ==
  <<S("ingest", FALSE, ""), S("ingest", FALSE, "unclear"), S("clarifier", FALSE, "unclear")>>

MCSettings ==
  [steps : {Standard}, external : BOOLEAN, base : BOOLEAN, huge : {FALSE}]
  \cup [steps : {Researched}, external : {FALSE}, base : BOOLEAN, huge : BOOLEAN]
  \cup [steps : {Again}, external : BOOLEAN, base : {TRUE}, huge : {FALSE}]
=============================================================================
