-------------------------- MODULE MCResumeOverlap --------------------------
(* Two processes resume one run. *)
EXTENDS ResumeOverlap
=============================================================================
