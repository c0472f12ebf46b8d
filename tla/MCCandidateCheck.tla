-------------------------- MODULE MCCandidateCheck --------------------------
(* Small instances of CandidateCheck for TLC. *)
EXTENDS CandidateCheck
=============================================================================
