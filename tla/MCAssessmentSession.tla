------------------------ MODULE MCAssessmentSession ------------------------
(* Instances of AssessmentSession for TLC. *)
EXTENDS AssessmentSession, TLC

\* Requests run the same code and questions are only counted.
MCSymmetry == Permutations(Requests) \cup Permutations(Questions)
=============================================================================
