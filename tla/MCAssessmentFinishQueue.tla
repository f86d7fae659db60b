---------------------- MODULE MCAssessmentFinishQueue ----------------------
(* Instances of AssessmentFinishQueue for TLC. *)
EXTENDS AssessmentFinishQueue, TLC

MCSymmetry == Permutations(Clients) \cup Permutations(Workers)
=============================================================================
