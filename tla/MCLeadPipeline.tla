---------------------------- MODULE MCLeadPipeline ----------------------------
(* Instances of LeadPipeline for TLC. *)
EXTENDS LeadPipeline, TLC

\* Sessions are only compared with each other.
MCSymmetry == Permutations(Sessions)
=============================================================================
