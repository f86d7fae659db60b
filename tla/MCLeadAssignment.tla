--------------------------- MODULE MCLeadAssignment ---------------------------
(* Instances of LeadAssignment for TLC. *)
EXTENDS LeadAssignment, TLC

\* Leads and calls are interchangeable; experts are not, one may be preferred.
MCSymmetry == Permutations(Leads) \cup Permutations(Tasks)
=============================================================================
