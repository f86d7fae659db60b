----------------------------- MODULE MCSmsFunnel -----------------------------
(* Instances of SmsFunnel for TLC. *)
EXTENDS SmsFunnel, TLC

\* A nurture message, and the reminder of a call.
MCStepDelays == [nurture |-> <<1>>, call_scheduled |-> <<0>>]

\* The confirmation of a call and its reminder.
MCCallDelays == [call_scheduled |-> <<0, 1>>]

\* The report is ready and nobody has looked at it.
MCReportReady == {"started", "in_progress", "completed"}

MCSymmetry == Permutations(Hooks) \cup Permutations(Workers)
=============================================================================
