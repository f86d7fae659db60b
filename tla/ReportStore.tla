------------------------------ MODULE ReportStore ------------------------------
(***************************************************************************)
(* What the assessment back end promises about one session's report: it is *)
(* written only by the step that completes the session, only while the     *)
(* session is not completed, and only from a full set of answers.  A       *)
(* session may be reopened (a late save or abandon does that in the code), *)
(* which leaves the report in place.                                       *)
(***************************************************************************)
CONSTANTS
  Reports,    \* reports that may be stored
  NoReport

VARIABLES
  closed,     \* the session is completed
  report      \* the stored report, or NoReport

storeVars == <<closed, report>>

StoreInit ==
  /\ closed = FALSE
  /\ report = NoReport

Complete ==
  /\ ~closed
  /\ closed' = TRUE
  /\ report' \in Reports

Reopen ==
  /\ closed
  /\ closed' = FALSE
  /\ UNCHANGED report

StoreNext == Complete \/ Reopen

StoreSpec == StoreInit /\ [][StoreNext]_storeVars
=============================================================================
