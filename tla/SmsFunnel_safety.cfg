CONSTANTS
  Sessions = {s1}
  NoSession = NoSession
  Hooks = {h1, h2}
  Workers = {w1, w2}
  NoWorker = NoWorker
  NoMessage = NoMessage
  StepDelays <- MCStepDelays
  Reminders = {1}
  Events = {"viewed", "submitted", "follow_up"}
  Initially <- MCReportReady
  SystemLeads = TRUE
  MaxUnanswered = 1
  MaxTries = 2
  MaxStalls = 1
  CronBatch = 1
  MaxTime = 2
  Quiet = {1}
  MaxCalls = 2
  MaxFaults = 1
SPECIFICATION SmsSpec
SYMMETRY MCSymmetry
CHECK_DEADLOCK FALSE
INVARIANTS
  SmsTypeOK
  OncePerFault
  SendIsWanted
