CONSTANTS
  Sessions = {s1}
  NoSession = NoSession
  Hooks = {h1}
  Workers = {w1}
  NoWorker = NoWorker
  NoMessage = NoMessage
  StepDelays <- MCStepDelays
  Reminders = {1}
  Events = {"viewed", "submitted", "follow_up"}
  Initially <- MCReportReady
  SystemLeads = FALSE
  MaxUnanswered = 1
  MaxTries = 2
  MaxStalls = 1
  CronBatch = 2
  MaxTime = 2
  Quiet = {1}
  MaxCalls = 1
  MaxFaults = 0
SPECIFICATION FairSmsSpec
CHECK_DEADLOCK FALSE
PROPERTY
  PendingIsSettled
