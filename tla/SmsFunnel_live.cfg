CONSTANTS
  Sessions = {s1}
  NoSession = NoSession
  Hooks = {h1}
  Workers = {w1}
  NoWorker = NoWorker
  NoMessage = NoMessage
  StepDelays <- MCCallDelays
  Reminders = {2}
  Events = {"submitted", "follow_up"}
  Initially <- MCReportReady
  SystemLeads = FALSE
  MaxUnanswered = 1
  MaxTries = 1
  MaxStalls = 1
  CronBatch = 1
  MaxTime = 1
  Quiet = {}
  MaxCalls = 2
  MaxFaults = 2
SPECIFICATION FairSmsSpec
CHECK_DEADLOCK FALSE
PROPERTY
  DueIsSettled
