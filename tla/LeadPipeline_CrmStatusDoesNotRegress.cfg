CONSTANTS
  Sessions = {s1, s2}
  NoSession = NoSession
  MaxTasks = 2
  MaxLeads = 2
  PauseSettings = {FALSE}
  StartSettings = {TRUE}
SPECIFICATION PipelineSpec
PROPERTY
  CrmStatusDoesNotRegress
