CONSTANTS
  Sessions = {s1, s2}
  NoSession = NoSession
  MaxTasks = 2
  MaxLeads = 2
  PauseSettings = {TRUE, FALSE}
  StartSettings = {TRUE, FALSE}
SPECIFICATION PipelineSpec
SYMMETRY MCSymmetry
INVARIANT
  PipelineTypeOK
PROPERTIES
  NoLateDuplicate
  
  CompletedIsReported
