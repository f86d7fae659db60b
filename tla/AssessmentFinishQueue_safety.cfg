CONSTANTS
  Clients = {c1}
  Workers = {w1, w2}
  Requests = {c1, w1, w2}
  Questions = {q1}
  Scores = {1, 2}
  NoAnswer = NoAnswer
  NoResult = NoResult
  NoWorker = NoWorker
  MaxAborts = 3
  MaxTries = 2
  MaxStalls = 1
  MaxEnqueueAborts = 1
SPECIFICATION QueueSpec
SYMMETRY MCSymmetry
INVARIANTS
  QueueTypeOK
  CompletedJobHasResult
PROPERTY
  QueueKeepsReport
