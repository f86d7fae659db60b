CONSTANTS
  Clients = {c1}
  Workers = {w1, w2}
  Requests = {c1, w1, w2}
  Questions = {q1}
  Scores = {1}
  NoAnswer = NoAnswer
  NoResult = NoResult
  NoWorker = NoWorker
  MaxAborts = 2
  MaxTries = 2
  MaxStalls = 1
  MaxEnqueueAborts = 0
SPECIFICATION FairQueueSpec
PROPERTIES
  QueuedIsSettled
  ResultIsAnnounced
