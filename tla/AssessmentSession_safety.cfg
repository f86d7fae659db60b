CONSTANTS
  Requests = {r1, r2, r3}
  Questions = {q1, q2}
  Scores = {1, 2}
  NoAnswer = NoAnswer
  NoResult = NoResult
  MaxAborts = 1
SPECIFICATION SessionSpec
SYMMETRY MCSymmetry
INVARIANTS
  SessionTypeOK
  ResultIsComplete
  CompletedReplyHasResult
PROPERTY
  SessionKeepsReport
