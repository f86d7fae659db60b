CONSTANTS
  Requests = {r1, r2, r3}
  Questions = {q1}
  Scores = {1, 2}
  NoAnswer = NoAnswer
  NoResult = NoResult
  MaxAborts = 0
SPECIFICATION SessionSpec
PROPERTY
  StoredResultIsFinal
