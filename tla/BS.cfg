CONSTANTS
  Val = {v0, v1}
  ClientPid = client
  BatchPid = batch
  Faults = {"piofail", "kill"}
  MaxRequest = 3
  MaxStart = 2
  CommandLines <- MCCommandLines
  OptParts = {0, 1}
  MaxLevel = 2
  Measures = {1, 2, 3}
  Bound = 2
  Bootstrap = 9
SPECIFICATION MCSpec
CHECK_DEADLOCK FALSE
INVARIANTS AnswersAreTrue NoResidue BestFound
PROPERTIES NothingLeftOver ReplyArrives
