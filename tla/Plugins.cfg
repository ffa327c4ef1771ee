SPECIFICATION Spec
CONSTANTS
  c1 = c1 c2 = c2 c3 = c3 tA = tA tB = tB
  CRC = {c1, c2, c3}
  Test = {tA, tB}
  testOf <- TwoTests
  Inputs <- Input
  MaxRuns = 3
  Tasks <- AllTasks
  MaxLook = 2
  MaxTime = 20
INVARIANTS
  ResultsDecided LeavesNothing SummaryMatches WaitsAsAsked AttemptsExact ChoiceCorrect
CHECK_DEADLOCK FALSE
