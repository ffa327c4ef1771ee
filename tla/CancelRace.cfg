SPECIFICATION Spec
CONSTANTS
  k1 = k1  k2 = k2
  c1 = c1  c2 = c2
  tcA = tcA  tcB = tcB
  w1 = w1  w2 = w2
  s1 = s1  s2 = s2
  CRC = {c1}
  TestCase = {tcA, tcB}
  testcaseOf <- CaseOfOne
  Sender = {s1, s2}
  crcsOf <- BothOfOne
  Throttled = {}
  HooksFail = FALSE
  Reports <- Progress
  MaxQueue = 0
  Workflow = {w1}
  workflowOf <- Isolated
  Canceller = {k1}
  Main = Main
  None = None
  MaxReports = 2
  Answers = {TRUE, FALSE}
  LateReports = FALSE
INVARIANTS ZeroMeansReported
CHECK_DEADLOCK FALSE
