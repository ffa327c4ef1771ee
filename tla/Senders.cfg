SPECIFICATION AloneSpec
CONSTANTS
  c1 = c1  c2 = c2  c3 = c3
  tcA = tcA  tcB = tcB
  s1 = s1  s2 = s2
  CRC = {c1, c2, c3}
  TestCase = {tcA, tcB}
  testcaseOf <- TwoCases
  Sender = {s1, s2}
  crcsOf <- TwoSenders
  Throttled = {s2}
  HooksFail = TRUE
  Reports <- SomeReports
  MaxQueue = 2
INVARIANTS
  HooksFollowView
PROPERTIES ViewOnlyAdvances EndsOnceDelivered FlushedWhenQuiet
CHECK_DEADLOCK FALSE
