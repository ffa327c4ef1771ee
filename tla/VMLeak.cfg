SPECIFICATION FairSpec
CONSTANTS
  w1 = w1  w2 = w2  w3 = w3
  b1 = b1  b2 = b2
  Workflow = {w1, w2, w3}
  Branch = {b1, b2}
  branchOf <- TwoBranches
  Unsupported = {w3}
  VMLimit = 1
  Tries = 1
  DryRun = FALSE
  Debug = FALSE
  UseContainer = TRUE
  Remote = FALSE
  Raises = {}
  Cancellable = {w1, w3}
  Nobody = Nobody
PROPERTIES SlotComes
CHECK_DEADLOCK FALSE
