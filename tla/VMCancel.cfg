SPECIFICATION Spec
CONSTANTS
  w1 = w1  w2 = w2  w3 = w3
  b1 = b1  b2 = b2
  Workflow = {w1, w2}
  Branch = {b1, b2}
  branchOf <- OneBranch
  Unsupported = {}
  VMLimit = 1
  Tries = 1
  DryRun = FALSE
  Debug = FALSE
  UseContainer = TRUE
  Remote = TRUE
  Raises = {"container", "clone", "startVM", "vmErrors", "webui", "execute", "forwarding", "log"}
  Cancellable = {w1, w2}
  Nobody = Nobody
INVARIANTS NothingRemovedInUse RunsWithFramework EndsDecided
PROPERTIES CanceledGetsNoVM
CHECK_DEADLOCK FALSE
