SPECIFICATION FairSpec
CONSTANTS
  w1 = w1  w2 = w2  w3 = w3
  b1 = b1  b2 = b2
  Workflow = {w1, w2, w3}
  Branch = {b1, b2}
  branchOf <- TwoBranches
  Unsupported = {}
  VMLimit = 1
  Tries = 2
  DryRun = FALSE
  Debug = FALSE
  UseContainer = TRUE
  Remote = FALSE
  Raises = {"container", "vmErrors", "webui", "execute"}
  Cancellable = {}
  Nobody = Nobody
INVARIANTS
  VMLimitObeyed
PROPERTIES SlotComes
