\* One rejected call while a new case gets its first action.
CONSTANTS
  Payments = {p1}
  Cases = {c1, c2}
  Requests = {}
  Handlers = {h1}
  Workers = {w1}
  Listeners = {}
  Makers = {}
  Scripts = {}
  Recommended = {}
  MaxPaymentAttempts = 3
  MaxFailures = 1
  MaxPromises = 0
  MaxRejected = 1
  MaxCrashes = 0
  None = None
SPECIFICATION FairSpec
CHECK_DEADLOCK FALSE
PROPERTIES WorkflowStarts
