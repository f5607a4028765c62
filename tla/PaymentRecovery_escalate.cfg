\* An ESCALATE action beside a capture; no voice outcomes, no faults.
CONSTANTS
  Payments = {p1}
  Cases = {c1}
  Requests = {r1}
  Handlers = {h1}
  Workers = {w1}
  Listeners = {}
  Makers = {}
  Scripts = {}
  Recommended = {"ESCALATE"}
  MaxPaymentAttempts = 3
  MaxFailures = 1
  MaxPromises = 0
  MaxRejected = 0
  MaxCrashes = 0
  None = None
SPECIFICATION FairSpec
CHECK_DEADLOCK FALSE
PROPERTIES RecoveredNotEscalated
