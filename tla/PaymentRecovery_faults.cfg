\* One failure with one rejected call and one lost process.
CONSTANTS
  Payments = {p1}
  Cases = {c1, c2}
  Requests = {r1}
  Handlers = {h1, h2}
  Workers = {w1}
  Listeners = {}
  Makers = {}
  Scripts = {}
  Recommended = {"RETRY_PAYMENT", "CREATE_PAYMENT_LINK", "SEND_NOTIFICATION",
                 "ESCALATE"}
  MaxPaymentAttempts = 3
  MaxFailures = 1
  MaxPromises = 0
  MaxRejected = 1
  MaxCrashes = 1
  None = None
SPECIFICATION FairSpec
CHECK_DEADLOCK FALSE
INVARIANTS CompletedIsStored AddsOneAttempt NothingAbandoned AgentRunIsTold
PROPERTIES OnlyOvertakenReopen CaseGetsAction CaptureIsRecorded
