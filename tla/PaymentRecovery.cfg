\* One payment that fails twice, voice calls with an outcome, a caller of
\* createPromiseToPay and the promise script; no faults and no agent.
CONSTANTS
  Payments = {p1}
  Cases = {c1, c2}
  Requests = {}
  Handlers = {h1, h2}
  Workers = {w1}
  Listeners = {l1}
  Makers = {m1}
  Scripts = {s1}
  Recommended = {}
  MaxPaymentAttempts = 3
  MaxFailures = 2
  MaxPromises = 2
  MaxRejected = 0
  MaxCrashes = 0
  None = None
SYMMETRY Symmetry
SPECIFICATION Spec
CHECK_DEADLOCK FALSE
INVARIANTS TypeOK FailedIsPursued RecoveredIsPaid FirstActionOnce
PROPERTIES OnlyOvertakenPromises KeptStaysKept KeepsLife
