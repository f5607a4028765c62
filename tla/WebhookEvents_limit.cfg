\* A redelivery takes over a row waiting for its retry; no faults.
CONSTANTS
  Events = {e1}
  Deliveries = {d1, d2}
  Instances = {i1}
  Scripts = {}
  MaxAttempts = 2
  BatchSize = 1
  MaxFaults = 0
  None = None
SYMMETRY Symmetry
SPECIFICATION Spec
CHECK_DEADLOCK FALSE
INVARIANTS PendingBelowLimit
