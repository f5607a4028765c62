\* Two events, two deliveries, an instance and the retry script, one fault
\* anywhere, three attempts.
CONSTANTS
  Events = {e1, e2}
  Deliveries = {d1, d2}
  Instances = {i1}
  Scripts = {s1}
  MaxAttempts = 3
  BatchSize = 1
  MaxFaults = 1
  None = None
SPECIFICATION FairSpec
CHECK_DEADLOCK FALSE
INVARIANTS TypeOK SingleHolder ClaimsBounded GivenUpOnlyAtLimit
  NothingStranded
PROPERTIES ProcessedIsFinal Settles KeepsQueue
