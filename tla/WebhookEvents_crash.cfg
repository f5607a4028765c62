\* One instance crashes once; every process is fair.
CONSTANTS
  Events = {e1}
  Deliveries = {d1, d2}
  Instances = {i1}
  Scripts = {s1}
  MaxAttempts = 2
  BatchSize = 1
  MaxFaults = 1
  None = None
SPECIFICATION FairSpec
CHECK_DEADLOCK FALSE
PROPERTIES ExpiredLockReleases
