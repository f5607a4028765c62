\* Three deliveries of four messages about one call, one fault anywhere.
CONSTANTS
  c1 = c1
  e1 = e1
  e2 = e2
  None = None
  Calls <- TheCalls
  Messages <- TheMessages
  Deliveries = {d1, d2, d3}
  Reported = {}
  MaxFaults = 1
SPECIFICATION FairSpec
CHECK_DEADLOCK FALSE
INVARIANTS TypeOK ExclusiveProcessing AppliedOnce ProcessedIsDone
PROPERTIES OnlyOvertakenStepsBack OnlyOvertakenReplaces EventSettles KeepsInbox
