\* Two transcripts of one call arrive under two event ids; nothing fails.
CONSTANTS
  c1 = c1
  e1 = e1
  e2 = e2
  None = None
  Calls <- TheCalls
  Messages <- TwoTranscripts
  Deliveries = {d1, d2}
  Reported = {}
  MaxFaults = 0
SPECIFICATION Spec
CHECK_DEADLOCK FALSE
PROPERTY OneFinalOutcome
