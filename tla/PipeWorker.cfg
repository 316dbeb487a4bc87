SPECIFICATION FairPipeline
CONSTANTS
  r1 = r1
  w = w
  c1 = c1
  c2 = c2
  None = None
  Requests = {r1}
  Handlers = {w, c1, c2}
  Calls = {c1, c2}
  worker = w
  Keys = {}
  KeyOf <- NoKeys
  MpesaRequests = {}
  Retriable = {r1}
  EarlyVerdicts = FALSE
  NumLines = 2
  NatsReliable = TRUE
  MaxFaults = 2
CHECK_DEADLOCK FALSE
INVARIANTS PipelineTypeOK AckedIsBookedUnlessFaulty
PROPERTIES ConfirmedIsSettled KnownIsAcked
