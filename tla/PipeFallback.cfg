SPECIFICATION PipelineSpec
CONSTANTS
  r1 = r1
  w = w
  c1 = c1
  c2 = c2
  None = None
  Requests = {r1}
  Handlers = {w, c1, c2}
  Calls = {c1, c2}
  worker = w
  Keys = {}
  KeyOf <- NoKeys
  MpesaRequests = {r1}
  Retriable = {}
  EarlyVerdicts = FALSE
  NumLines = 2
  NatsReliable = FALSE
  MaxFaults = 1
CHECK_DEADLOCK FALSE
INVARIANTS AckedIsSettled
 
SYMMETRY CallSymmetry
