SPECIFICATION Spec
CONSTANTS
  r1 = r1
  r2 = r2
  r3 = r3
  h1 = h1
  h2 = h2
  k1 = k1
  None = None
  Requests = {r1}
  Handlers = {h1}
  Keys = {}
  KeyOf <- NoKeys
  MpesaRequests = {r1}
  Retriable = {}
  EarlyVerdicts = FALSE
  NumLines = 2
CHECK_DEADLOCK FALSE
INVARIANTS BookedAtMostOnce
