SPECIFICATION Spec
CONSTANTS
  r1 = r1
  r2 = r2
  r3 = r3
  h1 = h1
  h2 = h2
  k1 = k1
  None = None
  Requests = {r1, r2, r3}
  Handlers = {h1}
  Keys = {k1}
  KeyOf <- KeySharedByTwo
  MpesaRequests = {}
  Retriable = {r1}
  EarlyVerdicts = FALSE
  NumLines = 4
CHECK_DEADLOCK FALSE
INVARIANTS TypeOK BookedAtMostOnce OneCollectionPerKey RepliesAgree
PROPERTIES ImplementsLifecycle
