SPECIFICATION DeliverySpec
CONSTANTS
  a1 = a1
  a2 = a2
  e1 = e1
  e2 = e2
  p1 = p1
  p2 = p2
  p3 = p3
  None = None
  Agents = {a1, a2}
  Events = {e1}
  Endpoints = {p1, p2, p3}
  Active = {p1, p2}
  MaxAttempts = 3
  MaxRows = 4
  MaxFaults = 1
CHECK_DEADLOCK FALSE
INVARIANTS DeliveryTypeOK DeliveredWasReceived TriesAreChained PendingIsBeingSent EveryEndpointTried
PROPERTIES ImplementsLog
SYMMETRY AgentSymmetry
