SPECIFICATION AccountsSpec
CONSTANTS
  a1 = a1
  a2 = a2
  ann = ann
  bob = bob
  p1 = p1
  home = home
  m1 = m1
  m2 = m2
  None = None
  Agents = {a1, a2}
  Emails = {ann, bob}
  Phones = {p1}
  Merchants = {home, m1, m2}
  Founder = ann
  Home = home
  MaxRequests = 6
  MaxInvites = 2
  MaxFaults = 1
INVARIANTS
  AccountsTypeOK
  JoinedWasInvited
  WholeUnlessBroken
SYMMETRY AgentSymmetry
CHECK_DEADLOCK FALSE
