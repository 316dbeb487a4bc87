SPECIFICATION TokensSpec
CONSTANTS
  a1 = a1
  a2 = a2
  a3 = a3
  None = None
  Callers = {a1, a2, a3}
  Margin = 1
  Lives = {4, 5}
  Fallback = 3
  MaxClock = 14
INVARIANTS
  TokensTypeOK
PROPERTIES
  TokenUsable
SYMMETRY CallerSymmetry
