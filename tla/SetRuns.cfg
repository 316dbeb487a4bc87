SPECIFICATION FairSettlement
CONSTANTS
  m1 = m1
  m2 = m2
  k1 = k1
  k2 = k2
  k3 = k3
  None = None
  Merchants = {m1, m2}
  Collections = {k1, k2, k3}
  Payee <- PaidToBoth
  Currency <- AllHome
  Amount <- Amounts
  FeePercent = 20
  FeeMinimum = 0
  Rail <- Rails
  MinBalanceMinor = 2
  MaxPayoutMinor = 4
  MaxRuns = 2
  MaxFaults = 2
CHECK_DEADLOCK FALSE
INVARIANTS SettlementTypeOK PaidWasCollected InTransitCovered BalancedWhenQuiet
PROPERTIES ImplementsPayoutStages EarnerIsPaid
