SPECIFICATION FairNotifications
CONSTANTS
  n1 = n1
  n2 = n2
  acme = acme
  mute = mute
  None = None
  Notices = {n1, n2}
  Merchants = {acme, mute}
  MerchantOf <- OwnerOf
  Dead <- MuteMerchants
  MaxRefusals = 5
  MaxFaults = 2
  MaxLate = 1
  MaxEdits = 1
  MaxBuffer = 3
INVARIANTS
  NotificationTypeOK
  AckedIsHeard
  OnceUnlessTroubled
PROPERTIES
  LiveMerchantsHear
CHECK_DEADLOCK FALSE
