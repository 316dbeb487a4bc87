SPECIFICATION AdmissionSpec
CONSTANTS
  a1 = a1
  a2 = a2
  phone = phone
  email = email
  None = None
  Callers = {a1, a2}
  Contacts = {phone, email}
  CallsFor <- SomeCalls
  Orders <- SomeOrders
  Registered = {"mpesa"}
  MaxAttempts = 2
  Window = 2
  Threshold = 2
  Cooldown = 1
  MaxClock = 4
  MaxCalls = 3
  MaxReports = 3
INVARIANTS
  AdmissionTypeOK
  WindowHolds
PROPERTIES
  LeftOutWhileFailing
SYMMETRY CallerSymmetry
CHECK_DEADLOCK FALSE
