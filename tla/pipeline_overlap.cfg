\* Two processes at once (a timer run and a manual one), every kind of run.
SPECIFICATION Spec
CONSTANTS
  m1 = m1  m2 = m2  a1 = a1  a2 = a2  p1 = p1  p2 = p2
  Procs = {p1, p2}
  Messages = {m1}
  Accounts = {a1}
  AccountOf <- OneMessage
  Labels = {"Ads"}
  MaxRuns = 2
  MaxClock = 1
  DayLength = 24
  ServerZone = 0
  HostZone = 0
  DefaultWindow = 24
  MaxWindow = 72
  MaxMessages = 0
  UnreadOnly = FALSE
  LenientProvider = FALSE
  Options <- AllOptions
  Faults = {"crash", "store", "flag", "send"}
PROPERTIES LedgerAppendOnly FlagRecordsFollowDelivery ImplementsRunLedger
SYMMETRY Interchangeable
