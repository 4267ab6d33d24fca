\* Keyword writes that fail, and what the ledger says of them after one run.
SPECIFICATION Spec
CONSTANTS
  m1 = m1  m2 = m2  a1 = a1  a2 = a2  p1 = p1  p2 = p2
  Procs = {p1}
  Messages = {m1, m2}
  Accounts = {a1}
  AccountOf <- OneAccount
  Labels = {"Ads"}
  MaxRuns = 1
  MaxClock = 1
  DayLength = 24
  ServerZone = 0
  HostZone = 0
  DefaultWindow = 24
  MaxWindow = 72
  MaxMessages = 0
  UnreadOnly = FALSE
  LenientProvider = TRUE
  Options <- DefaultOnly
  Faults = {"flag"}
INVARIANT FlagRecordsTruthful
