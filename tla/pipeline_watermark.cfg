\* The fetch window: the clock, mail arriving at any moment, two accounts that
\* fail independently, the user reading mail, every kind of run.
SPECIFICATION Spec
CONSTANTS
  m1 = m1  m2 = m2  a1 = a1  a2 = a2  p1 = p1  p2 = p2
  Procs = {p1}
  Messages = {m1, m2}
  Accounts = {a1, a2}
  AccountOf <- TwoAccounts
  Labels = {}
  MaxRuns = 2
  MaxClock = 4
  DayLength = 2
  ServerZone <- Behind
  HostZone = 0
  DefaultWindow = 1
  MaxWindow = 2
  MaxMessages = 0
  UnreadOnly = TRUE
  LenientProvider = FALSE
  Options <- DefaultOnly
  Faults = {"account", "send"}
INVARIANTS CompletedCoversDue IngestionUninterrupted
