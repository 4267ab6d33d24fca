\* The fetch window: the clock, mail arriving at any moment, two accounts that
\* fail independently, the user reading mail, every kind of run.
SPECIFICATION Spec
CONSTANTS
  m1 = m1  m2 = m2  a1 = a1  a2 = a2  p1 = p1  p2 = p2
  Procs = {p1}
  Messages = {m1, m2}
  Accounts = {a1, a2}
  AccountOf <- TwoAccounts
  Labels = {}
  MaxRuns = 2
  MaxClock = 3
  DayLength = 1
  ServerZone = 0
  HostZone = 0
  DefaultWindow = 1
  MaxWindow = 1
  MaxMessages = 0
  UnreadOnly = FALSE
  LenientProvider = FALSE
  Options <- DefaultOnly
  Faults = {"account"}
INVARIANT CompletedCoversFailedAccounts
