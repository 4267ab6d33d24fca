\* Every answer of up to three items to the first and to the repair request,
\* from a provider that hands over invalid answers; the call returns and stops.
SPECIFICATION Spec
CONSTANTS
  m1 = m1  m2 = m2  m3 = m3
  Messages = {m1, m2, m3}
  Labels = {"Ads"}
  LenientProvider = TRUE
  Requests <- AllRequests
  MaxItems = 3
  RepairAttempts = {0, 1}
SYMMETRY Alike
INVARIANTS TypeOK ErrorsExplainFailures
PROPERTIES ImplementsCall RepairKeepsValid
CHECK_DEADLOCK FALSE
