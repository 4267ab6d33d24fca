\* Two processes that start, migrate the same new file, connect, run, fail at
\* any point, are killed and start again, with settings spread over the layers.
SPECIFICATION Spec
CONSTANTS
  p1 = p1  p2 = p2
  Procs = {p1, p2}
  Migrations = 2
  File <- Files
  Env <- Environments
  Flags <- CommandLines
  MaxStarts = 4
SYMMETRY Alike
INVARIANTS OpenHasTables RunHasLedger DirtyHasCause EveryAccountServed LeavesNothingOpen
CHECK_DEADLOCK FALSE
