\* Runs that start and finish within and across two seconds, with texts of every
\* length, summaries saved at any time, and one reader whose queries interleave
\* with the writers.
SPECIFICATION Spec
CONSTANTS
  MaxRuns = 3
  MaxClock = 6
  Base = 2
  Fraction = 2
INVARIANTS TypeOK WatermarkWithinSecond PreviousIsPrior BackendsAgree
CHECK_DEADLOCK FALSE
