\* Safety, refinement and liveness of both variants: three pool threads, two
\* codec calls.
CONSTANTS
  NW = 3
  MaxCalls = 2
  OK = OK
  Err = Err
  SysErr = SysErr
  Ret = {OK, Err}
SPECIFICATION PoolSpec
INVARIANTS QuietWhenIdle JoinTellsThisCall NoFailureLost ResourcesMatch
PROPERTIES ImplementsHandoff CallsReturn
