\* One call whose fork() may fail.
SPECIFICATION Spec
CONSTANTS
  MaxCalls = 1
  Others = {o1}
  NULL = NULL
  Faults = {"fork"}
PROPERTY EveryCallReturns
CHECK_DEADLOCK FALSE
