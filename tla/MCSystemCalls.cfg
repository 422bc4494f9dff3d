\* Three calls of a program with one child of its own, every call may fail.
SPECIFICATION Spec
CONSTANTS
  MaxCalls = 3
  Others = {o1}
  NULL = NULL
  Faults = {"open", "fork", "dup2", "execv", "wait"}
INVARIANTS
  ResultIsOwn
  OneReapedPerCall
  OutputClosed
PROPERTY ForkedCallsReturn
CHECK_DEADLOCK FALSE
