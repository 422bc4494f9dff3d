\* Three threads and their caller, every call may fail.
SPECIFICATION Spec
CONSTANTS
  Threads = {t1, t2, t3}
  NULL = NULL
  Caller = Caller
  Faults = {"create", "sleep", "lock", "unlock"}
INVARIANTS
  HoldsMutex
  SuccessIsTrue
  BlockFreedOnce
PROPERTY ThreadsEnd
CHECK_DEADLOCK FALSE
