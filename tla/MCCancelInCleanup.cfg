\* A send() fails just before the signal.
SPECIFICATION Spec
CONSTANTS
  Conns = {c1, c2}
  Expiries = {}
  NULL = NULL
  UseCharDevice = TRUE
  Capacity = 2
  MaxRecv = 1
  Faults = {"send"}
  SignalPoints = {"accept"}
  MaxSignals = 1
  Leftovers <- NoLeftover
INVARIANT NoAbandonedMutex
