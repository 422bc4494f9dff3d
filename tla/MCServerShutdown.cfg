\* One or two signals while main initialises or waits in accept(): no
\* connection is on its way into the list.  A data file and a timer.
SPECIFICATION Spec
CONSTANTS
  Conns = {c1, c2}
  Expiries = {k1}
  NULL = NULL
  UseCharDevice = FALSE
  Capacity = 2
  MaxRecv = 1
  Faults = {}
  SignalPoints = {"register", "init", "timer", "accept"}
  MaxSignals = 2
  Leftovers <- NoLeftover
INVARIANTS
  ExitAfterThreads
  NoFileLeft
PROPERTY ShutdownCompletes
