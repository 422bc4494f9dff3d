\* A signal at any point of main, data file and timer.
SPECIFICATION Spec
CONSTANTS
  Conns = {c1, c2}
  Expiries = {k1}
  NULL = NULL
  UseCharDevice = FALSE
  Capacity = 2
  MaxRecv = 1
  Faults = {"start", "open", "write"}
  SignalPoints = {"start", "register", "open", "init", "timer", "loop", "accept", "create",
                  "insert", "reap"}
  MaxSignals = 1
  Leftovers <- AnyLeftover
SYMMETRY Symmetry
INVARIANTS
  ReplyIsSnapshot
  MutexGuardsFile
  FreedAfterUse
PROPERTY DestroyMeetsUntracked
