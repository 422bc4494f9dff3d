\* Two clients and a data file.
SPECIFICATION Spec
CONSTANTS
  Conns = {c1, c2}
  Expiries = {}
  NULL = NULL
  UseCharDevice = FALSE
  Capacity = 2
  MaxRecv = 1
  Faults = {}
  SignalPoints = {}
  MaxSignals = 0
  Leftovers <- NoLeftover
SYMMETRY Symmetry
PROPERTY AppendsOnly
