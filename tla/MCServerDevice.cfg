\* Traffic on the char device with failing calls and clients that go away.
SPECIFICATION Spec
CONSTANTS
  Conns = {c1, c2}
  Expiries = {}
  NULL = NULL
  UseCharDevice = TRUE
  Capacity = 2
  MaxRecv = 2
  Faults = {"accept", "create", "open", "send", "sigpipe"}
  SignalPoints = {}
  MaxSignals = 0
  Leftovers <- AnyLeftover
SYMMETRY Symmetry
INVARIANTS
  TypeOK
  ReplyIsSnapshot
  NoAbandonedMutex
  WalkStaysOnList
