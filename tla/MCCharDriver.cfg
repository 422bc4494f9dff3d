\* Two threads that share an open file: a ring of one slot, so that every
\* command but the first overwrites one, and one block more than the device
\* can refer to.  No symmetry, because of the liveness property.
SPECIFICATION Spec
CONSTANTS
  MaxEntries = 1
  Addrs = {p1, p2, p3}
  NULL = NULL
  MaxSize = 1
  Threads = {t1, t2}
  Files = {f1}
  a = a
  nl = nl
  Byte <- MCByte
  NL = nl
  Payloads <- MCPayloads
  Lseeks <- MCLseeks
  SeekTos <- MCSeekTos
  MaxPartial = 1
INVARIANTS
  TypeOK
  LockHeldInBody
  MemoryExact
  CommandsAreLines
PROPERTIES
  ReadsStream
  DriverIsDevice
  CallsReturn
