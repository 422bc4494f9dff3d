\* The code's own ten slots, entries of one or two bytes: every position of
\* the ring before, at and after the wrap.
SPECIFICATION CBSpec
CONSTANTS
  MaxEntries = 10
  Addrs = {p1}
  NULL = NULL
  MaxSize = 2
INVARIANTS
  BufferWellFormed
  SizeIsTotal
  FindIsConcatenation
  SeekLandsBeforeWrap
PROPERTY RingKeepsLatest
