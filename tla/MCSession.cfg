\* Three recv() of one connection, two lines of others, a ring of two slots.
SPECIFICATION SSpec
CONSTANTS
  a = a
  nl = nl
  nul = nul
  seek = seek
  sep = sep
  Byte <- MCByte
  NL = nl
  NUL = nul
  SEEK = seek
  COMMA = sep
  ULongMax = 600
  UIntMod = 512
  NULL = NULL
  Addrs <- MCAddrs
  Garbage = {0, 1}
  Chunks <- MCChunks
  OtherLines <- MCOtherLines
  BufferSize = 4
  MaxRecvs = 3
  MaxOthers = 2
  MaxEntries = 2
  MaxSize = 1
INVARIANTS
  BufferFits
  NothingLost
  WritesAreLines
  LinesAreCommands
  SeekAnswers
CHECK_DEADLOCK FALSE
