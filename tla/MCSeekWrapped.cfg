\* Seeking to every entry of a ring that has wrapped.
SPECIFICATION CBSpec
CONSTANTS
  MaxEntries = 3
  Addrs = {p1}
  NULL = NULL
  MaxSize = 2
INVARIANT SeekLandsInCommand
