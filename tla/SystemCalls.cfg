SPECIFICATION MCSpec
CONSTANTS
  BlockSize = 2
  MaxBlocks = 2
  MaxProcs = 2
  PcbLength = 4
  Disk <- MCDisk
  Args = {"a"}
  MaxDirPos = 1
  BufferSize = 3
  Terminals = {1, 2}
  Chars = {97}
  ReadSizes = {2, 4}
  MaxRaces = 2
  Codes <- MCCodes
  Garbage = {0, 65}
  NumCols = 3
  NumRows = 2
  Glyphs = {97}
  MaxWrite = 2
INVARIANTS TableFresh OpenMatches ArgumentsKept SyserrPasses KeyMeans LineKept LineDelivered CursorShown
PROPERTIES SuspendedKept EchoVisible ScreensKept
CHECK_DEADLOCK FALSE
