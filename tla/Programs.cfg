SPECIFICATION ProgramSpec
CONSTANTS
  BufSize = 3
  MaxFds = 3
  Dirs <- MCDirs
  Searches <- MCSearches
  StackBytes = {97, 10}
  Pictures <- MCPictures
  MaxRows = 5
  PoolSize = 3
  NumCells = 3
  Locations = {1, 2}
  Templates <- MCTemplates
  NameLen = 2
  ArgLen = 5
  MaxSlots = 2
  Directory <- MCDirectory
  Programs = {2, 3}
  Letters = {97, 98}
  MaxLine = 4
  WordBits = 8
  StringAt <- MCStringAt
  Items = {"letter", "percent", "hex", "padded", "unsigned", "signed", "char", "string"}
  MaxItems = 2
  Arguments <- MCArguments
  BlockSize = 3
  MaxBlocks = 3
  ReadSize = 2
  MaxRead = 4
  MaxDirReads = 4
  Images <- MCImages
INVARIANTS GrepExact FramesExact ListSound CommandObeyed PrintfExact ReadsInOrder LoadExact
PROPERTIES ListSpec KeepsBlinking ProgramsEnd ZeroAtEndOnly LoadEnds
CHECK_DEADLOCK FALSE
