SPECIFICATION LineSpec
CONSTANTS
  BufferSize = 3
  Terminals = {1, 2}
  Chars = {97}
  ReadSizes = {3, 4}
  MaxRaces = 0
INVARIANT LineExact
