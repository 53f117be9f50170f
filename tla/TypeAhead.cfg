SPECIFICATION LineSpec
CONSTANTS
  BufferSize = 4
  Terminals = {1, 2}
  Chars = {97, 98}
  ReadSizes = {2, 5}
  MaxRaces = 1
INVARIANT LineFeedIncluded
