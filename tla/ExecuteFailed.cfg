SPECIFICATION Spec
CONSTANTS
  MaxProcs = 3
  NChunks = 2
  IrqPcs = {"sys", "found", "map"}
INVARIANT SlotsAccounted
