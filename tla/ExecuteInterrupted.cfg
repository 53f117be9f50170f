SPECIFICATION Spec
CONSTANTS
  MaxProcs = 3
  NChunks = 2
  IrqPcs = {"load"}
INVARIANT ProgramWhole
