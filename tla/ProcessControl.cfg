SPECIFICATION FairSpec
CONSTANTS
  MaxProcs = 3
  NChunks = 2
  IrqPcs = {"sys", "found", "map", "load", "pcb", "tss", "iret", "halt"}
INVARIANTS TypeOK ImageComplete TrapStackOwn ImagesIntact ReturnPath HaltReturns
PROPERTIES SlotRelease NestingSpec ExecuteCompletes
CHECK_DEADLOCK FALSE
