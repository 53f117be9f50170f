SPECIFICATION MCSpec
CONSTANTS
  Requests = {32, 512}
  MaxShells = 1
  MaxFrames = 4
  MaxProcs = 3
  Pointers = {"null", "kernel", "first", "program", "behind"}
INVARIANTS RateSet Served UserConfined ProgramMapped
PROPERTIES ReadFresh ReadReturns KeyboardAlive ClockAlive
