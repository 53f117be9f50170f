SPECIFICATION PSpec
CONSTANTS
  MaxProcs = 3
  Pointers = {"null", "kernel", "first", "program", "behind"}
INVARIANT VideoReachable
