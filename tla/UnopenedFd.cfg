SPECIFICATION FdSpec
CONSTANTS
  BlockSize = 2
  MaxBlocks = 2
  MaxProcs = 2
  PcbLength = 4
  Disk <- MCDisk
  Args = {"a"}
  MaxDirPos = 1
INVARIANT NeverFrozen
