SPECIFICATION RtcSpec
CONSTANTS
  Requests = {32, 512}
  MaxShells = 0
INVARIANTS RateWritten
