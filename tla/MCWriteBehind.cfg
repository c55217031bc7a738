SPECIFICATION WriteSpec
CONSTANTS
  Flusher = {f1, f2}
  MaxEvents = 4
  MaxFailures = 2
PROPERTY KeepsTheQueue
PROPERTY WorkIsWritten
CHECK_DEADLOCK FALSE
