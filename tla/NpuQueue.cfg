SPECIFICATION FairSpec
CONSTANTS
  Requests = {1, 2, 3, 4}
  NeedsNpu = {1, 2, 3}
  Streams = {1}
  BadJson = {2}
  BadId = {3}
  Threads = 2
  Limit = 1
  MaxConns = 3
  Width = 16
INVARIANTS TypeOK ConnectionsCounted
PROPERTIES Implements QueueDrains NpuFreed
CHECK_DEADLOCK FALSE
