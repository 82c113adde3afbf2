SPECIFICATION ServicesSpec
CONSTANTS
  MAX_PID = 7
  MAX_PROCESS = 5
  U = 5
  NPages = 3
  FreePages = {{1, 2, 3}, {1, 3}}
  Sizes = {1, 3, 5, 10, 12}
  Readers = {r1, r2}
  STDIN_BUFSIZE = 2
  MaxLen = 3
  MaxKeys = 6
INVARIANTS Unique SearchOK HeapOK NoLostWakeup BufferOK
PROPERTIES Terminates HeapRefinement Delivered
