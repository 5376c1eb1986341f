\* Three timers; three cores; a queue of two slots between three tasks; a UART
\* ring of three slots with two tasks printing; the tick ring of one core beside
\* the publisher's.
CONSTANTS
  Null = Null
  Timer = {1, 2, 3}
  Periodic = {1, 2}
  Careless = {}
  Periods = {1, 2}
  MaxLate = 1
  MaxTokens = 1
  NumCores = 3
  x = x
  y = y
  z = z
  User = {1, 2, 3}
  QueueItem = {x, y}
  Capacity = 2
  Printer = {1, 2}
  Byte = {x, y}
  UartSize = 3
  ChunkSize = 2
  LineLengths <- MCLineLengths
  Nobody = Nobody
  NumRings = 2
  Publisher = 1
  NoCore = NoCore
  Record <- MCRecord
  RingDepth = 2
  MaxSync = 1
  HeartbeatEvery = 1
  RosterEvery = 2

SPECIFICATION ServicesSpec

INVARIANTS
  TimerListsExact
  NoStrandedTimer
  StoppedStaysQuiet
  LateKicksBounded
  SlotsAccounted
  ReportsExclude

PROPERTIES
  ExpiresOnTime
  KicksRecur
  QueueIsFifo
  UartIsFifo
  BytesGoOut
  TickRingsAreFifo
