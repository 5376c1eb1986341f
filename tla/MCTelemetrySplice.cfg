\* The publisher on core 1 of two; every round has a heartbeat.
CONSTANTS
  x = x
  z = z
  NumRings = 2
  Publisher = 1
  NoCore = NoCore
  Record <- MCRecord
  RingDepth = 2
  MaxSync = 1
  HeartbeatEvery = 1
  RosterEvery = 2

SPECIFICATION TelemetrySpec

INVARIANT
  OneFrameAtATime
