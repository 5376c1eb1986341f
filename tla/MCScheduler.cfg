\* Idle, three tasks at priority 1, one at 2; priorities 1 and 2 can be inherited.
CONSTANTS
  c1 = c1
  idle = idle
  a = a
  b = b
  d = d
  h = h
  Null = Null
  Core = {c1}
  Task = {idle, a, b, d, h}
  CoreOf <- MCCoreOf
  BasePriority <- MCBasePriority
  Idle <- MCIdle
  NumPriorities = 3
  Delays <- MCDelays

SPECIFICATION FairSpec

INVARIANTS
  ReadyListsExact
  CursorInList
  BlockedListExact
  OneRunning
  NobodyOversleeps

PROPERTIES
  RunsHighest
  WaitsOnlyFor
