\* A wait with a timeout on c1, the unlock on c2.
CONSTANTS
  c1 = c1
  c2 = c2
  idle1 = idle1
  idle2 = idle2
  a = a
  b = b
  h = h
  lo = lo
  up = up
  x = x
  y = y
  m1 = m1
  m2 = m2
  m3 = m3
  m4 = m4
  Null = Null
  Core = {c1, c2}
  Task = {idle1, idle2, a, x}
  CoreOf <- MCCoreOf
  BasePriority <- MCBasePriority
  Idle <- MCIdle
  NumPriorities = 3
  Delays <- NoDelays
  Mutex = {m1}
  Users <- MCUsers
  Inheriting = {}
  Timeouts <- MCTimeouts

SPECIFICATION MutexSpec

INVARIANTS
  ReadyListsExact
