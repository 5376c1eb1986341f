\* An owner on c1 boosted through two mutexes, from both cores.
CONSTANTS
  c1 = c1
  c2 = c2
  idle1 = idle1
  idle2 = idle2
  a = a
  b = b
  h = h
  lo = lo
  up = up
  x = x
  y = y
  m1 = m1
  m2 = m2
  m3 = m3
  m4 = m4
  Null = Null
  Core = {c1, c2}
  Task = {idle1, idle2, a, h, y}
  CoreOf <- MCCoreOf
  BasePriority <- MCBasePriority
  Idle <- MCIdle
  NumPriorities = 4
  Delays <- NoDelays
  Mutex = {m1, m2}
  Users <- MCUsers
  Inheriting = {m1, m2}
  Timeouts <- NoTimeouts

SPECIFICATION MutexSpec

PROPERTIES
  BoostRaises
