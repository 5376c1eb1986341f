\* One core, waits with and without a timeout, nested inheritance mutexes; or two
\* cores, waits without a timeout, and x nests two inheritance mutexes.
CONSTANTS
  c1 = c1
  c2 = c2
  idle1 = idle1
  idle2 = idle2
  a = a
  b = b
  h = h
  lo = lo
  up = up
  x = x
  y = y
  m1 = m1
  m2 = m2
  m3 = m3
  m4 = m4
  Null = Null
  Core = {c1, c2}
  Task = {idle1, idle2, a, b, h, lo, up, x}
  CoreOf <- MCCoreOf
  BasePriority <- MCBasePriority
  Idle <- MCIdle
  NumPriorities = 3
  Delays <- GroupDelays
  Mutex = {m1, m2, m3, m4}
  Users <- GroupUsers
  Inheriting = {m1, m2, m3, m4}
  Timeouts <- MCTimeouts

SPECIFICATION ContractSpec

INVARIANTS
  OwnershipAgrees
  OwnerOutranksWaiters
  HeldCounts
  BoostEnds
  ReadyListsExact
  NoLostWaiter

PROPERTIES
  TimedWaitEnds
  CallsEnd
