\* Two of the three tasks of one priority sleep with task_delay_ms(1).
CONSTANTS
  c1 = c1
  idle = idle
  a = a
  b = b
  d = d
  h = h
  Null = Null
  Core = {c1}
  Task = {idle, a, b, d, h}
  CoreOf <- MCCoreOf
  BasePriority <- MCBasePriority
  Idle <- MCIdle
  NumPriorities = 3
  Delays <- DelaysOfAB

SPECIFICATION FixedSpec

PROPERTIES
  RoundRobin
