\* Two takers on c1, gives from tasks, from the tick interrupt and from c2.
CONSTANTS
  c1 = c1
  c2 = c2
  idle1 = idle1
  idle2 = idle2
  a = a
  h = h
  s1 = s1
  s2 = s2
  Null = Null
  Core = {c1, c2}
  Task = {idle1, idle2, a, h}
  CoreOf <- MCCoreOf
  BasePriority <- MCBasePriority
  Idle <- MCIdle
  NumPriorities = 3
  Delays <- DelaysOfA
  Sem = {s1, s2}
  MaxCount <- MCMaxCount
  InitialCount <- MCInitialCount
  Givers <- MCGivers
  Timeouts <- MCTimeouts
  Boosters <- MCBoosters
  CountMod = 16

SPECIFICATION FairSpec

INVARIANTS
  SemTypeOK
  TokensConserved
  WaitersExact
  NoLostTaker

PROPERTIES
  TimedTakeReturns
