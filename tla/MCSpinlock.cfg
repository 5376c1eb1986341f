\* Three cores, chains of contended acquires up to ticket 3 before a core joins.
CONSTANTS
  N = 3
  TicketMod = 64
  MaxTicket = 2

SPECIFICATION MCSpec

INVARIANTS
  MutualExclusion
  FirstComeFirstServed

PROPERTIES
  AcquireReturns
  ImplementsSharedLock
