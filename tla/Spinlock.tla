------------------------------- MODULE Spinlock -------------------------------
(***************************************************************************)
(* kernel/spinlock/spinlock.c: Lamport's Bakery lock over choosing[] and   *)
(* ticket[], one step per load or store of a shared word.  The barriers    *)
(* and the MMU-off Device memory make every access visible in program      *)
(* order, so an interleaving of single accesses is what the cores execute. *)
(*                                                                         *)
(* Every caller is taken to bracket acquire/release with enter_critical(), *)
(* so that a core runs at most one acquire of a lock at a time.            *)
(***************************************************************************)
EXTENDS Naturals

CONSTANTS N,          \* COMPANION_CORE_MAX_CORES
          TicketMod   \* tickets are uint32_t: 2^32 in the code

ASSUME NAssumption == N \in Nat \ {0}
ASSUME TicketModAssumption == TicketMod \in Nat \ {0}

Core == 0 .. N - 1

VARIABLES
  choosing,     \* lock->choosing[core]
  ticket,       \* lock->ticket[core]
  pc,           \* where each core is in acquire/release
  i,            \* loop index of the scan and of the wait loop
  max_ticket,   \* local of spinlock_acquire
  ahead         \* history: cores that had their ticket when this one came

vars == <<choosing, ticket, pc, i, max_ticket, ahead>>

\* "scan":    choosing[me] = 1, reading ticket[i]
\* "drawn":   ticket[me] stored, choosing[me] still 1
\* "await":   about to read choosing[i]
\* "compare": about to read ticket[i]
\* "held":    spinlock_acquire has returned
Label == {"out", "scan", "drawn", "await", "compare", "held"}

\* spinlock_acquire's doorway is behind this core: its place in line is fixed.
InLine(c) == pc[c] \in {"await", "compare", "held"}

-------------------------------------------------------------------------------

spinlock_init ==
  /\ choosing = [c \in Core |-> 0]
  /\ ticket   = [c \in Core |-> 0]

Init ==
  /\ spinlock_init
  /\ pc         = [c \in Core |-> "out"]
  /\ i          = [c \in Core |-> 0]
  /\ max_ticket = [c \in Core |-> 0]
  /\ ahead      = [c \in Core |-> {}]

Goto(c, from, to) == pc[c] = from /\ pc' = [pc EXCEPT ![c] = to]

\* lock->choosing[me] = 1; max_ticket = 0; i = 0
Announce(c) ==
  /\ Goto(c, "out", "scan")
  /\ choosing'   = [choosing EXCEPT ![c] = 1]
  /\ i'          = [i EXCEPT ![c] = 0]
  /\ max_ticket' = [max_ticket EXCEPT ![c] = 0]
  /\ ahead'      = [ahead EXCEPT ![c] = {d \in Core : InLine(d)}]
  /\ UNCHANGED ticket

\* One iteration of the maximum search: t = lock->ticket[i]
ReadTicket(c) ==
  /\ Goto(c, "scan", "scan")
  /\ i[c] < N
  /\ max_ticket' = [max_ticket EXCEPT
                      ![c] = IF ticket[i[c]] > @ THEN ticket[i[c]] ELSE @]
  /\ i' = [i EXCEPT ![c] = @ + 1]
  /\ UNCHANGED <<choosing, ticket, ahead>>

\* BUG: the maximum is never used: every core draws the same ticket.
DrawTicket_Flat(c) ==
  /\ Goto(c, "scan", "drawn")
  /\ i[c] = N
  /\ ticket' = [ticket EXCEPT ![c] = 1]
  /\ UNCHANGED <<choosing, i, max_ticket, ahead>>

\* lock->ticket[me] = max_ticket + 1
DrawTicket(c) ==
  /\ Goto(c, "scan", "drawn")
  /\ i[c] = N
  /\ ticket' = [ticket EXCEPT ![c] = (max_ticket[c] + 1) % TicketMod]
  /\ UNCHANGED <<choosing, i, max_ticket, ahead>>

\* lock->choosing[me] = 0; i = 0
EndChoosing(c) ==
  /\ Goto(c, "drawn", "await")
  /\ choosing' = [choosing EXCEPT ![c] = 0]
  /\ i' = [i EXCEPT ![c] = 0]
  /\ UNCHANGED <<ticket, max_ticket, ahead>>

\* if (i == me) continue;
SkipSelf(c) ==
  /\ Goto(c, "await", "await")
  /\ i[c] = c
  /\ i' = [i EXCEPT ![c] = @ + 1]
  /\ UNCHANGED <<choosing, ticket, max_ticket, ahead>>

\* BUG: no wait for a core that is still drawing its ticket.
AwaitChoosing_NoWait(c) ==
  /\ Goto(c, "await", "compare")
  /\ i[c] < N
  /\ i[c] # c
  /\ UNCHANGED <<choosing, ticket, i, max_ticket, ahead>>

\* while (lock->choosing[i]): the read that finds it 0
AwaitChoosing(c) ==
  /\ Goto(c, "await", "compare")
  /\ i[c] < N
  /\ i[c] # c
  /\ choosing[i[c]] = 0
  /\ UNCHANGED <<choosing, ticket, i, max_ticket, ahead>>

\* BUG: the tie-break lets the larger core id go first as well.
GoesFirst_NoTieBreak(c, d) ==
  ticket[d] = 0 \/ ticket[d] >= ticket[c]

\* BUG: a tie is nobody's turn.
GoesFirst_StrictTicket(c, d) ==
  ticket[d] = 0 \/ ticket[d] > ticket[c]

\* The three break conditions of the wait loop
GoesFirst(c, d) ==
  \/ ticket[d] = 0
  \/ ticket[d] > ticket[c]
  \/ ticket[d] = ticket[c] /\ d > c

\* their_ticket = lock->ticket[i]: the read that lets core i be passed
CompareTicket(c) ==
  /\ Goto(c, "compare", "await")
  /\ GoesFirst(c, i[c])
  /\ i' = [i EXCEPT ![c] = @ + 1]
  /\ UNCHANGED <<choosing, ticket, max_ticket, ahead>>

\* The wait loop is over: spinlock_acquire returns
Acquired(c) ==
  /\ Goto(c, "await", "held")
  /\ i[c] = N
  /\ UNCHANGED <<choosing, ticket, i, max_ticket, ahead>>

\* spinlock_release: lock->ticket[me] = 0
spinlock_release(c) ==
  /\ Goto(c, "held", "out")
  /\ ticket' = [ticket EXCEPT ![c] = 0]
  /\ ahead'  = [d \in Core |-> ahead[d] \ {c}]
  /\ UNCHANGED <<choosing, i, max_ticket>>

spinlock_acquire(c) ==
  \/ Announce(c) \/ ReadTicket(c) \/ DrawTicket(c) \/ EndChoosing(c)
  \/ SkipSelf(c) \/ AwaitChoosing(c) \/ CompareTicket(c) \/ Acquired(c)

Step(c) == spinlock_acquire(c) \/ spinlock_release(c)

Next == \E c \in Core : Step(c)

Spec == Init /\ [][Next]_vars

\* A core inside acquire runs with IRQs masked and does not stop, and every
\* locked region of the kernel is a bounded number of statements, so a core
\* that has begun an acquire keeps stepping until it has released.  Nothing
\* obliges a core to begin one.
Fairness ==
  \A c \in Core : WF_vars(Step(c) /\ pc[c] # "out")

-------------------------------------------------------------------------------

TypeOK ==
  /\ choosing   \in [Core -> {0, 1}]
  /\ ticket     \in [Core -> Nat]
  /\ pc         \in [Core -> Label]
  /\ i          \in [Core -> 0 .. N]
  /\ max_ticket \in [Core -> Nat]
  /\ ahead      \in [Core -> SUBSET Core]

\* spinlock.c / spinlock/docs.md: at most one core is between the return of
\* spinlock_acquire and spinlock_release.
MutualExclusion ==
  \A c, d \in Core : pc[c] = "held" /\ pc[d] = "held" => c = d

\* First come, first served: a core never holds the lock while another core
\* that was already in line when it announced itself has not been served.
\* (lexicographic (ticket, core_id) order, spinlock.c:33-35)
FirstComeFirstServed ==
  \A c \in Core : pc[c] = "held" => ahead[c] = {}

\* No starvation and no deadlock: a core that starts to acquire gets the lock.
AcquireReturns ==
  \A c \in Core : pc[c] = "scan" ~> pc[c] = "held"

\* The lock as its callers see it.
HeldBy == IF \E c \in Core : pc[c] = "held"
            THEN CHOOSE c \in Core : pc[c] = "held"
            ELSE N

Abstract == INSTANCE SharedLock WITH NoCore <- N, owner <- HeldBy

\* The word-by-word algorithm implements the atomic lock.
ImplementsSharedLock == Abstract!Spec
===============================================================================
