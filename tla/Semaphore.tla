------------------------------- MODULE Semaphore -------------------------------
(***************************************************************************)
(* kernel/semaphore/semaphore.c on top of the scheduler: counting          *)
(* semaphores taken by tasks and given by any core, from a task, from an   *)
(* interrupt handler, or from a core that runs no scheduler.               *)
(*                                                                         *)
(* As in Mutex, a call masks its core's IRQs and holds smph->lock while it *)
(* takes a core's scheduler lock; each region under a scheduler lock is a  *)
(* step.  A task that waits links itself into the semaphore's list before  *)
(* it takes that lock and is BLOCKED only after it has released it, so     *)
(* these are steps of their own ("unready" and "block" come after them).   *)
(* Other cores meet the task in between: their tick handlers, which take   *)
(* tasks off the same list without smph->lock, and the mutex calls that    *)
(* change its priority (boost).                                            *)
(*                                                                         *)
(* num_items is kept beside the list: the tick handler decrements it for a *)
(* task whose event_list_item still names the list, linked or not.         *)
(*                                                                         *)
(* An operation on a list is one step.  The tick handler's unlinking and   *)
(* an append or a pop under smph->lock exclude each other only on one      *)
(* core; on two they may interleave within the operation, and then what    *)
(* becomes of the list is not modelled.  OneCoreTimeouts says where that   *)
(* cannot happen, and nothing is claimed of applications outside it.       *)
(***************************************************************************)
EXTENDS Scheduler

CONSTANTS
  Sem,
  MaxCount,       \* smph->max_count
  InitialCount,   \* semaphore_init's initial_count
  Givers,         \* the cores on which semaphore_give is called
  Timeouts,       \* bound: timeout_ms that a task takes a semaphore with
  Boosters,       \* the cores whose mutex calls change a task's priority
  CountMod        \* num_items is a uint32_t: 2^32

Forever == -1     \* SEMAPHORE_TAKE_BLOCKING

ASSUME SemaphoreAssumption ==
  /\ MaxCount \in [Sem -> Nat] /\ InitialCount \in [Sem -> Nat]
  /\ Givers \in [Sem -> SUBSET Core]
  /\ Timeouts \in [Sem -> [Task -> SUBSET (Nat \cup {Forever})]]
  /\ Boosters \in [Task -> SUBSET Core]
  /\ Null \notin Sem
  /\ IsFiniteSet(Task) /\ IsFiniteSet(Core)
  /\ CountMod \in Nat /\ Cardinality(Task) < CountMod

Taker == {t \in Task : \E s \in Sem : Timeouts[s][t] # {}}

\* What the theorems ask of an application, and semaphore.c does not check.  A
\* semaphore that is taken with a timeout is given on the taker's core only, and
\* waited for on that core only: otherwise the tick handler of one core may take a
\* task off its list while a give or a take of another core is at work on it, ...
OneCoreTimeouts ==
  \A s \in Sem, t \in Task :
    (\E ms \in Timeouts[s][t] : ms > 0) =>
      /\ Givers[s] \subseteq {CoreOf[t]}
      /\ \A u \in Task : Timeouts[s][u] \subseteq {0} \/ CoreOf[u] = CoreOf[t]

\* ... the priority of a task that takes semaphores is changed on its own core
\* only: otherwise the change may come after the task has left its ready list and
\* before it is BLOCKED, and links it there again, ...
OwnCoreBoosts == \A t \in Taker : Boosters[t] \subseteq {CoreOf[t]}

\* ... and semaphore_init is called with initial_count up to max_count
CountsFit == \A s \in Sem : InitialCount[s] <= MaxCount[s]

SemHypotheses == OneCoreTimeouts /\ OwnCoreBoosts /\ CountsFit

VARIABLES
  count,        \* smph->count
  waiters,      \* smph->semaphore_blocked_list
  num_items,    \* ... and its num_items
  container,    \* tcb->event_list_item.container
  reason,       \* tcb->wakeup_reason = WAKEUP_REASON_RESOURCE_ACQUIRED
  lock,         \* smph->lock is held between two steps
  pc,           \* where in semaphore_take the task is
  target,       \* its smph
  timeout,      \* its timeout_ms
  deadline,     \* its deadline minus the tick count, down to 0
  giving,       \* the waiter that a semaphore_give on this core has popped
  out           \* tokens taken minus tokens given

semVars == <<count, waiters, num_items, container, reason, lock, pc, target,
             timeout, deadline, giving, out>>
allVars == <<vars, semVars>>

\* BUG: semaphore_take does not mask IRQs while it enters the lists.
Masked_GiveOnly(c) == giving[c] # Null

\* The core runs with IRQs masked inside a call
Masked(c) ==
  giving[c] # Null \/ (current[c] # Null /\ pc[current[c]] \in {"unready", "block"})

Runs(t) == Executing(t) /\ ~ Masked(CoreOf[t])

-------------------------------------------------------------------------------

\* semaphore_init for every semaphore
SemInit ==
  /\ Init
  /\ count     = InitialCount
  /\ waiters   = [s \in Sem |-> <<>>]
  /\ num_items = [s \in Sem |-> 0]
  /\ container = [t \in Task |-> Null]
  /\ reason    = [t \in Task |-> FALSE]
  /\ lock      = [s \in Sem |-> FALSE]
  /\ pc        = [t \in Task |-> "idle"]
  /\ target    = [t \in Task |-> Null]
  /\ timeout   = [t \in Task |-> 0]
  /\ deadline  = [t \in Task |-> 0]
  /\ giving    = [c \in Core |-> Null]
  /\ out       = [s \in Sem |-> 0]

-------------------------------------------------------------------------------
\* semaphore_take

\* The deadline is computed, with IRQs still enabled
semaphore_take(t, s, ms) ==
  /\ Runs(t) /\ pc[t] = "idle"
  /\ pc'       = [pc EXCEPT ![t] = "try"]
  /\ target'   = [target EXCEPT ![t] = s]
  /\ timeout'  = [timeout EXCEPT ![t] = ms]
  /\ deadline' = [deadline EXCEPT ![t] = IF ms > 0 THEN ms ELSE 0]
  /\ UNCHANGED <<vars, count, waiters, num_items, container, reason, lock, giving, out>>

\* BUG: a timeout that has passed is not noticed before waiting again.
GivesUp_NonBlockingOnly(t) == timeout[t] = 0

\* E_TIMED_OUT: non-blocking, or the deadline has passed
GivesUp(t) == timeout[t] # Forever /\ deadline[t] = 0

\* What both ways to return do with the local state of the call
Return(t) ==
  /\ pc'       = [pc EXCEPT ![t] = "idle"]
  /\ target'   = [target EXCEPT ![t] = Null]
  /\ timeout'  = [timeout EXCEPT ![t] = 0]
  /\ deadline' = [deadline EXCEPT ![t] = 0]

\* One pass of the loop up to the wait, when a token is there, ...
take_now(t) ==
  LET s == target[t]
  IN  /\ pc[t] = "try" /\ Runs(t) /\ ~ lock[s]
      /\ count[s] > 0
      /\ count' = [count EXCEPT ![s] = @ - 1]
      /\ out'   = [out EXCEPT ![s] = @ + 1]
      /\ Return(t)
      /\ UNCHANGED <<vars, waiters, num_items, container, reason, lock, giving>>

\* ... when there is none and no time to wait, ...
take_timed_out(t) ==
  LET s == target[t]
  IN  /\ pc[t] = "try" /\ Runs(t) /\ ~ lock[s]
      /\ count[s] = 0 /\ GivesUp(t)
      /\ Return(t)
      /\ UNCHANGED <<vars, count, waiters, num_items, container, reason, lock, giving, out>>

\* ... and otherwise: into the list of the semaphore, under its lock only, ...
take_append(t) ==
  LET s == target[t]
  IN  /\ pc[t] = "try" /\ Runs(t) /\ ~ lock[s]
      /\ count[s] = 0 /\ ~ GivesUp(t)
      /\ waiters'   = [waiters EXCEPT ![s] = Append(@, t)]
      /\ num_items' = [num_items EXCEPT ![s] = (@ + 1) % CountMod]
      /\ container' = [container EXCEPT ![t] = s]
      /\ lock'      = [lock EXCEPT ![s] = TRUE]
      /\ pc'        = [pc EXCEPT ![t] = "unready"]
      /\ UNCHANGED <<vars, count, reason, target, timeout, deadline, giving, out>>

\* ... and out of the ready list, under the scheduler lock
take_unready(t) ==
  /\ pc[t] = "unready" /\ LockFree(CoreOf[t])
  /\ ready' = RemoveFromReady(ready, t, priority[t])
  /\ IF timeout[t] > 0
       THEN /\ blocked'   = AddToBlocked(blocked, t, remaining, deadline[t])
            /\ remaining' = [remaining EXCEPT ![t] = deadline[t]]
       ELSE UNCHANGED <<blocked, remaining>>
  /\ pc' = [pc EXCEPT ![t] = "block"]
  /\ UNCHANGED <<state, priority, current, irq, count, waiters, num_items, container, reason,
                 lock, target, timeout, deadline, giving, out>>

\* The state is set with only smph->lock held, which is then released
take_block(t) ==
  /\ pc[t] = "block"
  /\ state' = [state EXCEPT ![t] = "BLOCKED"]
  /\ lock'  = [lock EXCEPT ![target[t]] = FALSE]
  /\ pc'    = [pc EXCEPT ![t] = "wait"]
  /\ UNCHANGED <<ready, blocked, priority, remaining, current, irq, count, waiters,
                 num_items, container, reason, target, timeout, deadline, giving, out>>

\* Awake again: a token was handed over (E_OK), or the loop goes round
take_woken(t) ==
  LET s == target[t]
  IN  /\ pc[t] = "wait" /\ Runs(t) /\ ~ lock[s]
      /\ IF reason[t]
           THEN /\ reason' = [reason EXCEPT ![t] = FALSE]
                /\ out' = [out EXCEPT ![s] = @ + 1]
                /\ Return(t)
           ELSE /\ pc' = [pc EXCEPT ![t] = "try"]
                /\ UNCHANGED <<reason, out, target, timeout, deadline>>
      /\ UNCHANGED <<vars, count, waiters, num_items, container, lock, giving>>

Continue(t) ==
  \/ take_now(t) \/ take_timed_out(t)
  \/ take_append(t) \/ take_unready(t) \/ take_block(t) \/ take_woken(t)

-------------------------------------------------------------------------------
\* semaphore_give

\* Core c runs the code of a task that is not in semaphore_take
InTask(c) ==
  ~ Masked(c) /\ current[c] # Null /\ Executing(current[c]) /\ pc[current[c]] = "idle"

\* Core c can call it: in task code, in the tick interrupt after its handler
\* has let go of the scheduler lock (software_timer_tick), or without a scheduler
CanGive(c, s) ==
  /\ c \in Givers[s] /\ ~ lock[s] /\ ~ Masked(c)
  /\ current[c] = Null \/ irq[c] = "switch" \/ InTask(c)

\* BUG: the count grows past its maximum.
HasRoom_OneMore(s) == count[s] <= MaxCount[s]

HasRoom(s) == count[s] < MaxCount[s]

\* Nobody waits: the count grows (E_RESOURCE_EXHAUSTED, no change, at max_count)
give_count(c, s) ==
  /\ CanGive(c, s)
  /\ num_items[s] = 0 /\ HasRoom(s)
  /\ count' = [count EXCEPT ![s] = @ + 1]
  /\ out'   = [out EXCEPT ![s] = @ - 1]
  /\ UNCHANGED <<vars, waiters, num_items, container, reason, lock, pc, target, timeout,
                 deadline, giving>>

\* The longest waiting task is popped; its event_list_item still names the list
give_pop(c, s) ==
  /\ CanGive(c, s)
  /\ num_items[s] > 0
  /\ giving'    = [giving EXCEPT ![c] = Head(waiters[s])]
  /\ waiters'   = [waiters EXCEPT ![s] = Tail(@)]
  /\ num_items' = [num_items EXCEPT ![s] = (@ - 1) % CountMod]
  /\ lock'      = [lock EXCEPT ![s] = TRUE]
  /\ out'       = [out EXCEPT ![s] = @ - 1]
  /\ UNCHANGED <<vars, count, container, reason, pc, target, timeout, deadline>>

\* BUG: the woken task is not told that it has the token.
HandToken_Silent(t) == UNCHANGED reason

HandToken(t) == reason' = [reason EXCEPT ![t] = TRUE]

\* It is made ready under its core's scheduler lock and told that it has a token
give_wake(c) ==
  LET t == giving[c]
  IN  /\ t # Null
      /\ MakeReady(t)
      /\ container' = [container EXCEPT ![t] = Null]
      /\ HandToken(t)
      /\ lock'      = [lock EXCEPT ![target[t]] = FALSE]
      /\ giving'    = [giving EXCEPT ![c] = Null]
      /\ UNCHANGED <<count, waiters, num_items, pc, target, timeout, deadline, out>>

-------------------------------------------------------------------------------
\* The scheduler, with tasks that wait for semaphores

\* A mutex_lock or mutex_unlock on core c calls scheduler_change_task_priority for
\* t, in its weakest form as in Scheduler, but that a task only ever takes itself
\* back to its base priority.  A task whose state is not BLOCKED is unlinked from
\* whatever list it is in: that of its priority, or the blocked list, or none, when
\* it is about to block.
boost(c, t, p) ==
  /\ c \in Boosters[t] /\ InTask(c)
  /\ state[t] # "NONE" /\ t # Idle[CoreOf[t]]
  /\ p >= BasePriority[t] /\ p # priority[t]
  /\ t = current[c] => p = BasePriority[t]
  /\ LockFree(CoreOf[t])
  /\ ready'    = ReadyAtPriority(ready, t, p)
  /\ blocked'  = IF state[t] = "BLOCKED" THEN blocked ELSE RemoveFromBlocked(blocked, t)
  /\ priority' = [priority EXCEPT ![t] = p]
  /\ UNCHANGED <<state, remaining, current, irq, semVars>>

\* BUG: a task that timed out stays on the semaphore's list.
TimeoutUnlink_Keeps(t) == UNCHANGED <<waiters, num_items, container>>

\* timer_tick_handler: a task that times out leaves the list its
\* event_list_item names, whether it is still linked there or not
TimeoutUnlink(t) ==
  LET s == container[t]
  IN  IF s = Null THEN UNCHANGED <<waiters, num_items, container>>
      ELSE /\ waiters'   = IF t \in ToSet(waiters[s])
                             THEN [waiters EXCEPT ![s] = Unlinked(@, t)] ELSE waiters
           /\ num_items' = [num_items EXCEPT ![s] = (@ - 1) % CountMod]
           /\ container' = [container EXCEPT ![t] = Null]

\* The scheduler, with its interrupt masked during a call
SemKernel(c) ==
  /\ ~ Masked(c)
  /\ \/ /\ scheduler_start(c) \/ TickDone(c) \/ scheduler_switch_context(c)
        /\ UNCHANGED semVars
     \/ /\ Tick(c)
        /\ deadline' = [t \in Task |->
             IF CoreOf[t] = c /\ deadline[t] > 0 THEN deadline[t] - 1 ELSE deadline[t]]
        /\ UNCHANGED <<count, waiters, num_items, container, reason, lock, pc, target,
                       timeout, giving, out>>
     \/ /\ TickWake(c)
        /\ TimeoutUnlink(blocked[c][1])
        /\ UNCHANGED <<count, reason, lock, pc, target, timeout, deadline, giving, out>>

SemNext ==
  \/ \E c \in Core :
       \/ SemKernel(c)
       \/ give_wake(c)
       \/ \E s \in Sem : give_count(c, s) \/ give_pop(c, s)
       \/ \E t \in Task, p \in Priority : boost(c, t, p)
  \/ \E t \in Task :
       \/ task_create(t) /\ ~ Masked(CoreOf[t]) /\ UNCHANGED semVars
       \/ pc[t] = "idle" /\ ~ Masked(CoreOf[t])
            /\ (\E r \in Delays[t] : block_until(t, r)) /\ UNCHANGED semVars
       \/ \E s \in Sem : \E ms \in Timeouts[s][t] : semaphore_take(t, s, ms)
       \/ Continue(t)

SemSpec == SemInit /\ [][SemNext]_allVars

\* As in Mutex: the tick recurs, and a call that has begun gets its spinlocks.
\* A tick that is due while a call masks it stays pending and is taken as soon
\* as the mask is lifted, hence strong fairness for it too.
SemFairness ==
  /\ \A c \in Core : SF_allVars(SemKernel(c)) /\ SF_allVars(give_wake(c))
  /\ \A t \in Taker : SF_allVars(Continue(t))

-------------------------------------------------------------------------------

SemTypeOK ==
  /\ TypeOK
  /\ count     \in [Sem -> Nat] /\ \A s \in Sem : count[s] <= MaxCount[s]
  /\ waiters   \in [Sem -> Seq(Task)]
  /\ num_items \in [Sem -> 0 .. CountMod - 1]
  /\ container \in [Task -> Sem \cup {Null}]
  /\ reason    \in [Task -> BOOLEAN]
  /\ lock      \in [Sem -> BOOLEAN]
  /\ pc        \in [Task -> {"idle", "try", "unready", "block", "wait"}]
  /\ target    \in [Task -> Sem \cup {Null}]
  /\ timeout   \in [Task -> Nat \cup {Forever}]
  /\ deadline  \in [Task -> Nat]
  /\ giving    \in [Core -> Task \cup {Null}]
  /\ out       \in [Sem -> Int]

\* Tokens are neither lost nor made: what is in the count, handed to a task that
\* has not yet returned, on its way in a semaphore_give, and taken for good, adds
\* up to the initial count.
TokensConserved ==
  \A s \in Sem :
    count[s] + out[s]
      + Cardinality({t \in Task : target[t] = s /\ reason[t]})
      + Cardinality({c \in Core : giving[c] # Null /\ target[giving[c]] = s})
    = InitialCount[s]

\* Nobody waits while a token is there, and num_items counts the waiters: a
\* give never finds a list that it believes is not empty to be empty.
WaitersExact ==
  \A s \in Sem :
    /\ num_items[s] = Len(waiters[s])
    /\ ToSet(waiters[s]) =
         {t \in Task : container[t] = s /\ \A c \in Core : giving[c] # t}
    /\ count[s] > 0 => waiters[s] = <<>>

\* A task waits in semaphore_take only while a give can find it, and it is in a
\* ready list exactly when it does not wait.  In the window of semaphore.c:100-102
\* the task is in no ready list and not BLOCKED yet: a change of its priority there
\* would link it again, and it would be BLOCKED in the middle of a ready list.
NoLostTaker ==
  \A t \in Task :
    /\ pc[t] = "wait" /\ state[t] = "BLOCKED" => container[t] = target[t]
    /\ t \in ToSet(ready[CoreOf[t]][priority[t]].items)
         <=> state[t] \in {"READY", "RUNNING"} /\ pc[t] # "block"

\* A take with a timeout by the task of the highest priority of its core returns:
\* it is woken by a give or by the tick, and then gets a token or gives up.
TimedTakeReturns ==
  \A t \in Taker :
    (\A u \in Task : CoreOf[u] = CoreOf[t] /\ u # t => BasePriority[u] < BasePriority[t])
      => (timeout[t] > 0 ~> pc[t] = "idle")
===============================================================================
