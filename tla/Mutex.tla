--------------------------------- MODULE Mutex ---------------------------------
(***************************************************************************)
(* kernel/mutex/mutex.c on top of the scheduler: mutexes with optional     *)
(* priority inheritance, shared by tasks of several cores.                 *)
(*                                                                         *)
(* A call runs with IRQs masked on its own core and holds mtx->lock from   *)
(* start to end, but takes the scheduler lock of one core at a time.  Each *)
(* such region is a step of its own; what a call does between two of them  *)
(* touches only data that mtx->lock protects and is part of the step next  *)
(* to it, except the unlocked read of the owner's priority, which another  *)
(* mutex's call on another core can overtake (inherit_check, boost_owner). *)
(*                                                                         *)
(* mtx->state is LOCKED exactly when mutex_owner is not NULL, so the model *)
(* has only `owner'.  Tasks keep the contract of the API: they unlock what *)
(* they hold and do not lock it again.  A mutex_lock with timeout 0 that   *)
(* fails changes nothing and has no action.                                *)
(***************************************************************************)
EXTENDS Scheduler

CONSTANTS
  Mutex,
  Users,         \* which tasks use a mutex
  Inheriting,    \* mutexes on which mutex_set_inheritance is called
  Timeouts       \* bound: timeout_ms > 0 that a mutex is waited for with

MutexUser == UNION {Users[m] : m \in Mutex}

ASSUME MutexAssumption ==
  /\ Users \in [Mutex -> SUBSET (Task \ {Idle[c] : c \in Core})]
  /\ Inheriting \subseteq Mutex
  /\ Timeouts \in [Mutex -> SUBSET (Nat \ {0})]
  /\ Null \notin Mutex /\ IsFiniteSet(Mutex)

\* What the theorems ask of an application: a mutex that is waited for with a
\* timeout is used on one core only (otherwise the tick handler may wake a task
\* that an unlock on another core has popped), ...
OneCoreTimeouts ==
  \A m \in Mutex : Timeouts[m] # {} => \A t, u \in Users[m] : CoreOf[t] = CoreOf[u]

\* ... and the tasks that can boost a common owner of two mutexes are on one core
\* (otherwise the one that read its priority first may lower it again)
OneCoreBoosts ==
  \A m, n \in Inheriting : m # n =>
    \A o \in Users[m] \cap Users[n] : \A t \in Users[m] \ {o}, u \in Users[n] \ {o} :
      CoreOf[t] = CoreOf[u]

VARIABLES
  owner,        \* mtx->mutex_owner
  waiters,      \* mtx->mutex_blocked_list
  inherited,    \* mtx->inherited_priority
  inheritance,  \* mtx->inheritance_enabled
  lock,         \* the task whose call holds mtx->lock between two steps
  held,         \* tcb->mutexes_held
  holding,      \* the mutexes each task's code knows that it has locked
  pc,           \* where in a call the task is
  target,       \* the call's mtx
  next          \* mutex_unlock's next_owner

mutexVars == <<owner, waiters, inherited, inheritance, lock, held, holding,
               pc, target, next>>
allVars == <<vars, mutexVars>>

\* Steps of a call that are taken with IRQs masked
Critical == {"check", "raise", "restore", "handover"}

Masked(c) == current[c] # Null /\ pc[current[c]] \in Critical

\* t is at a call site and its core is its own
Calling(t, m) ==
  /\ Executing(t)
  /\ pc[t] = "idle"
  /\ t \in Users[m]
  /\ lock[m] = Null

\* mtx->lock is released and the call goes on to (or returns to) `label'
Leave(t, m, label) ==
  /\ lock' = [lock EXCEPT ![m] = Null]
  /\ pc'   = [pc EXCEPT ![t] = label]

-------------------------------------------------------------------------------

\* mutex_init for every mutex
MutexInit ==
  /\ Init
  /\ owner       = [m \in Mutex |-> Null]
  /\ waiters     = [m \in Mutex |-> <<>>]
  /\ inherited   = [m \in Mutex |-> 0]
  /\ inheritance = [m \in Mutex |-> FALSE]
  /\ lock        = [m \in Mutex |-> Null]
  /\ held        = [t \in Task |-> 0]
  /\ holding     = [t \in Task |-> {}]
  /\ pc          = [t \in Task |-> "idle"]
  /\ target      = [t \in Task |-> Null]
  /\ next        = [t \in Task |-> Null]

\* BUG: allowed while the mutex is in use.
MutexIdle_Any(m) == TRUE

MutexIdle(m) == owner[m] = Null /\ waiters[m] = <<>>

\* mutex_set_inheritance: E_INVALID_ARGS unless the mutex is idle
mutex_set_inheritance(t, m, enable) ==
  /\ Calling(t, m)
  /\ MutexIdle(m)
  /\ inheritance' = [inheritance EXCEPT ![m] = enable]
  /\ UNCHANGED <<vars, owner, waiters, inherited, lock, held, holding, pc, target, next>>

-------------------------------------------------------------------------------
\* mutex_lock

\* MUTEX_STATE_UNLOCKED
Unlocked(m) == owner[m] = Null

\* The mutex is UNLOCKED: it is taken at once
lock_free(t, m) ==
  /\ Calling(t, m)
  /\ Unlocked(m)
  /\ owner'   = [owner EXCEPT ![m] = t]
  /\ held'    = [held EXCEPT ![t] = IF inheritance[m] THEN @ + 1 ELSE @]
  /\ holding' = [holding EXCEPT ![t] = @ \cup {m}]
  /\ UNCHANGED <<vars, waiters, inherited, inheritance, lock, pc, target, next>>

\* It is LOCKED: the caller joins both lists and is BLOCKED.  Without
\* inheritance the lock is released at once.
lock_wait(t, m) ==
  /\ Calling(t, m)
  /\ ~ Unlocked(m) /\ m \notin holding[t]
  /\ waiters' = [waiters EXCEPT ![m] = Append(@, t)]
  /\ SleepForever(t) \/ \E r \in Timeouts[m] : Sleep(t, r)
  /\ target'  = [target EXCEPT ![t] = m]
  /\ IF inheritance[m]
       THEN /\ lock' = [lock EXCEPT ![m] = t]
            /\ pc'   = [pc EXCEPT ![t] = "check"]
       ELSE Leave(t, m, "waiting")
  /\ UNCHANGED <<owner, inherited, inheritance, held, holding, next>>

\* BUG: only the first waiter counts.
Inherits_First(t, m) == IF inherited[m] = 0 THEN priority[t] ELSE inherited[m]

\* The priority the mutex hands on to its owner once t waits too
Inherits(t, m) == Max({inherited[m], priority[t]})

\* The waiter's priority is inherited by the mutex; the owner's is read
\* without its core's lock
inherit_check(t) ==
  LET m == target[t]
  IN  /\ pc[t] = "check"
      /\ inherited' = [inherited EXCEPT ![m] = Inherits(t, m)]
      /\ IF priority[owner[m]] < Inherits(t, m)
           THEN pc' = [pc EXCEPT ![t] = "raise"] /\ UNCHANGED lock
           ELSE Leave(t, m, "waiting")
      /\ UNCHANGED <<vars, owner, waiters, inheritance, held, holding, target, next>>

\* scheduler_change_task_priority on the owner, under its core's lock
boost_owner(t) ==
  LET m == target[t]
  IN  /\ pc[t] = "raise"
      /\ scheduler_change_task_priority(owner[m], inherited[m])
      /\ Leave(t, m, "waiting")
      /\ UNCHANGED <<owner, waiters, inherited, inheritance, held, holding, target, next>>

\* BUG: every wake-up is taken for success.
HandedOver_Always(t, m) == TRUE

HandedOver(t, m) == owner[m] = t

\* Awake again: E_OK if the mutex was handed over, otherwise E_TIMED_OUT
lock_result(t) ==
  LET m == target[t]
  IN  /\ pc[t] = "waiting"
      /\ Executing(t)
      /\ lock[m] = Null
      /\ holding' = [holding EXCEPT ![t] = IF HandedOver(t, m) THEN @ \cup {m} ELSE @]
      /\ pc'      = [pc EXCEPT ![t] = "idle"]
      /\ target'  = [target EXCEPT ![t] = Null]
      /\ UNCHANGED <<vars, owner, waiters, inherited, inheritance, lock, held, next>>

-------------------------------------------------------------------------------
\* mutex_unlock

\* The first of the waiters with the highest priority
best(s) == s[Min({k \in DOMAIN s : \A j \in DOMAIN s : priority[s[j]] <= priority[s[k]]})]

\* The highest priority among the other waiters
second_best(s) == Max({0} \cup {priority[u] : u \in ToSet(s) \ {best(s)}})

\* BUG: tests mutexes_held before it is decremented.
MustRestore_Early(t, m) ==
  inheritance[m] /\ held[t] = 0 /\ priority[t] # BasePriority[t]

\* The last inheritance mutex is released by a boosted holder
MustRestore(t, m) ==
  inheritance[m] /\ held[t] = 1 /\ priority[t] # BasePriority[t]

\* BUG: off by one, the last waiter is not seen.
NoWaiters_One(m) == Len(waiters[m]) <= 1

NoWaiters(m) == waiters[m] = <<>>

\* Nobody waits: the mutex becomes UNLOCKED
unlock_idle(t, m) ==
  /\ Calling(t, m)
  /\ m \in holding[t] /\ NoWaiters(m)
  /\ owner'     = [owner EXCEPT ![m] = Null]
  /\ inherited' = [inherited EXCEPT ![m] = 0]
  /\ held'      = [held EXCEPT ![t] = IF inheritance[m] THEN @ - 1 ELSE @]
  /\ holding'   = [holding EXCEPT ![t] = @ \ {m}]
  /\ IF MustRestore(t, m)
       THEN /\ lock'   = [lock EXCEPT ![m] = t]
            /\ pc'     = [pc EXCEPT ![t] = "restore"]
            /\ target' = [target EXCEPT ![t] = m]
       ELSE UNCHANGED <<lock, pc, target>>
  /\ UNCHANGED <<vars, waiters, inheritance, next>>

\* Somebody waits: the best waiter is popped and will be the next owner
unlock_pop(t, m) ==
  LET w == best(waiters[m])
  IN  /\ Calling(t, m)
      /\ m \in holding[t] /\ ~ NoWaiters(m)
      /\ waiters'   = [waiters EXCEPT ![m] = Unlinked(@, w)]
      /\ inherited' = [inherited EXCEPT ![m] = second_best(waiters[m])]
      /\ held'      = [held EXCEPT ![t] = IF inheritance[m] THEN @ - 1 ELSE @]
      /\ holding'   = [holding EXCEPT ![t] = @ \ {m}]
      /\ lock'      = [lock EXCEPT ![m] = t]
      /\ pc'        = [pc EXCEPT ![t] = IF MustRestore(t, m) THEN "restore" ELSE "handover"]
      /\ target'    = [target EXCEPT ![t] = m]
      /\ next'      = [next EXCEPT ![t] = w]
      /\ UNCHANGED <<vars, owner, inheritance>>

\* The holder goes back to its base priority, under its core's lock
restore_holder(t) ==
  /\ pc[t] = "restore"
  /\ scheduler_change_task_priority(t, BasePriority[t])
  /\ IF next[t] = Null
       THEN Leave(t, target[t], "idle") /\ target' = [target EXCEPT ![t] = Null]
       ELSE pc' = [pc EXCEPT ![t] = "handover"] /\ UNCHANGED <<lock, target>>
  /\ UNCHANGED <<owner, waiters, inherited, inheritance, held, holding, next>>

\* The new owner is boosted if need be and made ready, under its core's lock
handover(t) ==
  LET m == target[t]
      w == next[t]
      p == IF inheritance[m] /\ inherited[m] > priority[w] THEN inherited[m] ELSE priority[w]
  IN  /\ pc[t] = "handover"
      /\ LockFree(CoreOf[w])
      /\ owner'     = [owner EXCEPT ![m] = w]
      /\ held'      = [held EXCEPT ![w] = IF inheritance[m] THEN @ + 1 ELSE @]
      /\ priority'  = [priority EXCEPT ![w] = p]
      /\ ready'     = AddToReady(IF p # priority[w] THEN ReadyAtPriority(ready, w, p)
                                                    ELSE ready, w, p)
      /\ blocked'   = RemoveFromBlocked(blocked, w)
      /\ state'     = [state EXCEPT ![w] = "READY"]
      /\ remaining' = [remaining EXCEPT ![w] = 0]
      /\ next'      = [next EXCEPT ![t] = Null]
      /\ target'    = [target EXCEPT ![t] = Null]
      /\ Leave(t, m, "idle")
      /\ UNCHANGED <<current, irq, waiters, inherited, inheritance, holding>>

-------------------------------------------------------------------------------

\* BUG: mtx->lock is waited for with the core's scheduler lock held.
TimeoutUnlink_Locks(t) ==
  /\ \A m \in Mutex : lock[m] = Null
  /\ waiters' = [m \in Mutex |->
       IF t \in ToSet(waiters[m]) THEN Unlinked(waiters[m], t) ELSE waiters[m]]

\* timer_tick_handler: a task that times out leaves the list of the mutex it
\* waits for, if it is still on it.  mtx->lock is not taken.
TimeoutUnlink(t) ==
  waiters' = [m \in Mutex |->
    IF t \in ToSet(waiters[m]) THEN Unlinked(waiters[m], t) ELSE waiters[m]]

\* The scheduler, with its interrupt masked during a call
MutexKernel(c) ==
  \/ /\ \/ scheduler_start(c)
        \/ ~ Masked(c) /\ Tick(c)
        \/ TickDone(c)
        \/ scheduler_switch_context(c)
     /\ UNCHANGED mutexVars
  \/ /\ TickWake(c)
     /\ TimeoutUnlink(blocked[c][1])
     /\ UNCHANGED <<owner, inherited, inheritance, lock, held, holding, pc, target, next>>

\* The rest of a call that has begun
Continue(t) ==
  inherit_check(t) \/ boost_owner(t) \/ lock_result(t) \/ restore_holder(t) \/ handover(t)

Call(t) ==
  \E m \in Mutex :
    \/ lock_free(t, m)
    \/ lock_wait(t, m)
    \/ unlock_idle(t, m)
    \/ unlock_pop(t, m)
    \/ m \in Inheriting /\ \E e \in BOOLEAN : mutex_set_inheritance(t, m, e)

MutexNext ==
  \/ \E c \in Core : MutexKernel(c)
  \/ \E t \in Task :
       \/ task_create(t) /\ UNCHANGED mutexVars
       \/ pc[t] = "idle" /\ (\E r \in Delays[t] : block_until(t, r)) /\ UNCHANGED mutexVars
       \/ Call(t)
       \/ Continue(t)

MutexSpec == MutexInit /\ [][MutexNext]_allVars

\* The tick comes again and again and its handler ends.  A call that has begun
\* goes on; what it waits for inside is a spinlock, and a spinlock that is free
\* again and again is got in the end (AcquireReturns of Spinlock), so the
\* fairness is strong.  Nothing is assumed of the tasks' own code.
MutexFairness ==
  /\ \A c \in Core : WF_allVars(MutexKernel(c))
  /\ \A t \in MutexUser : SF_allVars(Continue(t))

-------------------------------------------------------------------------------

MutexTypeOK ==
  /\ TypeOK
  /\ owner       \in [Mutex -> Task \cup {Null}]
  /\ waiters     \in [Mutex -> Seq(Task)]
  /\ inherited   \in [Mutex -> Priority]
  /\ inheritance \in [Mutex -> BOOLEAN]
  /\ lock        \in [Mutex -> Task \cup {Null}]
  /\ held        \in [Task -> Nat]
  /\ holding     \in [Task -> SUBSET Mutex]
  /\ pc          \in [Task -> Critical \cup {"idle", "waiting"}]
  /\ target      \in [Task -> Mutex \cup {Null}]
  /\ next        \in [Task -> Task \cup {Null}]

\* The owner field and what tasks were told agree: whoever got E_OK and has not
\* unlocked is the owner, so no two tasks hold a mutex; and the owner knows it
\* or is awake and about to be told, so no mutex is handed to a task that then
\* returns E_TIMED_OUT from mutex_lock.
OwnershipAgrees ==
  \A m \in Mutex, t \in Task :
    /\ m \in holding[t] => owner[m] = t
    /\ owner[m] = t /\ lock[m] # t =>
         \/ m \in holding[t]
         \/ pc[t] = "waiting" /\ target[t] = m /\ state[t] # "BLOCKED"

\* No lost wake-up: a task that sleeps in mutex_lock is on the list of a locked
\* mutex, or its unlocker has popped it and is about to wake it.
NoLostWaiter ==
  \A t \in Task : pc[t] = "waiting" /\ state[t] = "BLOCKED" =>
    \/ t \in ToSet(waiters[target[t]]) /\ owner[target[t]] # Null
    \/ \E u \in Task : pc[u] \in {"restore", "handover"} /\ next[u] = t

\* Priority inheritance: between calls, the owner of an inheritance mutex runs
\* at no less than the base priority of any task that waits for it.
OwnerOutranksWaiters ==
  \A m \in Mutex : inheritance[m] /\ lock[m] = Null =>
    \A w \in ToSet(waiters[m]) : priority[owner[m]] >= BasePriority[w]

\* mutexes_held counts the inheritance mutexes a task owns (not the one it is
\* giving up), so it reaches 0, and the priority is restored, with the last one.
HeldCounts ==
  \A t \in Task :
    held[t] = Cardinality({m \in Mutex : inheritance[m] /\ owner[m] = t /\ lock[m] # t})

\* A boost does not outlive the mutexes it was for (mutex.h:53, "restoring the
\* owner's original priority").
BoostEnds ==
  \A t \in Task : held[t] = 0 /\ pc[t] # "restore" => priority[t] = BasePriority[t]

\* The boost of mutex_lock never lowers the owner's priority (mutex.h:46,
\* "Boosts the owner's priority").
BoostRaises ==
  [][\A t \in Task : pc[t] = "raise" /\ pc'[t] = "waiting" =>
       LET o == owner[target[t]] IN priority'[o] >= priority[o]]_allVars

\* The two kinds of locks never wait for each other: a call that has masked its
\* core's interrupts comes to an end (scheduler/docs.md, "Lock order").
CallsEnd == \A c \in Core : Masked(c) ~> ~ Masked(c)

\* A wait with a timeout ends, whatever the other tasks do.
TimedWaitEnds ==
  \A t \in UNION {Users[m] : m \in {n \in Mutex : Timeouts[n] # {}}} :
    pc[t] # "idle" /\ t \in ToSet(blocked[CoreOf[t]]) ~> state[t] # "BLOCKED"
===============================================================================
